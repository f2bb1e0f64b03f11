----------------------------- MODULE ServiceProofs -----------------------------
(* Requests are taken for what they are, and shutting down cuts off only what *)
(* it says it may, for any number of clients, agencies, ids and starts.       *)
EXTENDS Service, RoutesProofs

\* The cases of the switch and the gRPC service agree with what was asked for.
LEMMA OperationAsked ==
    ASSUME NEW c \in Clients, NEW k \in Calls(c)
    PROVE  Operation(c, k) = {k.row.op}
  <1>1. CASE c \in RpcClients
    BY <1>1 DEF Operation
  <1>2. CASE c \notin RpcClients
    <2>1. k.row \in Flows /\ k.id # "comm"
      BY <1>2, ServiceAssumption DEF Calls
    <2>2. Handlers(k.row.method, Url(k)) = {k.row.op}
      BY <2>1, PathsServed DEF Url
    <2> QED
      BY <1>2, <2>2 DEF Operation
  <1> QED
    BY <1>1, <1>2

\* The last thing every request of an HTTP client is checked for.
LEMMA PathAsked ==
    ASSUME NEW c \in HttpClients, NEW k \in Calls(c)
    PROVE  /\ Resource(Url(k)) = Path(k.row, k.id)
           /\ AgencyOf(Url(k), k.agency) = k.agency
  <1>1. c \notin RpcClients
    BY ServiceAssumption
  <1>2. k.row \in Flows /\ k.id # "comm"
    BY <1>1, ServiceAssumption DEF Calls
  <1>3. CASE k.forwarded
    <2>1. Url(k) = Forwarded(k.row, k.agency, k.id)
      BY <1>3 DEF Url
    <2>2. /\ FromCross(Url(k))
          /\ Url(k)[1] = k.agency
          /\ Resource(Url(k)) = Path(k.row, k.id)
      BY <1>2, <2>1, PrefixStripped
    <2> QED
      BY <2>2 DEF AgencyOf
  <1>4. CASE ~k.forwarded
    <2>1. Url(k) = Path(k.row, k.id)
      BY <1>4 DEF Url
    <2>2. ~FromCross(Url(k)) /\ Resource(Url(k)) = Path(k.row, k.id)
      BY <1>2, <2>1, DirectUntouched
    <2> QED
      BY <2>2 DEF AgencyOf
  <1> QED
    BY <1>3, <1>4

LEMMA KnownCodes == \A err : toGRPCError(err) \in Codes
  BY DEF toGRPCError, ErrorCodes, Codes

LEMMA KnownOutcomes == \A op, agency : Outcomes(op, agency) \subseteq Codes
  <1> SUFFICES ASSUME NEW op, NEW agency PROVE Outcomes(op, agency) \subseteq Codes
    OBVIOUS
  <1>1. CASE op = "GetSchema"
    BY <1>1, KnownCodes DEF Outcomes, Codes
  <1>2. CASE op = "RollbackByWorkflowRun"
    BY <1>2, KnownCodes DEF Outcomes, Codes
  <1>3. CASE op \notin {"GetSchema", "RollbackByWorkflowRun"}
    BY <1>3 DEF Outcomes, Codes
  <1> QED
    BY <1>1, <1>2, <1>3

LEMMA OperationsKnown ==
    ASSUME NEW c \in Clients, NEW k \in Calls(c)
    PROVE  k.row.op \in Operations
  <1>1. k.row \in Flows \cup Rpcs
    BY DEF Calls
  <1> QED
    BY <1>1 DEF Operations

-----------------------------------------------------------------------------
(* Type correctness. *)

LEMMA SendType ==
    ASSUME RequestsOK, NEW c \in Clients, NEW k \in Calls(c), Send(c, k)
    PROVE  RequestsOK'
  <1>1. DOMAIN call' = Clients /\ \A d \in Clients : call'[d] \in Calls(d)
    <2>1. call' = [call EXCEPT ![c] = k]
      BY DEF Send
    <2> QED
      BY <2>1 DEF RequestsOK
  <1>2. state' \in [Clients -> {"idle", "working", "publishing", "refused", "lost", "answered"}]
    BY DEF RequestsOK, Send
  <1>3. doing' \in [Clients -> Operations]
    <2>1. Operation(c, k) \subseteq Operations /\ "none" \in Operations
      BY OperationAsked, OperationsKnown DEF Operations
    <2> QED
      BY <2>1 DEF RequestsOK, Send
  <1>4. status' \in [Clients -> Codes]
    BY DEF RequestsOK, Send, Codes
  <1> QED
    BY <1>1, <1>2, <1>3, <1>4 DEF RequestsOK, Calls

LEMMA WorkType ==
    ASSUME RequestsOK, NEW c \in Clients, Work(c)
    PROVE  RequestsOK'
  <1>1. PICK code \in Outcomes(doing[c], call[c].agency) :
            /\ status' = [status EXCEPT ![c] = code]
            /\ state' = [state EXCEPT ![c] =
                  IF code = "OK" /\ doing[c] \in Announced THEN "publishing" ELSE "answered"]
    BY DEF Work
  <1>2. code \in Codes
    BY <1>1, KnownOutcomes
  <1>3. status' \in [Clients -> Codes]
    BY <1>1, <1>2 DEF RequestsOK
  <1>4. state' \in [Clients -> {"idle", "working", "publishing", "refused", "lost", "answered"}]
    BY <1>1 DEF RequestsOK
  <1> QED
    BY <1>3, <1>4 DEF RequestsOK, Work, Calls

\* TypeOK is a type invariant of the process, of its surroundings and of every
\* request.
THEOREM TypeCorrect == Spec => []TypeOK
  <1>1. Init => TypeOK
    <2> SUFFICES ASSUME Init PROVE TypeOK
      OBVIOUS
    <2>1. DOMAIN call = Clients /\ \A c \in Clients : call[c] \in Calls(c)
      <3>1. ASSUME NEW c \in Clients PROVE Calls(c) # {}
        <4>1. PICK a \in Agencies, i \in EntityIds : TRUE
          BY ServiceAssumption
        <4> DEFINE flow == Row("POST", <<"direct">>, "create_dm")
                   rpc == Row("rpc", <<>>, "GetSchema")
        <4>2. flow \in Flows /\ rpc \in Rpcs
          BY Zenon DEF Flows, Rpcs
        <4> HIDE DEF flow, rpc
        <4>3. CASE c \in RpcClients
          <5>1. [row |-> rpc, agency |-> a, id |-> i, forwarded |-> FALSE] \in Calls(c)
            BY <4>1, <4>2, <4>3 DEF Calls
          <5> QED
            BY <5>1
        <4>4. CASE c \notin RpcClients
          <5>1. [row |-> flow, agency |-> a, id |-> i, forwarded |-> FALSE] \in Calls(c)
            BY <4>1, <4>2, <4>4 DEF Calls
          <5> QED
            BY <5>1
        <4> QED
          BY <4>3, <4>4
      <3>2. call = [c \in Clients |-> CHOOSE k \in Calls(c) : TRUE]
        BY DEF Init
      <3> QED
        BY <3>1, <3>2
    <2>2. RequestsOK
      BY <2>1 DEF Init, RequestsOK, Operations, Codes
    <2>3. ProcessOK
      <3>1. 1 \in 1..MaxStarts
        BY ServiceAssumption
      <3> QED
        BY <3>1 DEF Init, ProcessOK
    <2> QED
      BY <2>2, <2>3 DEF TypeOK
  <1>2. TypeOK /\ [Next]_vars => TypeOK'
    <2> SUFFICES ASSUME TypeOK, [Next]_vars PROVE TypeOK'
      OBVIOUS
    <2> USE DEF TypeOK, process, config, outside, requests
    <2>0. UNCHANGED requests => RequestsOK'
      BY DEF RequestsOK, Calls
    <2>1. CASE NewBackend \/ Register \/ Listen \/ StopListening \/ GracefulStop \/ Shutdown
      BY <2>0, <2>1 DEF ProcessOK, NewBackend, Register, Listen, StopListening,
                        GracefulStop, Shutdown, Goto
    <2>2. CASE SeedSchema \/ ShutdownTimeout \/ CloseRegistrar \/ Heartbeat \/ Signal
      BY <2>0, <2>2 DEF ProcessOK, SeedSchema, ShutdownTimeout, CloseRegistrar,
                        Heartbeat, Signal, Goto
    <2>3. CASE Die
      <3>1. ProcessOK'
        BY <2>3 DEF ProcessOK, Die, Goto
      <3>2. state' \in [Clients -> {"idle", "working", "publishing", "refused", "lost", "answered"}]
        BY <2>3 DEF RequestsOK, Die
      <3> QED
        BY <2>3, <3>1, <3>2 DEF RequestsOK, Die, Calls
    <2>4. CASE Start
      <3>1. starts' \in 1..MaxStarts
        BY <2>4, ServiceAssumption DEF ProcessOK, Start, Disturbed
      <3> QED
        BY <2>0, <2>4, <3>1 DEF ProcessOK, Start
    <2>5. ASSUME NEW c \in Clients, NEW k \in Calls(c), Send(c, k) PROVE TypeOK'
      <3>1. ProcessOK'
        BY <2>5 DEF ProcessOK, Send
      <3> QED
        BY <2>5, <3>1, SendType
    <2>6. ASSUME NEW c \in Clients, Retry(c) PROVE TypeOK'
      BY <2>5, <2>6 DEF RequestsOK, Retry
    <2>7. ASSUME NEW c \in Clients, Work(c) PROVE TypeOK'
      <3>1. ProcessOK'
        BY <2>7 DEF ProcessOK, Work
      <3> QED
        BY <2>7, <3>1, WorkType
    <2>8. ASSUME NEW c \in Clients, Publish(c) PROVE TypeOK'
      BY <2>8 DEF ProcessOK, RequestsOK, Publish, Calls
    <2>9. CASE UNCHANGED vars
      BY <2>0, <2>9 DEF ProcessOK, vars
    <2> QED
      BY <2>1, <2>2, <2>3, <2>4, <2>5, <2>6, <2>7, <2>8, <2>9
      DEF Next, Run, Exit, Kill, Request
  <1> QED
    BY <1>1, <1>2, PTL DEF Spec

-----------------------------------------------------------------------------
(* Serving and shutting down. *)

\* Where Run is tells who may still be served.
DrainInv ==
    /\ phase \in {"backend", "seed", "register", "listen", "exited"} => Drained(Clients)
    /\ phase \in {"drainHttp", "closing", "closed"} => Drained(RpcClients)
    /\ phase \in {"closing", "closed"} /\ ~timedOut => Drained(HttpClients)

\* Nobody is served before the schema has been seeded, or has failed to be.
SchemaInv == phase \notin {"backend", "seed", "exited"} => served = "none" \/ seeded \/ seedFailed

Handled(c) ==
    doing[c] # "none" =>
        LET k == call[c] IN
        /\ doing[c] = k.row.op
        /\ Resource(Url(k)) = Path(k.row, k.id)
        /\ AgencyOf(Url(k), k.agency) = k.agency

Told(c) ==
    doing[c] = "GetSchema" /\ status[c] = "NotFound" => call[c].agency # served \/ seedFailed

\* A step of Run, or of its surroundings, that touches no request.
LEMMA QuietStep ==
    ASSUME TypeOK, DrainInv, SchemaInv, UNCHANGED requests,
           \/ NewBackend \/ SeedSchema \/ Register \/ Listen \/ StopListening \/ GracefulStop
           \/ Shutdown \/ ShutdownTimeout \/ CloseRegistrar \/ Heartbeat \/ Signal \/ Start
    PROVE  DrainInv' /\ SchemaInv'
  <1> USE DEF process, config, outside, requests, Goto
  <1>1. \A clients : Drained(clients)' <=> Drained(clients)
    BY DEF Drained, InFlight
  <1>2. Drained(Clients) => Drained(RpcClients) /\ Drained(HttpClients)
    BY DEF Drained, Clients
  <1>3. CASE NewBackend
    BY <1>1, <1>3 DEF DrainInv, SchemaInv, NewBackend
  <1>a. CASE SeedSchema
    <2>1. DrainInv'
      BY <1>1, <1>a DEF DrainInv, SeedSchema
    <2>2. served = "none" \/ seeded' \/ seedFailed'
      BY <1>a DEF SeedSchema, TypeOK, ProcessOK
    <2> QED
      BY <1>a, <2>1, <2>2 DEF SchemaInv, SeedSchema
  <1>b. CASE Register
    BY <1>1, <1>b DEF DrainInv, SchemaInv, Register
  <1>c. CASE Listen
    BY <1>1, <1>2, <1>c DEF DrainInv, SchemaInv, Listen
  <1>4. CASE StopListening \/ GracefulStop \/ Shutdown
    BY <1>1, <1>2, <1>4 DEF DrainInv, SchemaInv, StopListening, GracefulStop, Shutdown
  <1>5. CASE ShutdownTimeout \/ CloseRegistrar
    BY <1>1, <1>2, <1>5 DEF DrainInv, SchemaInv, ShutdownTimeout, CloseRegistrar
  <1>6. CASE Heartbeat \/ Signal \/ Start
    BY <1>1, <1>2, <1>6 DEF DrainInv, SchemaInv, Heartbeat, Signal, Start
  <1> QED
    BY <1>3, <1>a, <1>b, <1>c, <1>4, <1>5, <1>6

LEMMA DrainStep == TypeOK /\ DrainInv /\ SchemaInv /\ [Next]_vars => DrainInv' /\ SchemaInv'
  <1> SUFFICES ASSUME TypeOK, DrainInv, SchemaInv, [Next]_vars
               PROVE  DrainInv' /\ SchemaInv'
    OBVIOUS
  <1>1. CASE \/ NewBackend \/ SeedSchema \/ Register \/ Listen \/ StopListening \/ GracefulStop
             \/ Shutdown \/ ShutdownTimeout \/ CloseRegistrar \/ Heartbeat \/ Signal \/ Start
    <2>1. UNCHANGED requests
      BY <1>1 DEF NewBackend, SeedSchema, Register, Listen, StopListening, GracefulStop,
                  Shutdown, ShutdownTimeout, CloseRegistrar, Heartbeat, Signal, Start
    <2> QED
      BY <1>1, <2>1, QuietStep
  <1>2. CASE Die
    <2>1. phase' = "exited" /\ \A c \in Clients : ~InFlight(c)'
      BY <1>2 DEF Die, Goto, InFlight, TypeOK, RequestsOK
    <2> QED
      BY <2>1 DEF DrainInv, SchemaInv, Drained
  <1>3. ASSUME NEW c \in Clients, NEW k \in Calls(c), Send(c, k)
        PROVE  DrainInv' /\ SchemaInv'
    <2>1. UNCHANGED <<phase, timedOut, served, seeded, seedFailed>>
      BY <1>3 DEF Send, process, config, outside
    <2>2. \A d \in Clients : InFlight(d)' => InFlight(d) \/ (d = c /\ Reachable(c))
      BY <1>3 DEF Send, InFlight, TypeOK, RequestsOK
    <2>3. DrainInv'
      BY <2>1, <2>2 DEF DrainInv, Drained, Reachable, Clients
    <2> QED
      BY <2>1, <2>3 DEF SchemaInv
  <1>4. ASSUME NEW c \in Clients, Work(c) \/ Publish(c)
        PROVE  DrainInv' /\ SchemaInv'
    <2>1. UNCHANGED <<phase, timedOut, served, seeded, seedFailed>>
      BY <1>4 DEF Work, Publish, process, config, outside
    <2>2. \A d \in Clients : InFlight(d)' => InFlight(d)
      BY <1>4 DEF Work, Publish, InFlight, TypeOK, RequestsOK
    <2> QED
      BY <2>1, <2>2 DEF DrainInv, SchemaInv, Drained, Clients
  <1>5. CASE UNCHANGED vars
    BY <1>5 DEF vars, process, config, outside, requests, DrainInv, SchemaInv, Drained, InFlight
  <1>6. ASSUME NEW c \in Clients, Retry(c) PROVE DrainInv' /\ SchemaInv'
    BY <1>3, <1>6 DEF Retry, TypeOK, RequestsOK
  <1> QED
    BY <1>1, <1>2, <1>3, <1>4, <1>5, <1>6 DEF Next, Run, Exit, Kill, Request

LEMMA DrainInvariant == Spec => [](DrainInv /\ SchemaInv)
  <1>1. Init => DrainInv /\ SchemaInv
    BY DEF Init, DrainInv, SchemaInv, Drained, InFlight
  <1> QED
    BY <1>1, DrainStep, TypeCorrect, PTL DEF Spec

\* NothingCutOff: the registrar is closed and the process ends only when every
\* gRPC call has been answered, and every HTTP request that kept within the
\* time of Shutdown.
THEOREM NobodyCutOff == Spec => []NothingCutOff
  <1>1. DrainInv => NothingCutOff
    BY DEF DrainInv, NothingCutOff, Drained, Clients
  <1> QED
    BY <1>1, DrainInvariant, PTL

-----------------------------------------------------------------------------
(* What the process makes of a request, and what its sender is told. *)

LEMMA ConfigStep ==
    ASSUME [Next]_vars
    PROVE  served' = served /\ (seedFailed => seedFailed')
  <1> USE DEF process, config, outside, requests, Goto
  <1>1. CASE NewBackend \/ Register \/ Listen \/ StopListening
    BY <1>1 DEF NewBackend, Register, Listen, StopListening
  <1>a. CASE SeedSchema
    <2>1. served' = served
      BY <1>a DEF SeedSchema
    <2>2. seedFailed => seedFailed'
      BY <1>a DEF SeedSchema
    <2> QED
      BY <2>1, <2>2
  <1>2. CASE GracefulStop \/ Shutdown \/ ShutdownTimeout \/ CloseRegistrar \/ Die
    BY <1>2 DEF GracefulStop, Shutdown, ShutdownTimeout, CloseRegistrar, Die
  <1>3. CASE Signal \/ Heartbeat \/ Start \/ UNCHANGED vars
    BY <1>3 DEF Signal, Heartbeat, Start, vars
  <1>4. ASSUME NEW c \in Clients, NEW k \in Calls(c), Send(c, k)
        PROVE  UNCHANGED <<served, seedFailed>>
    BY <1>4 DEF Send
  <1>5. ASSUME NEW c \in Clients, Work(c) \/ Publish(c)
        PROVE  UNCHANGED <<served, seedFailed>>
    BY <1>5 DEF Work, Publish
  <1>6. ASSUME NEW c \in Clients, Retry(c)
        PROVE  UNCHANGED <<served, seedFailed>>
    BY <1>6 DEF Retry, Send
  <1> QED
    BY <1>1, <1>a, <1>2, <1>3, <1>4, <1>5, <1>6 DEF Next, Run, Exit, Kill, Request

LEMMA RequestStep ==
    ASSUME TypeOK, DrainInv, SchemaInv, [Next]_vars, NEW c \in Clients
    PROVE  /\ c \in HttpClients /\ Handled(c) => Handled(c)'
           /\ Told(c) => Told(c)'
  <1> DEFINE Kept == (c \in HttpClients /\ Handled(c) => Handled(c)') /\ (Told(c) => Told(c)')
  <1>1. served' = served /\ (seedFailed => seedFailed')
    BY ConfigStep
  <1>2. ASSUME UNCHANGED <<call[c], doing[c], status[c]>> PROVE Kept
    BY <1>1, <1>2 DEF Handled, Told
  <1>3. ASSUME NEW d \in Clients, NEW k \in Calls(d), Send(d, k) PROVE Kept
    <2>1. CASE d # c
      BY <1>2, <1>3, <2>1 DEF Send, TypeOK, RequestsOK
    <2>2. CASE d = c
      <3>1. call'[c] = k /\ status'[c] = "none" /\ doing'[c] \in {k.row.op, "none"}
        BY <1>3, <2>2, OperationAsked DEF Send, TypeOK, RequestsOK
      <3>2. Told(c)'
        BY <3>1 DEF Told
      <3>3. c \in HttpClients => Handled(c)'
        BY <2>2, <3>1, PathAsked DEF Handled
      <3> QED
        BY <3>2, <3>3
    <2> QED
      BY <2>1, <2>2
  <1>4. ASSUME NEW d \in Clients, Work(d) PROVE Kept
    <2>1. UNCHANGED <<call, doing, served, seeded, seedFailed>>
      BY <1>4 DEF Work, config, outside
    <2>2. Handled(c) => Handled(c)'
      BY <2>1 DEF Handled
    <2>3. ASSUME d = c, doing[c] = "GetSchema", status'[c] = "NotFound"
          PROVE  call[c].agency # served \/ seedFailed
      <3>1. ~seeded \/ call[c].agency # served
        <4>1. status'[c] \in Outcomes("GetSchema", call[c].agency)
          BY <1>4, <2>3 DEF Work, TypeOK, RequestsOK
        <4>2. toGRPCError("store error") = "Internal"
          BY DEF toGRPCError, ErrorCodes
        <4> QED
          BY <2>3, <4>1, <4>2 DEF Outcomes
      <3>2. ~Drained(Clients)
        BY <1>4, <2>3 DEF Work, Drained, InFlight
      <3>3. call[c].agency # "none"
        <4>1. call[c] \in Calls(c)
          BY DEF TypeOK, RequestsOK
        <4>2. call[c].agency \in Agencies
          BY <4>1 DEF Calls
        <4> QED
          BY <4>2, ServiceAssumption
      <3> QED
        BY <3>1, <3>2, <3>3 DEF DrainInv, SchemaInv
    <2>4. Told(c) => Told(c)'
      <3>1. d # c => status'[c] = status[c]
        BY <1>4 DEF Work, TypeOK, RequestsOK
      <3> QED
        BY <2>1, <2>3, <3>1 DEF Told
    <2> QED
      BY <2>2, <2>4
  <1>5. ASSUME UNCHANGED <<call, doing, status>> PROVE Kept
    BY <1>2, <1>5
  <1>6. ASSUME NEW d \in Clients, Retry(d) PROVE Kept
    BY <1>3, <1>6 DEF Retry, TypeOK, RequestsOK
  <1>7. CASE Run \/ Heartbeat \/ Signal \/ Kill \/ Start \/ UNCHANGED vars
    BY <1>5, <1>7 DEF vars, Run, NewBackend, SeedSchema, Register, Listen, StopListening,
           GracefulStop, Shutdown, ShutdownTimeout, CloseRegistrar, Exit, Die, Kill, Signal,
           Heartbeat, Start, requests
  <1>8. ASSUME NEW d \in Clients, Publish(d) PROVE Kept
    BY <1>5, <1>8 DEF Publish
  <1> QED
    BY <1>3, <1>4, <1>6, <1>7, <1>8 DEF Next, Request

\* ServedAsAsked: ServeHTTP and the routes registered with Cross agree, however
\* agencies and entities are called.
THEOREM RequestsServedAsAsked == Spec => []ServedAsAsked
  <1> DEFINE Inv == \A c \in HttpClients : Handled(c)
  <1>1. Init => Inv
    BY DEF Init, Handled, Clients
  <1>2. TypeOK /\ DrainInv /\ SchemaInv /\ Inv /\ [Next]_vars => Inv'
    BY RequestStep DEF Clients
  <1>3. Inv => ServedAsAsked
    BY DEF ServedAsAsked, Handled
  <1> HIDE DEF Inv
  <1> QED
    BY <1>1, <1>2, <1>3, TypeCorrect, DrainInvariant, PTL DEF Spec

\* NotFoundMeansUnseeded: the seed of Run comes before the first request,
\* restarts and signals in between notwithstanding.
THEOREM SchemaBeforeService == Spec => []NotFoundMeansUnseeded
  <1> DEFINE Inv == \A c \in Clients : Told(c)
  <1>1. Init => Inv
    BY DEF Init, Told
  <1>2. TypeOK /\ DrainInv /\ SchemaInv /\ Inv /\ [Next]_vars => Inv'
    BY RequestStep
  <1>3. Inv => NotFoundMeansUnseeded
    BY DEF NotFoundMeansUnseeded, Told
  <1> HIDE DEF Inv
  <1> QED
    BY <1>1, <1>2, <1>3, TypeCorrect, DrainInvariant, PTL DEF Spec

-----------------------------------------------------------------------------
(* Every step is promised. *)

\* Only Shutdown gives up, and only a success is announced.
LateInv ==
    /\ timedOut => phase \in {"closing", "closed", "exited"}
    /\ \A c \in Clients : state[c] = "publishing" => status[c] = "OK" /\ doing[c] \in Announced

LEMMA LateStep == TypeOK /\ LateInv /\ [Next]_vars => LateInv'
  <1> SUFFICES ASSUME TypeOK, LateInv, [Next]_vars PROVE LateInv'
    OBVIOUS
  <1> USE DEF process, config, outside, requests
  <1>1. CASE NewBackend \/ Register \/ Listen \/ StopListening \/ GracefulStop \/ Shutdown
    BY <1>1 DEF LateInv, NewBackend, Register, Listen, StopListening, GracefulStop, Shutdown, Goto
  <1>a. CASE SeedSchema
    <2>1. phase = "seed" /\ UNCHANGED <<timedOut, requests>>
      BY <1>a DEF SeedSchema
    <2> QED
      BY <2>1 DEF LateInv
  <1>2. CASE ShutdownTimeout \/ CloseRegistrar \/ Heartbeat \/ Signal \/ Start
    BY <1>2 DEF LateInv, ShutdownTimeout, CloseRegistrar, Heartbeat, Signal, Start, Goto
  <1>3. CASE Die
    BY <1>3 DEF LateInv, Die, Goto, InFlight, TypeOK, RequestsOK
  <1>4. ASSUME NEW c \in Clients, NEW k \in Calls(c), Send(c, k) PROVE LateInv'
    BY <1>4 DEF LateInv, Send, TypeOK, RequestsOK
  <1>5. ASSUME NEW c \in Clients, Retry(c) PROVE LateInv'
    BY <1>4, <1>5 DEF Retry, TypeOK, RequestsOK
  <1>6. ASSUME NEW c \in Clients, Work(c) PROVE LateInv'
    BY <1>6 DEF LateInv, Work, TypeOK, RequestsOK
  <1>7. ASSUME NEW c \in Clients, Publish(c) PROVE LateInv'
    BY <1>7 DEF LateInv, Publish, TypeOK, RequestsOK
  <1>8. CASE UNCHANGED vars
    BY <1>8 DEF LateInv, vars
  <1> QED
    BY <1>1, <1>a, <1>2, <1>3, <1>4, <1>5, <1>6, <1>7, <1>8
    DEF Next, Run, Exit, Kill, Request

LEMMA NoOperationNone == \A row \in Flows \cup Rpcs : row.op # "none"
  BY DEF Flows, Rpcs, Row

\* The rewriting of the path leaves the agency that was asked for.
LEMMA TakenForAgency ==
    ASSUME NEW c \in Clients, call[c] \in Calls(c)
    PROVE  Taken(c) = IF doing[c] = "none" THEN Promise!Nothing
                      ELSE [op |-> doing[c], agency |-> call[c].agency]
  BY PathAsked DEF Taken, Promise!Nothing, Clients

LEMMA OpenMeansInFlight ==
    ASSUME TypeOK, NEW c \in Clients
    PROVE  /\ Answer(c) = "open" <=> InFlight(c)
           /\ Promise!Open(c) <=> InFlight(c)
  <1>1. Answer(c) = "open" <=> InFlight(c)
    BY DEF TypeOK, RequestsOK, Codes, Answer, InFlight
  <1>2. [d \in Clients |-> Answer(d)][c] = Answer(c)
    OBVIOUS
  <1> QED
    BY <1>1, <1>2 DEF Promise!Open

LEMMA SameRequests ==
    ASSUME UNCHANGED requests
    PROVE  /\ [c \in Clients |-> Asked(c)]' = [c \in Clients |-> Asked(c)]
           /\ [c \in Clients |-> Taken(c)]' = [c \in Clients |-> Taken(c)]
           /\ [c \in Clients |-> Answer(c)]' = [c \in Clients |-> Answer(c)]
  BY DEF requests, Asked, Taken, Answer

LEMMA SendIsPromised ==
    ASSUME TypeOK, TypeOK', NEW c \in Clients, NEW k \in Calls(c), ~InFlight(c), Send(c, k)
    PROVE  Promise!Ask(c, [op |-> k.row.op, agency |-> k.agency])
  <1> DEFINE asked == [d \in Clients |-> Asked(d)]
             handled == [d \in Clients |-> Taken(d)]
             answer == [d \in Clients |-> Answer(d)]
             r == [op |-> k.row.op, agency |-> k.agency]
  <1>1. /\ call' = [call EXCEPT ![c] = k] /\ DOMAIN call = Clients
        /\ state \in [Clients -> {"idle", "working", "publishing", "refused", "lost", "answered"}]
        /\ doing \in [Clients -> Operations] /\ status \in [Clients -> Codes]
        /\ status' = [status EXCEPT ![c] = "none"]
    BY DEF Send, TypeOK, RequestsOK
  <1>2. ~Promise!Open(c)
    BY OpenMeansInFlight
  <1>3. asked' = [asked EXCEPT ![c] = r]
    BY <1>1 DEF Asked
  <1>4. UNCHANGED <<process, config, outside>>
    BY DEF Send
  <1>5. call'[c] \in Calls(c) /\ call'[c] = k
    BY <1>1
  <1>6. Taken(c)' = IF doing'[c] = "none" THEN Promise!Nothing
                    ELSE [op |-> doing'[c], agency |-> k.agency]
    BY <1>5, PathAsked DEF Taken, Promise!Nothing, Clients
  <1>7. ASSUME NEW x, NEW s \in {"working", "refused"},
               doing' = [doing EXCEPT ![c] = x], state' = [state EXCEPT ![c] = s]
        PROVE  /\ handled' = [handled EXCEPT ![c] = Taken(c)']
               /\ answer' = [answer EXCEPT ![c] = IF s = "working" THEN "open" ELSE "refused"]
    <2>1. \A d \in Clients \ {c} : Taken(d)' = Taken(d) /\ Answer(d)' = Answer(d)
      BY <1>1, <1>7 DEF Taken, Answer
    <2>2. Answer(c)' = IF s = "working" THEN "open" ELSE "refused"
      BY <1>1, <1>7 DEF Answer
    <2> QED
      BY <2>1, <2>2
  <1>8. CASE Reachable(c) /\ state' = [state EXCEPT ![c] = "working"]
             /\ \E op \in Operation(c, k) : doing' = [doing EXCEPT ![c] = op]
    <2>1. doing' = [doing EXCEPT ![c] = k.row.op]
      BY <1>8, OperationAsked
    <2>2. k.row.op # "none"
      BY NoOperationNone DEF Calls
    <2>3. Taken(c)' = r
      BY <1>1, <1>6, <2>1, <2>2
    <2>4. handled' = [handled EXCEPT ![c] = r] /\ answer' = [answer EXCEPT ![c] = "open"]
      BY <1>7, <1>8, <2>1, <2>3
    <2>5. Life = "serving" \/ (Life = "stopping" /\ c \in HttpClients)
      BY <1>8 DEF Reachable, Life
    <2> QED
      BY <1>2, <1>3, <1>4, <2>4, <2>5
      DEF Promise!Ask, Promise!process, Promise!schema, process, config, outside, Life
  <1>9. CASE phase # "serve" /\ state' = [state EXCEPT ![c] = "refused"]
             /\ doing' = [doing EXCEPT ![c] = "none"]
    <2>1. Taken(c)' = Promise!Nothing
      BY <1>1, <1>6, <1>9
    <2>2. handled' = [handled EXCEPT ![c] = Promise!Nothing]
          /\ answer' = [answer EXCEPT ![c] = "refused"]
      BY <1>7, <1>9, <2>1
    <2>3. Life # "serving"
      BY <1>9 DEF Life, TypeOK, ProcessOK
    <2> QED
      BY <1>2, <1>3, <1>4, <2>2, <2>3
      DEF Promise!Ask, Promise!process, Promise!schema, process, config, outside, Life
  <1> QED
    BY <1>8, <1>9 DEF Send

\* The answer of a request that ends with it.
LEMMA AnswerIsPromised ==
    ASSUME TypeOK, NEW c \in Clients, NEW code \in Codes, InFlight(c),
           doing[c] = "GetSchema" =>
               /\ code = "OK" => seeded /\ call[c].agency = served
               /\ code = "NotFound" => ~(seeded /\ call[c].agency = served),
           state' = [state EXCEPT ![c] = "answered"], status'[c] = code,
           \A d \in Clients \ {c} : status'[d] = status[d],
           UNCHANGED <<process, config, outside, call, doing>>
    PROVE  Promise!Reply(c, code)
  <1> DEFINE handled == [d \in Clients |-> Taken(d)]
             answer == [d \in Clients |-> Answer(d)]
             schemas == {a \in Agencies : seeded /\ a = served}
  <1>1. Promise!Open(c)
    BY OpenMeansInFlight
  <1>2. answer' = [answer EXCEPT ![c] = code]
    <2>1. \A d \in Clients \ {c} : Answer(d)' = Answer(d)
      BY DEF TypeOK, RequestsOK, Answer
    <2>2. Answer(c)' = code
      BY DEF TypeOK, RequestsOK, Answer
    <2> QED
      BY <2>1, <2>2
  <1>3. handled[c].op = "GetSchema" =>
            /\ code = "OK" => handled[c].agency \in schemas
            /\ code = "NotFound" => handled[c].agency \notin schemas
    <2>1. call[c] \in Calls(c) /\ call[c].agency \in Agencies
      BY DEF TypeOK, RequestsOK, Calls
    <2>2. handled[c] = Taken(c)
      OBVIOUS
    <2>3. Taken(c).op = "GetSchema" => doing[c] = "GetSchema" /\ Taken(c).agency = call[c].agency
      BY <2>1, TakenForAgency DEF Promise!Nothing
    <2> QED
      BY <2>1, <2>2, <2>3
  <1>4. /\ [d \in Clients |-> Asked(d)]' = [d \in Clients |-> Asked(d)]
        /\ handled' = handled
    BY DEF Asked, Taken
  <1> QED
    BY <1>1, <1>2, <1>3, <1>4
    DEF Promise!Reply, Promise!process, Promise!schema, process, config, outside, Life

LEMMA WorkIsPromised ==
    ASSUME TypeOK, NEW c \in Clients, Work(c)
    PROVE  (\E code \in Codes : Promise!Reply(c, code)) \/ UNCHANGED Promise!vars
  <1>1. PICK code \in Outcomes(doing[c], call[c].agency) :
            /\ status' = [status EXCEPT ![c] = code]
            /\ state' = [state EXCEPT ![c] =
                  IF code = "OK" /\ doing[c] \in Announced THEN "publishing" ELSE "answered"]
    BY DEF Work
  <1>2. /\ state[c] = "working" /\ UNCHANGED <<process, config, outside, call, doing>>
        /\ state \in [Clients -> {"idle", "working", "publishing", "refused", "lost", "answered"}]
        /\ status \in [Clients -> Codes]
    BY DEF Work, TypeOK, RequestsOK
  <1>3. CASE code = "OK" /\ doing[c] \in Announced
    <2>1. [d \in Clients |-> Answer(d)]' = [d \in Clients |-> Answer(d)]
      BY <1>1, <1>2, <1>3 DEF Answer
    <2>2. /\ [d \in Clients |-> Asked(d)]' = [d \in Clients |-> Asked(d)]
          /\ [d \in Clients |-> Taken(d)]' = [d \in Clients |-> Taken(d)]
      BY <1>2 DEF Asked, Taken
    <2> QED
      BY <1>2, <2>1, <2>2
      DEF Promise!vars, Promise!process, Promise!schema, Promise!requests,
          process, config, outside, Life
  <1>4. CASE ~(code = "OK" /\ doing[c] \in Announced)
    <2>1. code \in Codes
      BY KnownOutcomes
    <2>2. state' = [state EXCEPT ![c] = "answered"] /\ status'[c] = code
          /\ \A d \in Clients \ {c} : status'[d] = status[d]
      BY <1>1, <1>2, <1>4
    <2>3. doing[c] = "GetSchema" =>
              /\ code = "OK" => seeded /\ call[c].agency = served
              /\ code = "NotFound" => ~(seeded /\ call[c].agency = served)
      BY DEF Outcomes, toGRPCError, ErrorCodes
    <2>4. Promise!Reply(c, code)
      BY <1>2, <2>1, <2>2, <2>3, AnswerIsPromised DEF InFlight
    <2> QED
      BY <2>1, <2>4
  <1> QED
    BY <1>3, <1>4

LEMMA PublishIsPromised ==
    ASSUME TypeOK, LateInv, NEW c \in Clients, Publish(c)
    PROVE  Promise!Reply(c, "OK")
  <1>1. /\ state[c] = "publishing" /\ state' = [state EXCEPT ![c] = "answered"]
        /\ UNCHANGED <<process, config, outside, call, doing, status>>
    BY DEF Publish
  <1>2. status[c] = "OK" /\ doing[c] # "GetSchema" /\ "OK" \in Codes
    BY <1>1 DEF LateInv, Announced, Codes
  <1> QED
    BY <1>1, <1>2, AnswerIsPromised DEF InFlight

LEMMA DieIsPromised ==
    ASSUME TypeOK, phase # "exited", Die
    PROVE  Promise!Die
  <1>1. [c \in Clients |-> Answer(c)]' =
            [c \in Clients |-> IF Promise!Open(c) THEN "lost" ELSE [d \in Clients |-> Answer(d)][c]]
    <2>1. \A c \in Clients : Answer(c)' = IF InFlight(c) THEN "lost" ELSE Answer(c)
      BY DEF Die, Answer, InFlight
    <2> QED
      BY <2>1, OpenMeansInFlight
  <1>2. /\ [d \in Clients |-> Asked(d)]' = [d \in Clients |-> Asked(d)]
        /\ [d \in Clients |-> Taken(d)]' = [d \in Clients |-> Taken(d)]
    BY DEF Die, Asked, Taken
  <1>3. Life # "down" /\ Life' = "down"
    BY DEF TypeOK, ProcessOK, Die, Goto, Life
  <1> QED
    BY <1>1, <1>2, <1>3
    DEF Die, Goto, config, outside, Clients, Promise!Die, Promise!Live, Promise!schema,
        Promise!Clients

LEMMA RunIsPromised ==
    ASSUME TypeOK, DrainInv, SchemaInv, LateInv, UNCHANGED requests,
           \/ NewBackend /\ phase' # "exited"
           \/ SeedSchema \/ Register \/ Listen \/ StopListening \/ GracefulStop
           \/ Shutdown \/ ShutdownTimeout \/ CloseRegistrar \/ Heartbeat \/ Signal \/ Start
    PROVE  [Promise!Next]_Promise!vars
  <1> USE DEF process, config, outside, Goto, Promise!process, Promise!schema, Promise!requests
  <1> DEFINE schemas == {a \in Agencies : seeded /\ a = served}
             Stutter == UNCHANGED <<Life, cancelled, timedOut, served, seeded, seedFailed>>
  <1>a. /\ [c \in Clients |-> Asked(c)]' = [c \in Clients |-> Asked(c)]
        /\ [c \in Clients |-> Taken(c)]' = [c \in Clients |-> Taken(c)]
        /\ [c \in Clients |-> Answer(c)]' = [c \in Clients |-> Answer(c)]
    BY SameRequests
  <1>b. Stutter => UNCHANGED Promise!vars
    BY <1>a DEF Promise!vars
  <1>c. \A clients \in SUBSET Clients :
            Drained(clients) => \A c \in clients : ~Promise!Open(c)
    BY OpenMeansInFlight DEF Drained
  <1>d. ~Drained(HttpClients) => \E c \in HttpClients : Promise!Open(c)
    BY OpenMeansInFlight DEF Drained, Clients
  <1>e. HttpClients \subseteq Clients /\ RpcClients \subseteq Clients
    BY DEF Clients
  <1>1. CASE \/ NewBackend /\ phase' # "exited"
             \/ Register \/ GracefulStop \/ CloseRegistrar \/ Heartbeat
    <2>1. Stutter
      BY <1>1 DEF NewBackend, Register, GracefulStop, CloseRegistrar, Heartbeat, Life
    <2> QED
      BY <1>b, <2>1
  <1>2. CASE SeedSchema
    <2>1. Life = "starting" /\ UNCHANGED <<Life, cancelled, timedOut, served>>
      BY <1>2 DEF SeedSchema, Life
    <2>2. \/ schemas' = schemas \cup ({served} \cap Agencies) /\ UNCHANGED seedFailed
          \/ /\ schemas' \in {schemas, schemas \cup ({served} \cap Agencies)}
             /\ seedFailed' = TRUE
      <3>1. served' = served /\ "none" \notin Agencies
            /\ served \in Agencies \cup {"none"} /\ seeded \in BOOLEAN
        BY <2>1, ServiceAssumption DEF TypeOK, ProcessOK
      <3>2. CASE seeded' = (seeded \/ served # "none") /\ UNCHANGED seedFailed
        BY <3>1, <3>2
      <3>3. CASE served # "none" /\ seeded' \in {seeded, TRUE} /\ seedFailed' = TRUE
        <4>1. schemas' = schemas \/ schemas' = schemas \cup ({served} \cap Agencies)
          <5>1. CASE seeded' = seeded
            BY <3>1, <5>1
          <5>2. CASE seeded' = TRUE
            BY <3>1, <5>2
          <5> QED
            BY <3>3, <5>1, <5>2
        <4> QED
          BY <3>3, <4>1
      <3> QED
        BY <1>2, <3>2, <3>3 DEF SeedSchema
    <2>3. Promise!Seed
      BY <1>a, <2>1, <2>2 DEF Promise!Seed
    <2> QED
      BY <2>3 DEF Promise!Next
  <1>3. CASE Listen /\ phase' = "serve"
    <2>1. Life = "starting" /\ Life' = "serving"
          /\ UNCHANGED <<cancelled, timedOut, served, seeded, seedFailed>>
      BY <1>3 DEF Listen, Life
    <2>2. served \in Agencies => served \in schemas \/ seedFailed
      BY <1>3, ServiceAssumption DEF Listen, SchemaInv
    <2>3. Promise!Serve
      BY <1>a, <2>1, <2>2 DEF Promise!Serve, Promise!Live
    <2> QED
      BY <2>3 DEF Promise!Next
  <1>4. CASE StopListening
    <2>1. Life = "serving" /\ Life' = "stopping" /\ cancelled
          /\ UNCHANGED <<cancelled, timedOut, served, seeded, seedFailed>>
      BY <1>4 DEF StopListening, Life
    <2>2. Promise!Stop
      BY <1>a, <2>1 DEF Promise!Stop, Promise!Live
    <2> QED
      BY <2>2 DEF Promise!Next
  \* The end of the drains, or of a start that cannot listen.
  <1>5. CASE Shutdown \/ ShutdownTimeout \/ (Listen /\ phase' = "closing")
    <2>1. Life \in {"starting", "stopping"} /\ Life' = "stopped"
          /\ UNCHANGED <<cancelled, served, seeded, seedFailed>>
      BY <1>5 DEF Shutdown, ShutdownTimeout, Listen, Life
    <2>2. Drained(RpcClients)
      BY <1>5 DEF Shutdown, ShutdownTimeout, Listen, DrainInv, Drained, Clients
    <2>3. timedOut' = ~Drained(HttpClients)
      <3>1. timedOut = FALSE
        BY <1>5 DEF Shutdown, ShutdownTimeout, Listen, LateInv, TypeOK, ProcessOK
      <3>2. CASE ShutdownTimeout
        BY <3>2 DEF ShutdownTimeout
      <3>3. CASE Shutdown \/ (Listen /\ phase' = "closing")
        BY <3>1, <3>3 DEF Shutdown, Listen, DrainInv, Drained, Clients
      <3> QED
        BY <1>5, <3>2, <3>3
    <2>4. timedOut' = \E c \in HttpClients : Promise!Open(c)
      BY <1>c, <1>d, <1>e, <2>3
    <2>5. Promise!Stopped
      BY <1>a, <1>c, <1>e, <2>1, <2>2, <2>4 DEF Promise!Stopped, Promise!Live
    <2> QED
      BY <2>5 DEF Promise!Next
  <1>6. CASE Signal
    <2>1. Life # "down" /\ cancelled' = TRUE
          /\ UNCHANGED <<Life, timedOut, served, seeded, seedFailed>>
      BY <1>6 DEF Signal, Life, TypeOK, ProcessOK
    <2>2. Promise!Signal
      BY <1>a, <2>1 DEF Promise!Signal
    <2> QED
      BY <2>2 DEF Promise!Next
  <1>7. CASE Start
    <2>1. Life = "down" /\ Life' = "starting" /\ cancelled' = FALSE /\ timedOut' = FALSE
          /\ UNCHANGED <<served, seeded, seedFailed>>
      BY <1>7 DEF Start, Life
    <2>2. Promise!Start
      BY <1>a, <2>1 DEF Promise!Start, Promise!Live
    <2> QED
      BY <2>2 DEF Promise!Next
  <1> QED
    BY <1>1, <1>2, <1>3, <1>4, <1>5, <1>6, <1>7 DEF Listen

LEMMA PromisedInit == TypeOK /\ Init => Promise!Init
  <1> SUFFICES ASSUME TypeOK, Init PROVE Promise!Init
    OBVIOUS
  <1>1. [c \in Clients |-> Asked(c)] \in [Clients -> Promise!Requests]
    BY OperationsKnown DEF TypeOK, RequestsOK, Asked, Promise!Requests, Calls
  <1>2. [c \in Clients |-> Taken(c)] = [c \in Clients |-> Promise!Nothing]
    BY DEF Init, Taken, Promise!Nothing
  <1>3. [c \in Clients |-> Answer(c)] = [c \in Clients |-> "none"]
    BY DEF Init, Answer
  <1> QED
    BY <1>1, <1>2, <1>3 DEF Init, Life, Clients, Promise!Init, Promise!Clients

LEMMA PromisedStep ==
    ASSUME TypeOK, TypeOK', DrainInv, SchemaInv, LateInv, [Next]_vars
    PROVE  [Promise!Next]_Promise!vars
  <1>1. CASE \/ NewBackend /\ phase' # "exited"
             \/ SeedSchema \/ Register \/ Listen \/ StopListening \/ GracefulStop
             \/ Shutdown \/ ShutdownTimeout \/ CloseRegistrar \/ Heartbeat \/ Signal \/ Start
    <2>1. UNCHANGED requests
      BY <1>1 DEF NewBackend, SeedSchema, Register, Listen, StopListening, GracefulStop,
                  Shutdown, ShutdownTimeout, CloseRegistrar, Heartbeat, Signal, Start
    <2> QED
      BY <1>1, <2>1, RunIsPromised
  \* A start without a backend: there is nobody whose request is lost.
  <1>2. CASE NewBackend /\ phase' = "exited"
    <2>1. /\ UNCHANGED <<timedOut, cancelled, outside, served, requests>>
          /\ Life # "down" /\ Life' = "down"
      BY <1>2 DEF NewBackend, Goto, config, Life
    <2>2. \A c \in Clients : ~Promise!Open(c)
      BY <1>2, OpenMeansInFlight DEF NewBackend, DrainInv, Drained
    <2>3. Promise!Die
      <3>1. [c \in Clients |-> Answer(c)]' =
                [c \in Clients |-> IF Promise!Open(c) THEN "lost" ELSE [d \in Clients |-> Answer(d)][c]]
        BY <2>1, <2>2, SameRequests
      <3> QED
        BY <2>1, <3>1, SameRequests
        DEF outside, Clients, Promise!Die, Promise!Live, Promise!schema, Promise!Clients
    <2> QED
      BY <2>3 DEF Promise!Next
  <1>3. CASE Exit \/ Kill
    <2>1. Promise!Die
      BY <1>3, DieIsPromised DEF Exit, Kill
    <2> QED
      BY <2>1 DEF Promise!Next
  <1>4. ASSUME NEW c \in Clients, NEW k \in Calls(c), ~InFlight(c), Send(c, k)
        PROVE  Promise!Next
    <2>1. Promise!Ask(c, [op |-> k.row.op, agency |-> k.agency])
      BY <1>4, SendIsPromised
    <2>2. [op |-> k.row.op, agency |-> k.agency] \in Promise!Requests
      BY OperationsKnown DEF Promise!Requests, Calls
    <2> QED
      BY <2>1, <2>2 DEF Promise!Next, Promise!Clients, Clients
  <1>5. ASSUME NEW c \in Clients, \E k \in Calls(c) : Request(c, k) PROVE Promise!Next
    BY <1>4, <1>5 DEF Request, InFlight
  <1>6. ASSUME NEW c \in Clients, Retry(c) PROVE Promise!Next
    BY <1>4, <1>6 DEF Retry, InFlight, TypeOK, RequestsOK
  <1>7. ASSUME NEW c \in Clients, Work(c) PROVE [Promise!Next]_Promise!vars
    BY <1>7, WorkIsPromised DEF Promise!Next, Promise!Clients, Clients
  <1>8. ASSUME NEW c \in Clients, Publish(c) PROVE Promise!Next
    <2>1. "OK" \in Codes
      BY DEF Codes
    <2> QED
      BY <1>8, <2>1, PublishIsPromised DEF Promise!Next, Promise!Clients, Clients
  <1>9. CASE UNCHANGED vars
    BY <1>9, SameRequests
    DEF vars, process, config, outside, Life,
        Promise!vars, Promise!process, Promise!schema, Promise!requests
  <1> QED
    BY <1>1, <1>2, <1>3, <1>5, <1>6, <1>7, <1>8, <1>9 DEF Next, Run

\* ServeHTTP's rewriting of paths, the steps of Run, the two drains and the
\* events disappear behind a service that takes requests for what they are and
\* stops in one step.
THEOREM ServiceKeepsPromise == Spec => ImplementsPromise
  <1>1. TypeOK /\ Init => Promise!Init
    BY PromisedInit
  <1>2. TypeOK /\ TypeOK' /\ DrainInv /\ SchemaInv /\ LateInv /\ [Next]_vars
           => [Promise!Next]_Promise!vars
    BY PromisedStep
  <1>3. Init => LateInv
    BY DEF Init, LateInv
  <1> QED
    BY <1>1, <1>2, <1>3, LateStep, TypeCorrect, DrainInvariant, PTL
    DEF Spec, ImplementsPromise, Promise!Spec

================================================================================
