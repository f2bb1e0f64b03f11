-------------------------------- MODULE Service --------------------------------
(***************************************************************************)
(* The process: how Run (src/internal/app/app.go) starts it, serves HTTP   *)
(* and gRPC from one listener, and takes it down again on a signal while   *)
(* requests are under way.                                                 *)
(*                                                                         *)
(* A handler is seen from outside here: it works, it may publish an event, *)
(* it answers; what the handlers do to the store is in the other modules.  *)
(***************************************************************************)
EXTENDS Routes, FiniteSets

CONSTANTS
    HttpClients,   \* Cross, when it forwards a request, and callers of the HTTP API
    RpcClients,    \* callers of the gRPC CommService
    Agencies,
    EntityIds,     \* ids the store hands out
    MaxStarts      \* bound: starts of the process; nothing disturbs the last one

ASSUME ServiceAssumption ==
    /\ HttpClients \cap RpcClients = {}
    /\ Agencies # {} /\ "none" \notin Agencies
    /\ EntityIds # {}
    /\ "comm" \notin EntityIds
    /\ MaxStarts \in Nat \ {0}

VARIABLES
    phase,        \* where Run is
    cancelled,    \* ctx is cancelled: a signal has come
    publisher,    \* pub: nil, the registrar, or the registrar closed
    timedOut,     \* Shutdown ran into its 30 seconds
    starts        \* starts of the process so far

VARIABLES
    served,       \* CODEVALDCOMM_AGENCY_ID: an agency, or none
    crossSet      \* CROSS_GRPC_ADDR is set

VARIABLES         \* what outlives the process
    seeded,       \* the store holds the schema of the configured agency
    seedFailed,   \* history: a start could not seed it
    registered    \* Cross knows the routes

VARIABLES         \* the request of every client
    state,
    call,
    doing,        \* the operation the process took the request for
    status        \* the code of the answer

Clients == HttpClients \cup RpcClients

process == <<phase, cancelled, publisher, timedOut, starts>>
config == <<served, crossSet>>
outside == <<seeded, seedFailed, registered>>
requests == <<state, call, doing, status>>
vars == <<process, config, outside, requests>>

Rpcs == {Row("rpc", <<>>, "GetSchema"), Row("rpc", <<>>, "RollbackByWorkflowRun")}

\* The operations that end in a publish.
Announced == {"send_message", "edit_message", "promote_to_thread", "join_channel",
              "RollbackByWorkflowRun"}

Calls(c) ==
    IF c \in RpcClients
    THEN [row : Rpcs, agency : Agencies, id : EntityIds, forwarded : {FALSE}]
    ELSE [row : Flows, agency : Agencies, id : EntityIds, forwarded : BOOLEAN]

InFlight(c) == state[c] \in {"working", "publishing"}

Operations == {row.op : row \in Flows \cup Rpcs} \cup {"none", "not_found"}

Codes == {"none", "OK", "NotFound", "FailedPrecondition", "InvalidArgument", "Internal"}

ProcessOK ==
    /\ phase \in {"backend", "seed", "register", "listen", "serve", "drainRpc",
                  "drainHttp", "closing", "closed", "exited"}
    /\ publisher \in {"none", "open", "closed"}
    /\ cancelled \in BOOLEAN /\ timedOut \in BOOLEAN
    /\ served \in Agencies \cup {"none"} /\ crossSet \in BOOLEAN
    /\ seeded \in BOOLEAN /\ seedFailed \in BOOLEAN /\ registered \in BOOLEAN
    /\ starts \in 1..MaxStarts

RequestsOK ==
    /\ state \in [Clients -> {"idle", "working", "publishing", "refused", "lost", "answered"}]
    /\ DOMAIN call = Clients /\ \A c \in Clients : call[c] \in Calls(c)
    /\ doing \in [Clients -> Operations]
    /\ status \in [Clients -> Codes]

TypeOK == ProcessOK /\ RequestsOK

Init ==
    /\ phase = "backend"
    /\ cancelled = FALSE
    /\ publisher = "none"
    /\ timedOut = FALSE
    /\ starts = 1
    /\ served \in Agencies \cup {"none"}
    /\ crossSet \in BOOLEAN
    /\ seeded = FALSE
    /\ seedFailed = FALSE
    /\ registered = FALSE
    /\ state = [c \in Clients |-> "idle"]
    /\ call = [c \in Clients |-> CHOOSE k \in Calls(c) : TRUE]
    /\ doing = [c \in Clients |-> "none"]
    /\ status = [c \in Clients |-> "none"]

-----------------------------------------------------------------------------
(* Run *)

Goto(next) == phase' = next /\ UNCHANGED <<cancelled, starts, config>>

\* Something goes wrong outside the process; never in its last start.
Disturbed == starts < MaxStarts

\* Faulty: a handler that has stored what it had to is not waited for.
DrainedOfWork(clients) == \A c \in clients : state[c] # "working"

Drained(clients) == \A c \in clients : ~InFlight(c)

NewBackend ==
    /\ phase = "backend"
    /\ Goto("seed") \/ (Disturbed /\ Goto("exited"))
    /\ UNCHANGED <<publisher, timedOut, outside, requests>>

\* Faulty: nobody waits for the seed.
SeedUnawaited ==
    /\ phase = "seed"
    /\ Goto("register")
    /\ UNCHANGED <<publisher, timedOut, outside, requests>>

\* An error, and so a cancelled context, is only logged.
SeedSchema ==
    /\ phase = "seed"
    /\ \/ seeded' = (seeded \/ served # "none") /\ UNCHANGED seedFailed
       \/ /\ served # "none" /\ (Disturbed \/ cancelled)
          /\ seeded' \in {seeded, TRUE}
          /\ seedFailed' = TRUE
    /\ Goto("register")
    /\ UNCHANGED <<publisher, timedOut, registered, requests>>

\* registrar.New may fail: then there is no publisher.
Register ==
    /\ phase = "register"
    /\ (crossSet /\ publisher' = "open") \/ UNCHANGED publisher
    /\ Goto("listen")
    /\ UNCHANGED <<timedOut, outside, requests>>

\* The heartbeat, a goroutine of its own: Cross may know the routes before
\* anybody listens.
Heartbeat ==
    /\ publisher = "open" /\ ~cancelled
    /\ registered' = TRUE
    /\ UNCHANGED <<process, config, seeded, seedFailed, requests>>

Listen ==
    /\ phase = "listen"
    /\ Goto("serve") \/ (Disturbed /\ Goto("closing"))
    /\ UNCHANGED <<publisher, timedOut, outside, requests>>

\* <-ctx.Done(); then GracefulStop closes the listener that HTTP shares.
StopListening ==
    /\ phase = "serve" /\ cancelled
    /\ Goto("drainRpc")
    /\ UNCHANGED <<publisher, timedOut, outside, requests>>

\* GracefulStop waits for every call under way, however long that takes.
GracefulStop ==
    /\ phase = "drainRpc" /\ Drained(RpcClients)
    /\ Goto("drainHttp")
    /\ UNCHANGED <<publisher, timedOut, outside, requests>>

Shutdown ==
    /\ phase = "drainHttp" /\ Drained(HttpClients)
    /\ Goto("closing")
    /\ UNCHANGED <<publisher, timedOut, outside, requests>>

\* Faulty: Shutdown has all the time in the world.
ShutdownUnlimited == FALSE

\* Shutdown gives up after 30 seconds.
ShutdownTimeout ==
    /\ phase = "drainHttp" /\ ~Drained(HttpClients)
    /\ timedOut' = TRUE
    /\ Goto("closing")
    /\ UNCHANGED <<publisher, outside, requests>>

\* defer reg.Close()
CloseRegistrar ==
    /\ phase = "closing"
    /\ publisher' = IF publisher = "open" THEN "closed" ELSE publisher
    /\ Goto("closed")
    /\ UNCHANGED <<timedOut, outside, requests>>

\* The process is gone, and with it every request under way.
Die ==
    /\ Goto("exited")
    /\ state' = [c \in Clients |-> IF InFlight(c) THEN "lost" ELSE state[c]]
    /\ publisher' = "none"
    /\ UNCHANGED <<timedOut, outside, call, doing, status>>

Exit == phase = "closed" /\ Die

Signal ==
    /\ Disturbed /\ phase # "exited"
    /\ cancelled' = TRUE
    /\ UNCHANGED <<phase, publisher, timedOut, starts, config, outside, requests>>

Kill == Disturbed /\ phase # "exited" /\ Die

\* Whoever runs the service starts it again.
Start ==
    /\ phase = "exited" /\ Disturbed
    /\ phase' = "backend"
    /\ cancelled' = FALSE
    /\ timedOut' = FALSE
    /\ starts' = starts + 1
    /\ UNCHANGED <<publisher, config, outside, requests>>

-----------------------------------------------------------------------------
(* Requests *)

\* The path the process sees, and the agency its handler reads.
Url(k) == IF k.forwarded THEN Forwarded(k.row, k.agency, k.id) ELSE Path(k.row, k.id)

\* The case of the switch, or of the gRPC service, that takes the request.
Operation(c, k) ==
    IF c \in RpcClients THEN {k.row.op}
    ELSE LET ops == Handlers(k.row.method, Url(k))
         IN  IF ops = {} THEN {"not_found"} ELSE ops

\* Faulty: connections are served until Shutdown.
ReachableToTheEnd(c) == phase \in {"serve", "drainRpc", "drainHttp"}

\* Who may still get through: a call that comes over a connection that is open
\* already is served even while GracefulStop waits for the gRPC calls.
Reachable(c) == phase = "serve" \/ (phase = "drainRpc" /\ c \in HttpClients)

Send(c, k) ==
    /\ call' = [call EXCEPT ![c] = k]
    /\ status' = [status EXCEPT ![c] = "none"]
    /\ \/ /\ Reachable(c)
          /\ state' = [state EXCEPT ![c] = "working"]
          /\ \E op \in Operation(c, k) : doing' = [doing EXCEPT ![c] = op]
       \/ /\ phase # "serve"
          /\ state' = [state EXCEPT ![c] = "refused"]
          /\ doing' = [doing EXCEPT ![c] = "none"]
    /\ UNCHANGED <<process, config, outside>>

\* Cross forwards what it has a route for.
Request(c, k) ==
    /\ state[c] \in {"idle", "answered"}
    /\ k.forwarded => registered /\ k.row \in ConvenienceRoutes
    /\ Send(c, k)

Retry(c) == state[c] \in {"refused", "lost"} /\ Send(c, call[c])

ErrorCodes ==
    [ErrEntityNotFound         |-> "NotFound",
     ErrRelationshipNotFound   |-> "NotFound",
     ErrSchemaNotFound         |-> "NotFound",
     ErrImmutableType          |-> "FailedPrecondition",
     ErrEditWindowClosed       |-> "FailedPrecondition",
     ErrInvalidEntity          |-> "InvalidArgument",
     ErrWorkflowRunIDRequired  |-> "InvalidArgument"]

\* Faulty: an error that is not in the table goes out as it is.
NoDefault(err) == IF err \in DOMAIN ErrorCodes THEN ErrorCodes[err] ELSE err

toGRPCError(err) == IF err \in DOMAIN ErrorCodes THEN ErrorCodes[err] ELSE "Internal"

\* How an operation may end.
Outcomes(op, agency) ==
    CASE op = "GetSchema" ->
            {IF seeded /\ agency = served THEN "OK" ELSE toGRPCError("ErrSchemaNotFound"),
             toGRPCError("store error")}
      [] op = "RollbackByWorkflowRun" ->
            {"OK"} \cup {toGRPCError(err) : err \in
                {"ErrWorkflowRunIDRequired", "ErrEntityNotFound", "store error"}}
      [] op = "not_found" -> {"NotFound"}
      [] OTHER -> {"OK", "Internal"}

\* The handler's store calls; only what succeeded is announced.
Work(c) ==
    /\ state[c] = "working"
    /\ \E code \in Outcomes(doing[c], call[c].agency) :
          /\ status' = [status EXCEPT ![c] = code]
          /\ state' = [state EXCEPT ![c] =
                IF code = "OK" /\ doing[c] \in Announced THEN "publishing" ELSE "answered"]
    /\ UNCHANGED <<process, config, outside, call, doing>>

\* Faulty: the answer waits for an event that has gone out.
PublishFirst(c) ==
    /\ state[c] = "publishing" /\ publisher = "open"
    /\ state' = [state EXCEPT ![c] = "answered"]
    /\ UNCHANGED <<process, config, outside, call, doing, status>>

\* A missing, closed or failing publisher drops the event; the answer is the same.
Publish(c) ==
    /\ state[c] = "publishing"
    /\ state' = [state EXCEPT ![c] = "answered"]
    /\ UNCHANGED <<process, config, outside, call, doing, status>>

-----------------------------------------------------------------------------
Run ==
    \/ NewBackend \/ SeedSchema \/ Register \/ Listen
    \/ StopListening \/ GracefulStop \/ Shutdown \/ ShutdownTimeout
    \/ CloseRegistrar \/ Exit

Next ==
    \/ Run \/ Heartbeat \/ Signal \/ Kill \/ Start
    \/ \E c \in Clients : (\E k \in Calls(c) : Request(c, k)) \/ Retry(c) \/ Work(c) \/ Publish(c)

Spec == Init /\ [][Next]_vars

(***************************************************************************)
(* Run goes on, with its timer; whoever runs the service starts it again;  *)
(* the gRPC calls end, and their clients repeat what got no answer.  The   *)
(* handlers of HTTP requests owe nothing: any of them may hang.            *)
(***************************************************************************)
FairSpec ==
    /\ Spec
    /\ WF_vars(Run) /\ WF_vars(Start)
    /\ \A c \in RpcClients : WF_vars(Retry(c)) /\ WF_vars(Work(c) \/ Publish(c))

-----------------------------------------------------------------------------
(* Properties *)

\* A request is handled as what its sender asked for, of the agency and entity
\* it names: what ServeHTTP makes of a path agrees with the routes registered
\* with Cross, and with the paths called directly.
ServedAsAsked ==
    \A c \in HttpClients : doing[c] # "none" =>
        LET k == call[c] IN
        /\ doing[c] = k.row.op
        /\ Resource(Url(k)) = Path(k.row, k.id)
        /\ AgencyOf(Url(k), k.agency) = k.agency

\* Once the registrar is closed nobody is left who would publish through it,
\* or whose answer the end of the process cuts off, but for HTTP requests that
\* outstayed the 30 seconds of Shutdown.
NothingCutOff ==
    phase = "closed" =>
        \A c \in Clients : InFlight(c) => c \in HttpClients /\ timedOut

\* The schema of the configured agency is there before the first GetSchema
\* call is served, however often the process was stopped on the way: NOT_FOUND
\* means another agency, or that seeding it has failed.
NotFoundMeansUnseeded ==
    \A c \in Clients :
        doing[c] = "GetSchema" /\ status[c] = "NotFound" =>
            call[c].agency # served \/ seedFailed

\* A signal ends the process, whenever it comes and even if HTTP handlers hang.
SignalStops == cancelled ~> phase = "exited"

\* A gRPC call repeated until it is answered is answered in the end, whatever
\* restarts came between and whether or not there is a publisher.
RetriesAnswered ==
    \A c \in RpcClients : state[c] \in {"refused", "lost"} ~> state[c] = "answered"

-----------------------------------------------------------------------------
(* What the process promises, and how this one keeps it. *)

Life ==
    CASE phase \in {"backend", "seed", "register", "listen"} -> "starting"
      [] phase = "serve" -> "serving"
      [] phase \in {"drainRpc", "drainHttp"} -> "stopping"
      [] phase \in {"closing", "closed"} -> "stopped"
      [] phase = "exited" -> "down"

Asked(c) == [op |-> call[c].row.op, agency |-> call[c].agency]

\* What the handler takes the request for, once the path has been taken apart.
Taken(c) ==
    IF doing[c] = "none" THEN [op |-> "none", agency |-> "none"]
    ELSE [op |-> doing[c],
          agency |-> IF c \in RpcClients THEN call[c].agency
                     ELSE AgencyOf(Url(call[c]), call[c].agency)]

Answer(c) ==
    CASE state[c] = "idle" -> "none"
      [] state[c] \in {"working", "publishing"} -> "open"
      [] state[c] = "answered" -> status[c]
      [] OTHER -> state[c]

Promise == INSTANCE ServicePromise WITH
    life <- Life,
    signalled <- cancelled,
    overdue <- timedOut,
    schemas <- {a \in Agencies : seeded /\ a = served},
    asked <- [c \in Clients |-> Asked(c)],
    handled <- [c \in Clients |-> Taken(c)],
    answer <- [c \in Clients |-> Answer(c)]

\* With its path rewriting, its start in four steps, its two drains and its
\* events, and over kills and restarts, the process serves every request as
\* the operation and agency that were asked for, serves nobody before the
\* schema, and stops only when it may.
ImplementsPromise == Promise!Spec

================================================================================
