---------------------------- MODULE ServicePromise ----------------------------
(***************************************************************************)
(* What the process promises its clients, with no paths, no order of        *)
(* drains and no events: a request taken is handled as the operation its    *)
(* sender asked for, of the agency it named; nobody is taken before the     *)
(* schema is there or has failed to be; GetSchema tells the truth; a        *)
(* process stops only when told to, or when it could not start, and an      *)
(* orderly stop leaves no gRPC call behind, and HTTP requests only as       *)
(* overdue.                                                                 *)
(***************************************************************************)
CONSTANTS HttpClients, RpcClients, Agencies, Operations, Codes

VARIABLES
    life,        \* "starting", "serving", "stopping", "stopped" or "down"
    signalled,
    overdue,     \* a stop left HTTP requests behind
    served,      \* the agency configured, if there is one
    schemas,     \* the agencies whose schema is stored
    seedFailed

VARIABLES        \* of every client
    asked, handled, answer

Clients == HttpClients \cup RpcClients

process == <<life, signalled, overdue, served>>
schema == <<schemas, seedFailed>>
requests == <<asked, handled, answer>>
vars == <<process, schema, requests>>

Requests == [op : Operations, agency : Agencies]

Nothing == [op |-> "none", agency |-> "none"]

Open(c) == answer[c] = "open"

Init ==
    /\ life = "starting"
    /\ signalled = FALSE
    /\ overdue = FALSE
    /\ served \in Agencies \cup {"none"}
    /\ schemas = {}
    /\ seedFailed = FALSE
    /\ asked \in [Clients -> Requests]
    /\ handled = [c \in Clients |-> Nothing]
    /\ answer = [c \in Clients |-> "none"]

-----------------------------------------------------------------------------
(* The process *)

Live(next) == life' = next /\ UNCHANGED <<served, schema, asked, handled>>

Seed ==
    /\ life = "starting"
    /\ \/ schemas' = schemas \cup ({served} \cap Agencies) /\ UNCHANGED seedFailed
       \/ /\ schemas' \in {schemas, schemas \cup ({served} \cap Agencies)}
          /\ seedFailed' = TRUE
    /\ UNCHANGED <<process, requests>>

Serve ==
    /\ life = "starting"
    /\ served \in Agencies => served \in schemas \/ seedFailed
    /\ Live("serving")
    /\ UNCHANGED <<signalled, overdue, answer>>

Stop ==
    /\ life = "serving" /\ signalled
    /\ Live("stopping")
    /\ UNCHANGED <<signalled, overdue, answer>>

Stopped ==
    /\ life \in {"starting", "stopping"}
    /\ \A c \in RpcClients : ~Open(c)
    /\ overdue' = \E c \in HttpClients : Open(c)
    /\ Live("stopped")
    /\ UNCHANGED <<signalled, answer>>

Die ==
    /\ life # "down"
    /\ answer' = [c \in Clients |-> IF Open(c) THEN "lost" ELSE answer[c]]
    /\ Live("down")
    /\ UNCHANGED <<signalled, overdue>>

Signal ==
    /\ life # "down"
    /\ signalled' = TRUE
    /\ UNCHANGED <<life, overdue, served, schema, requests>>

Start ==
    /\ life = "down"
    /\ signalled' = FALSE /\ overdue' = FALSE
    /\ Live("starting")
    /\ UNCHANGED answer

-----------------------------------------------------------------------------
(* Requests *)

\* A request is taken for what it is, or refused.
Ask(c, r) ==
    /\ ~Open(c)
    /\ asked' = [asked EXCEPT ![c] = r]
    /\ \/ /\ life = "serving" \/ (life = "stopping" /\ c \in HttpClients)
          /\ handled' = [handled EXCEPT ![c] = r]
          /\ answer' = [answer EXCEPT ![c] = "open"]
       \/ /\ life # "serving"
          /\ handled' = [handled EXCEPT ![c] = Nothing]
          /\ answer' = [answer EXCEPT ![c] = "refused"]
    /\ UNCHANGED <<process, schema>>

Reply(c, code) ==
    /\ Open(c)
    /\ handled[c].op = "GetSchema" =>
          /\ code = "OK" => handled[c].agency \in schemas
          /\ code = "NotFound" => handled[c].agency \notin schemas
    /\ answer' = [answer EXCEPT ![c] = code]
    /\ UNCHANGED <<process, schema, asked, handled>>

Next ==
    \/ Seed \/ Serve \/ Stop \/ Stopped \/ Die \/ Signal \/ Start
    \/ \E c \in Clients :
          \/ \E r \in Requests : Ask(c, r)
          \/ \E code \in Codes : Reply(c, code)

Spec == Init /\ [][Next]_vars
=============================================================================
