----------------------------- MODULE EditPromise -----------------------------
(***************************************************************************)
(* What editing and promoting promise their clients, with no reads, no      *)
(* clock and no failed calls: a request takes effect at most once and in    *)
(* one step, after it has put one body on record; records are never taken   *)
(* back; an event tells of what is so.                                      *)
(***************************************************************************)
EXTENDS Integers, FiniteSets

CONSTANTS
    Editors, Messages, Bodies, Histories, NoMessage, NoBody,
    JsonNumbers     \* edit_count is read back as the handler expects it

VARIABLES
    serial,         \* no two requests are made for one message at a time
    requests,       \* of every editor: what it asked for and has no outcome yet
    body, editCount, edited, isThreadRoot,
    trail,          \* of every message: the bodies on record, by their ids
    announced, threads

message == <<body, editCount, edited, isThreadRoot>>
bus == <<announced, threads>>
vars == <<serial, requests, message, trail, bus>>

NoRequest == [message |-> NoMessage, body |-> NoBody, recorded |-> FALSE]

Init ==
    /\ serial \in BOOLEAN
    /\ requests = [e \in Editors |-> NoRequest]
    /\ body \in [Messages -> Bodies]
    /\ editCount = [m \in Messages |-> 0]
    /\ edited = [m \in Messages |-> FALSE]
    /\ isThreadRoot = [m \in Messages |-> FALSE]
    /\ trail = [m \in Messages |-> [h \in {} |-> NoBody]]
    /\ announced = {}
    /\ threads = {}

Ask(e, m, b) ==
    /\ requests[e] = NoRequest
    /\ serial => \A f \in Editors : requests[f].message # m
    /\ requests' = [requests EXCEPT ![e] = [message |-> m, body |-> b, recorded |-> FALSE]]
    /\ UNCHANGED <<serial, message, trail, bus>>

\* A body goes on record under an id of its own; of requests that do not
\* overlap, it is the body the message has.
Record(e, m, h, b) ==
    /\ requests[e].message = m /\ ~requests[e].recorded
    /\ \A n \in Messages : h \notin DOMAIN trail[n]
    /\ serial => b = body[m]
    /\ trail' = [trail EXCEPT ![m] =
          [g \in DOMAIN trail[m] \cup {h} |-> IF g = h THEN b ELSE trail[m][g]]]
    /\ \/ requests' = [requests EXCEPT ![e] = [message |-> m, body |-> requests[e].body,
                                               recorded |-> TRUE]]
       \/ requests' = [requests EXCEPT ![e] = NoRequest]
    /\ UNCHANGED <<serial, message, bus>>

\* An edit in one step.  It never counts more edits than are on record; of
\* requests that do not overlap, it counts one more (if it can read the count),
\* and the body it overwrites is on record.
Land(e, m) ==
    /\ requests[e].message = m /\ requests[e].recorded
    /\ \E n \in 1..Cardinality(DOMAIN trail[m]) :
          /\ serial /\ JsonNumbers => n = editCount[m] + 1
          /\ editCount' = [editCount EXCEPT ![m] = n]
    /\ serial => \E h \in DOMAIN trail[m] : trail[m][h] = body[m]
    /\ body' = [body EXCEPT ![m] = requests[e].body]
    /\ edited' = [edited EXCEPT ![m] = TRUE]
    /\ requests' = [requests EXCEPT ![e] = NoRequest]
    /\ UNCHANGED <<serial, isThreadRoot, trail, bus>>

\* Requests come to nothing.
Drop(dropped) ==
    /\ requests' = [e \in Editors |-> IF e \in dropped THEN NoRequest ELSE requests[e]]
    /\ UNCHANGED <<serial, message, trail, bus>>

Promote(m) ==
    /\ isThreadRoot' = [isThreadRoot EXCEPT ![m] = TRUE]
    /\ UNCHANGED <<serial, requests, body, editCount, edited, trail, bus>>

AnnounceEdit(m) ==
    /\ edited[m]
    /\ announced' = announced \cup {m}
    /\ UNCHANGED <<serial, requests, message, trail, threads>>

AnnounceThread(m) ==
    /\ isThreadRoot[m]
    /\ threads' = threads \cup {m}
    /\ UNCHANGED <<serial, requests, message, trail, announced>>

Next ==
    \/ \E e \in Editors, m \in Messages, b \in Bodies :
          \/ Ask(e, m, b)
          \/ \E h \in Histories : Record(e, m, h, b)
    \/ \E e \in Editors, m \in Messages : Land(e, m)
    \/ \E dropped \in SUBSET Editors : Drop(dropped)
    \/ \E m \in Messages : Promote(m) \/ AnnounceEdit(m) \/ AnnounceThread(m)

Spec == Init /\ [][Next]_vars
=============================================================================
