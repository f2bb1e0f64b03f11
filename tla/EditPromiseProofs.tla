-------------------------- MODULE EditPromiseProofs --------------------------
(***************************************************************************)
(* MessageEditing implements EditPromise: a refinement proved step by step  *)
(* from the invariants of MessageEditingProofs.                             *)
(***************************************************************************)
EXTENDS MessageEditingProofs

USE DEF world, request, Refused, PreviousBody, EdgeTo

NoRequest == [message |-> NoMessage, body |-> NoBody, recorded |-> FALSE]

\* What holds in every state the mapping is applied to.
PromiseInv == EditInv /\ (serial => SerialOK)

LEMMA PromiseInvariant == Spec => []PromiseInv
<1>1. Init => (serial => SerialOK)
  BY SerialInit
<1>2. EditInv /\ (serial => SerialOK) /\ [Next]_vars => (serial => SerialOK)'
  BY SerialStep, WorldStays DEF EditInv
<1> QED
  BY <1>1, <1>2, EditInvariant, PTL DEF Spec, PromiseInv

LEMMA PromiseInit == Init => Promise!Init
<1> SUFFICES ASSUME Init PROVE Promise!Init
  OBVIOUS
<1>1. Requested = [e \in Editors |-> NoRequest]
  BY DEF Init, Requested, NoRequest
<1>2. \A m \in Messages : Linked(m) = {}
  BY DEF Init, Linked
<1>3. Recorded = [m \in Messages |-> [h \in {} |-> NoBody]]
  BY <1>2 DEF Recorded
<1> QED
  BY <1>1, <1>3 DEF Init, Promise!Init, Promise!NoRequest, NoRequest

-----------------------------------------------------------------------------
(* What a step does to the abstract state *)

\* What editor e stands for in the promise.
RequestOf(e) ==
    IF Reading(e)
    THEN [message |-> editing[e], body |-> newBody[e], recorded |-> pc[e] = "update"]
    ELSE NoRequest

LEMMA RequestedIs == Requested = [e \in Editors |-> RequestOf(e)]
  BY DEF Requested, RequestOf, Reading, NoRequest

\* A step of one editor moves its own request only.
LEMMA RequestMoves ==
    ASSUME Typed, NEW e \in Editors,
           \A f \in Editors \ {e} : pc'[f] = pc[f] /\ editing'[f] = editing[f]
                                      /\ newBody'[f] = newBody[f]
    PROVE  Requested' = [Requested EXCEPT ![e] = RequestOf(e)']
<1>1. \A f \in Editors \ {e} : RequestOf(f)' = RequestOf(f)
  BY DEF RequestOf, Reading, NoRequest
<1>2. Requested' = [f \in Editors |-> RequestOf(f)']
  BY DEF Requested, RequestOf, Reading, NoRequest
<1> QED
  BY <1>1, <1>2, RequestedIs

\* Creating an EditHistory puts nothing on record, and takes nothing off.
LEMMA RecordedSame ==
    ASSUME Typed, SnapshotsOK,
           UNCHANGED snapshots \/ \E h \in Histories : \E m, b : Snapshot(h, m, b)
    PROVE  Recorded' = Recorded
<1>1. CASE UNCHANGED snapshots
  BY <1>1 DEF Recorded, Linked, snapshots
<1>2. ASSUME NEW g \in Histories, NEW q, NEW b, Snapshot(g, q, b)
      PROVE  Recorded' = Recorded
  <2>1. g \notin hasEdit
    BY <1>2, EditingAssumption DEF Snapshot, Unused, SnapshotsOK
  <2>2. \A h \in hasEdit : messageID'[h] = messageID[h] /\ previousBody'[h] = previousBody[h]
    BY <1>2, <2>1 DEF Snapshot, Typed, TypeOK
  <2>3. \A m \in Messages : Linked(m)' = Linked(m)
    BY <1>2, <2>2 DEF Snapshot, Linked
  <2>4. ASSUME NEW m \in Messages
        PROVE  [h \in Linked(m) |-> previousBody[h]]' = [h \in Linked(m) |-> previousBody[h]]
    BY <2>2, <2>3 DEF Linked
  <2> QED
    BY <2>4 DEF Recorded
<1> QED
  BY <1>1, <1>2

\* The has_edit edge puts the body that was read on record.
LEMMA RecordedGrows ==
    ASSUME Typed, SnapshotsOK, NEW e \in Editors, NEW q \in Messages,
           pc[e] = "link", editing[e] = q,
           hasEdit' = hasEdit \cup {history[e]}, UNCHANGED <<previousBody, messageID>>
    PROVE  /\ \A n \in Messages : history[e] \notin DOMAIN Recorded[n]
           /\ Recorded' = [Recorded EXCEPT ![q] =
                 [g \in DOMAIN Recorded[q] \cup {history[e]} |->
                     IF g = history[e] THEN readBody[e] ELSE Recorded[q][g]]]
<1>1. /\ history[e] \in Histories /\ history[e] \notin hasEdit
      /\ messageID[history[e]] = q /\ previousBody[history[e]] = readBody[e]
  BY DEF SnapshotsOK, Snapshotted, Typed, LocalsOK
<1>2. \A n \in Messages : history[e] \notin Linked(n)
  BY <1>1 DEF Linked
<1>3. \A n \in Messages : Linked(n)' = IF n = q THEN Linked(n) \cup {history[e]} ELSE Linked(n)
  BY <1>1 DEF Linked
<1>4. \A n \in Messages : Recorded[n] = [h \in Linked(n) |-> previousBody[h]]
  BY DEF Recorded
<1>5. Recorded' = [n \in Messages |-> [h \in Linked(n)' |-> previousBody[h]]]
  BY DEF Recorded
<1>6. [h \in Linked(q)' |-> previousBody[h]] =
         [g \in DOMAIN Recorded[q] \cup {history[e]} |->
             IF g = history[e] THEN readBody[e] ELSE Recorded[q][g]]
  <2>1. DOMAIN Recorded[q] = Linked(q)
    BY <1>1, <1>4
  <2>2. \A g \in Linked(q) : Recorded[q][g] = previousBody[g] /\ g # history[e]
    BY <1>1, <1>2, <1>4
  <2>3. Linked(q)' = Linked(q) \cup {history[e]}
    BY <1>1, <1>3
  <2> QED
    BY <1>1, <2>1, <2>2, <2>3
<1>7. \A n \in Messages \ {q} : [h \in Linked(n)' |-> previousBody[h]] = Recorded[n]
  BY <1>3, <1>4
<1> DEFINE new == [g \in DOMAIN Recorded[q] \cup {history[e]} |->
                     IF g = history[e] THEN readBody[e] ELSE Recorded[q][g]]
<1>8. Recorded' = [Recorded EXCEPT ![q] = new]
  <2>1. \A n \in Messages : [h \in Linked(n)' |-> previousBody[h]] =
                              IF n = q THEN new ELSE Recorded[n]
    BY <1>6, <1>7
  <2> HIDE DEF new
  <2>2. Recorded' = [n \in Messages |-> IF n = q THEN new ELSE Recorded[n]]
    BY <1>5, <2>1
  <2>3. DOMAIN Recorded = Messages /\ Recorded = [n \in Messages |-> Recorded[n]]
    BY DEF Recorded
  <2> QED
    BY <2>2, <2>3
<1> QED
  BY <1>1, <1>2, <1>4, <1>8

-----------------------------------------------------------------------------
(* Each step is a step of the promise or a stutter. *)

LEMMA AskStep ==
    ASSUME PromiseInv, NEW e \in Editors, NEW m \in Messages, NEW b \in Bodies,
           GetMessage(e, m, b)
    PROVE  Promise!Ask(e, m, b)
<1>1. Typed
  BY DEF PromiseInv, EditInv
<1>2. RequestOf(e) = NoRequest /\ RequestOf(e)' = [message |-> m, body |-> b, recorded |-> FALSE]
  BY <1>1 DEF GetMessage, RequestOf, Reading, NoRequest, Typed, TypeOK
<1>3. Requested' = [Requested EXCEPT ![e] = RequestOf(e)']
  <2>1. \A f \in Editors \ {e} : pc'[f] = pc[f] /\ editing'[f] = editing[f]
                                    /\ newBody'[f] = newBody[f]
    BY <1>1 DEF GetMessage, Typed, TypeOK
  <2> QED
    BY <1>1, <2>1, RequestMoves
<1>4. serial => \A f \in Editors : Requested[f].message # m
  BY EditingAssumption, RequestedIs DEF GetMessage, RequestOf, NoRequest
<1>5. Recorded' = Recorded
  BY <1>1, RecordedSame DEF GetMessage, PromiseInv, EditInv
<1> QED
  BY <1>2, <1>3, <1>4, <1>5, RequestedIs
  DEF GetMessage, Promise!Ask, Promise!NoRequest, Promise!message, Promise!bus, NoRequest,
      world, message, bus

\* The request of e ends without effect, or was over already.
LEMMA DropStep ==
    ASSUME PromiseInv, NEW e \in Editors, EndEdit(e),
           UNCHANGED <<serial, message, bus>>, Recorded' = Recorded
    PROVE  Promise!Drop({e})
<1>1. Typed
  BY DEF PromiseInv, EditInv
<1>2. RequestOf(e)' = NoRequest
  BY <1>1 DEF EndEdit, RequestOf, Reading, Typed, TypeOK
<1>3. Requested' = [Requested EXCEPT ![e] = RequestOf(e)']
  <2>1. \A f \in Editors \ {e} : pc'[f] = pc[f] /\ editing'[f] = editing[f]
                                    /\ newBody'[f] = newBody[f]
    BY <1>1 DEF EndEdit, Typed, TypeOK
  <2> QED
    BY <1>1, <2>1, RequestMoves
<1>4. Requested' = [f \in Editors |-> IF f \in {e} THEN NoRequest ELSE Requested[f]]
  BY <1>2, <1>3, RequestedIs
<1> QED
  BY <1>4
  DEF Promise!Drop, Promise!NoRequest, Promise!message, Promise!bus, NoRequest, message, bus

\* A request that goes on without a record is the request it was.
LEMMA SameRequest ==
    ASSUME Typed, NEW e \in Editors, pc[e] \in {"check", "snapshot"},
           NEW at \in {"snapshot", "link"}, pc' = [pc EXCEPT ![e] = at],
           UNCHANGED <<editing, newBody>>
    PROVE  Requested' = Requested
<1>1. \A f \in Editors : RequestOf(f)' = RequestOf(f)
  BY DEF RequestOf, Reading, NoRequest, Typed, TypeOK
<1>2. Requested' = [f \in Editors |-> RequestOf(f)']
  BY DEF Requested, RequestOf, Reading, NoRequest
<1> QED
  BY <1>1, <1>2, RequestedIs

\* The has_edit edge is made, and the request goes on or fails.
LEMMA RecordStep ==
    ASSUME PromiseInv, NEW e \in Editors, pc[e] = "link",
           hasEdit' = hasEdit \cup {history[e]},
           UNCHANGED <<previousBody, messageID, serial, message, bus>>,
           \/ pc' = [pc EXCEPT ![e] = "update"] /\ UNCHANGED <<editing, newBody>>
           \/ EndEdit(e)
    PROVE  \E m \in Messages, h \in Histories, b \in Bodies : Promise!Record(e, m, h, b)
<1>1. Typed /\ SnapshotsOK /\ (serial => SerialOK)
  BY DEF PromiseInv, EditInv
<1>2. /\ editing[e] \in Messages /\ history[e] \in Histories
      /\ newBody[e] \in Bodies /\ readBody[e] \in Bodies
  BY <1>1 DEF Typed, LocalsOK
<1> DEFINE q == editing[e]
           r == newBody[e]
<1>3. Requested[e] = [message |-> q, body |-> r, recorded |-> FALSE]
  BY RequestedIs DEF RequestOf, Reading
<1>4. Requested' = [Requested EXCEPT ![e] = RequestOf(e)']
  <2>1. \A f \in Editors \ {e} : pc'[f] = pc[f] /\ editing'[f] = editing[f]
                                    /\ newBody'[f] = newBody[f]
    BY <1>1 DEF EndEdit, Typed, TypeOK
  <2> QED
    BY <1>1, <2>1, RequestMoves
<1>5. \/ RequestOf(e)' = [message |-> q, body |-> r, recorded |-> TRUE]
      \/ RequestOf(e)' = NoRequest
  BY <1>1 DEF EndEdit, RequestOf, Reading, Typed, TypeOK
<1>6. serial => readBody[e] = body[q]
  BY <1>1 DEF SerialOK, Reading
<1>7. /\ \A n \in Messages : history[e] \notin DOMAIN Recorded[n]
      /\ Recorded' = [Recorded EXCEPT ![q] =
            [g \in DOMAIN Recorded[q] \cup {history[e]} |->
                IF g = history[e] THEN readBody[e] ELSE Recorded[q][g]]]
  BY <1>1, <1>2, RecordedGrows
<1>8. Promise!Record(e, q, history[e], readBody[e])
  <2>1. \/ Requested' = [Requested EXCEPT ![e] = [message |-> q, body |-> Requested[e].body,
                                                 recorded |-> TRUE]]
        \/ Requested' = [Requested EXCEPT ![e] = Promise!NoRequest]
    <3>1. Requested[e].body = r
      BY <1>3
    <3>2. CASE RequestOf(e)' = [message |-> q, body |-> r, recorded |-> TRUE]
      BY <1>4, <3>1, <3>2
    <3>3. CASE RequestOf(e)' = NoRequest
      BY <1>4, <3>3 DEF Promise!NoRequest, NoRequest
    <3> QED
      BY <1>5, <3>2, <3>3
  <2>2. Requested[e].message = q /\ ~Requested[e].recorded
    BY <1>3
  <2>3. UNCHANGED <<serial, Promise!message, Promise!bus>>
    BY DEF Promise!message, Promise!bus, message, bus
  <2> HIDE DEF q
  <2> QED
    BY <1>6, <1>7, <2>1, <2>2, <2>3 DEF Promise!Record
<1> QED
  BY <1>2, <1>8

LEMMA SameCardinality == \A S : Promise!Cardinality(S) = Cardinality(S)
  BY DEF Promise!Cardinality, Cardinality

\* The message is overwritten, and the request is over or only has its event
\* to publish.
LEMMA LandStep ==
    ASSUME PromiseInv, NEW e \in Editors, pc[e] = "update",
           Overwrite(editing[e], newBody[e], NextCount(e)),
           UNCHANGED <<snapshots, serial, bus>>,
           \/ pc' = [pc EXCEPT ![e] = "publish"] /\ UNCHANGED <<editing, newBody>>
           \/ EndEdit(e)
    PROVE  \E m \in Messages : Promise!Land(e, m)
<1>1. Typed /\ SnapshotsOK /\ CountOK /\ (serial => SerialOK)
  BY DEF PromiseInv, EditInv
<1> DEFINE q == editing[e]
           n == NextCount(e)
<1>2. q \in Messages /\ history[e] \in Histories /\ readCount[e] \in Nat
  BY <1>1 DEF Typed, TypeOK, LocalsOK
<1>3. Requested[e] = [message |-> q, body |-> newBody[e], recorded |-> TRUE]
  BY RequestedIs DEF RequestOf, Reading
<1>4. Requested' = [Requested EXCEPT ![e] = NoRequest]
  <2>1. \A f \in Editors \ {e} : pc'[f] = pc[f] /\ editing'[f] = editing[f]
                                    /\ newBody'[f] = newBody[f]
    BY <1>1 DEF EndEdit, Typed, TypeOK
  <2>2. RequestOf(e)' = NoRequest
    BY <1>1 DEF EndEdit, RequestOf, Reading, Typed, TypeOK
  <2> QED
    BY <1>1, <2>1, <2>2, RequestMoves
<1>5. DOMAIN Recorded[q] = Linked(q) /\ Recorded' = Recorded
  BY <1>1, <1>2, RecordedSame DEF Recorded
<1>6. n \in 1..Cardinality(DOMAIN Recorded[q])
  BY <1>1, <1>2, <1>5, EditsType, CountWritten DEF CountOK, Edits
<1>7. ASSUME serial
      PROVE  /\ JsonNumbers => n = editCount[q] + 1
             /\ \E h \in DOMAIN Recorded[q] : Recorded[q][h] = body[q]
  <2>1. (JsonNumbers => n = editCount[q] + 1) /\ readBody[e] = body[q]
    BY <1>1, <1>7, CountWritten DEF SerialOK, Reading
  <2>2. history[e] \in Linked(q) /\ previousBody[history[e]] = readBody[e]
    BY <1>1 DEF SnapshotsOK, Snapshotted, Linked
  <2> QED
    BY <1>2, <2>1, <2>2 DEF Recorded
<1>8. Promise!Land(e, q)
  <2>1. n \in 1..Promise!Cardinality(DOMAIN Recorded[q])
    BY <1>6, SameCardinality
  <2>2. /\ editCount' = [editCount EXCEPT ![q] = n]
        /\ body' = [body EXCEPT ![q] = Requested[e].body]
        /\ edited' = [edited EXCEPT ![q] = TRUE]
        /\ Requested' = [Requested EXCEPT ![e] = Promise!NoRequest]
        /\ UNCHANGED <<serial, isThreadRoot, Recorded, Promise!bus>>
    BY <1>3, <1>4, <1>5 DEF Overwrite, Promise!NoRequest, Promise!bus, NoRequest, bus
  <2>3. Requested[e].message = q /\ Requested[e].recorded
    BY <1>3
  <2> HIDE DEF q, n
  <2> QED
    BY <1>7, <2>1, <2>2, <2>3 DEF Promise!Land
<1> QED
  BY <1>2, <1>8

\* A step that disturbs neither the messages, the events, the snapshots nor a
\* request that has to be kept is a stutter.
LEMMA Stutter ==
    ASSUME PromiseInv, UNCHANGED <<serial, message, bus>>, Recorded' = Recorded,
           Requested' = Requested
    PROVE  UNCHANGED Promise!vars
  BY DEF Promise!vars, Promise!message, Promise!bus, message, bus

LEMMA EditorStep ==
    ASSUME PromiseInv, NEW e \in Editors, EditMessage(e)
    PROVE  [Promise!Next]_(Promise!vars)
<1>a. Typed /\ SnapshotsOK /\ EventsOK
  BY DEF PromiseInv, EditInv
<1>1. ASSUME NEW m \in Messages, NEW b \in Bodies, GetMessage(e, m, b)
      PROVE  Promise!Next
  BY <1>1, AskStep DEF Promise!Next
<1>2. ASSUME EndEdit(e), UNCHANGED <<serial, message, bus>>, Recorded' = Recorded
      PROVE  Promise!Next
  BY <1>2, DropStep DEF Promise!Next
<1>3. CASE CheckEditWindow(e)
  <2>1. UNCHANGED <<serial, message, bus>> /\ Recorded' = Recorded
    BY <1>3, <1>a, RecordedSame DEF CheckEditWindow
  <2>2. CASE EndEdit(e)
    BY <1>2, <2>1, <2>2
  <2>3. CASE pc' = [pc EXCEPT ![e] = "snapshot"] /\ UNCHANGED request
    BY <1>3, <1>a, <2>1, <2>3, SameRequest, Stutter DEF CheckEditWindow
  <2> QED
    BY <1>3, <2>2, <2>3 DEF CheckEditWindow
<1>4. CASE SkipWindowCheck(e)
  <2>1. UNCHANGED <<serial, message, bus>> /\ Recorded' = Recorded
    BY <1>4, <1>a, RecordedSame DEF SkipWindowCheck
  <2> QED
    BY <1>4, <1>a, <2>1, SameRequest, Stutter DEF SkipWindowCheck
<1>5. ASSUME NEW h \in Histories, CreateEditHistory(e, h)
      PROVE  UNCHANGED Promise!vars
  <2>1. UNCHANGED <<serial, message, bus>> /\ Recorded' = Recorded
    BY <1>5, <1>a, RecordedSame DEF CreateEditHistory
  <2> QED
    BY <1>5, <1>a, <2>1, SameRequest, Stutter DEF CreateEditHistory
<1>6. CASE LinkEditHistory(e)
  BY <1>6, RecordStep DEF LinkEditHistory, Promise!Next
<1>7. CASE UpdateMessage(e)
  BY <1>7, LandStep DEF UpdateMessage, Promise!Next, snapshots
<1>8. CASE PublishEdited(e)
  <2>1. UNCHANGED <<serial, message, threads>> /\ Recorded' = Recorded
    BY <1>8, <1>a, RecordedSame DEF PublishEdited
  <2>2. CASE announced' = announced
    BY <1>2, <1>8, <2>1, <2>2 DEF PublishEdited, bus
  <2>3. CASE announced' = announced \cup {editing[e]}
    <3>1. RequestOf(e)' = NoRequest /\ RequestOf(e) = NoRequest
      BY <1>8, <1>a DEF PublishEdited, EndEdit, RequestOf, Reading, Typed, TypeOK
    <3>2. \A f \in Editors \ {e} : pc'[f] = pc[f] /\ editing'[f] = editing[f]
                                      /\ newBody'[f] = newBody[f]
      BY <1>8, <1>a DEF PublishEdited, EndEdit, Typed, TypeOK
    <3>3. Requested' = Requested
      BY <1>a, <3>1, <3>2, RequestMoves, RequestedIs
    <3>4. editing[e] \in Messages /\ edited[editing[e]]
      BY <1>8, <1>a DEF PublishEdited, EventsOK, Typed, LocalsOK
    <3>5. Promise!AnnounceEdit(editing[e])
      BY <2>1, <2>3, <3>3, <3>4
      DEF Promise!AnnounceEdit, Promise!message, message
    <3> QED
      BY <3>4, <3>5 DEF Promise!Next
  <2> QED
    BY <1>8, <2>2, <2>3 DEF PublishEdited
<1>9. CASE FailEdit(e)
  <2>1. EndEdit(e) /\ UNCHANGED <<serial, bus>>
    BY <1>9 DEF FailEdit
  <2>2. CASE UNCHANGED message /\ (UNCHANGED snapshots \/
                 \E h \in Histories : Snapshot(h, editing[e], readBody[e]))
    BY <1>2, <1>a, <2>1, <2>2, RecordedSame
  <2>3. CASE /\ pc[e] = "link" /\ hasEdit' = hasEdit \cup {history[e]}
             /\ UNCHANGED <<message, previousBody, messageID>>
    BY <2>1, <2>3, RecordStep DEF Promise!Next
  <2>4. CASE /\ pc[e] = "update" /\ Overwrite(editing[e], newBody[e], NextCount(e))
             /\ UNCHANGED snapshots
    BY <2>1, <2>4, LandStep DEF Promise!Next
  <2> QED
    BY <1>9, <2>2, <2>3, <2>4 DEF FailEdit, snapshots
<1> QED
  BY <1>1, <1>3, <1>4, <1>5, <1>6, <1>7, <1>8, <1>9 DEF EditMessage

LEMMA PromoterStep ==
    ASSUME PromiseInv, NEW p \in Promoters, PromoteToThread(p)
    PROVE  [Promise!Next]_(Promise!vars)
<1>a. Typed /\ SnapshotsOK /\ EventsOK
  BY DEF PromiseInv, EditInv
<1>1. UNCHANGED <<serial, snapshots, edit, announced>>
  BY DEF PromoteToThread, GetToPromote, SetThreadRoot, PublishPromoted, FailPromote, bus
<1>2. Recorded' = Recorded /\ Requested' = Requested
  BY <1>1, <1>a, RecordedSame DEF Requested, edit
<1>3. ASSUME MarkThreadRoot(promoting[p]), promotePc[p] = "update", UNCHANGED bus
      PROVE  Promise!Next
  <2>1. promoting[p] \in Messages
    BY <1>3, <1>a DEF Typed, LocalsOK
  <2>2. Promise!Promote(promoting[p])
    BY <1>1, <1>2, <1>3 DEF MarkThreadRoot, Promise!Promote, Promise!bus, bus
  <2> QED
    BY <2>1, <2>2 DEF Promise!Next
<1>4. ASSUME NEW m \in Messages, GetToPromote(p, m) PROVE UNCHANGED Promise!vars
  BY <1>1, <1>2, <1>4, Stutter DEF GetToPromote
<1>5. CASE SetThreadRoot(p)
  BY <1>3, <1>5 DEF SetThreadRoot
<1>6. CASE PublishPromoted(p)
  <2>1. promoting[p] \in Messages /\ isThreadRoot[promoting[p]] /\ UNCHANGED message
    BY <1>6, <1>a DEF PublishPromoted, EventsOK, Typed, LocalsOK
  <2>2. CASE threads' = threads
    BY <1>1, <1>2, <2>1, <2>2, Stutter DEF bus
  <2>3. CASE threads' = threads \cup {promoting[p]}
    <3>1. Promise!AnnounceThread(promoting[p])
      BY <1>1, <1>2, <2>1, <2>3 DEF Promise!AnnounceThread, Promise!message, message
    <3> QED
      BY <2>1, <3>1 DEF Promise!Next
  <2> QED
    BY <1>6, <2>2, <2>3 DEF PublishPromoted
<1>7. CASE FailPromote(p)
  <2>1. promotePc[p] = "update" /\ UNCHANGED bus
    BY <1>7 DEF FailPromote
  <2>2. CASE UNCHANGED message
    BY <1>1, <1>2, <2>1, <2>2, Stutter
  <2> QED
    BY <1>3, <1>7, <2>1, <2>2 DEF FailPromote
<1> QED
  BY <1>4, <1>5, <1>6, <1>7 DEF PromoteToThread

\* A crash drops every request at once.
LEMMA CrashStep ==
    ASSUME PromiseInv, Crash
    PROVE  Promise!Drop(Editors)
<1>1. Recorded' = Recorded
  BY RecordedSame DEF Crash, PromiseInv, EditInv
<1>2. Requested' = [e \in Editors |-> IF e \in Editors THEN NoRequest ELSE Requested[e]]
  BY DEF Crash, Requested, NoRequest
<1> QED
  BY <1>1, <1>2
  DEF Crash, Promise!Drop, Promise!NoRequest, Promise!message, Promise!bus, NoRequest,
      message, bus

LEMMA PromiseStep ==
    ASSUME PromiseInv, [Next]_vars
    PROVE  [Promise!Next]_(Promise!vars)
<1>1. CASE Crash
  BY <1>1, CrashStep DEF Promise!Next
<1>2. CASE Tick \/ UNCHANGED vars
  <2>1. UNCHANGED <<world, message, snapshots, bus, edit>>
    BY <1>2 DEF Tick, vars
  <2>2. Recorded' = Recorded /\ Requested' = Requested
    BY <2>1, RecordedSame DEF Requested, edit, PromiseInv, EditInv
  <2> QED
    BY <2>1, <2>2, Stutter
<1> QED
  BY <1>1, <1>2, EditorStep, PromoterStep DEF Next

\* For any editors, messages and numbers of edits, overlaps, store errors and
\* crashes, the handlers of handler_messages.go do nothing EditPromise rules
\* out: an edit lands in one step or not at all, only after its snapshot is
\* linked, and nobody's step undoes another's promotion or record.
THEOREM EditingKeepsPromise == Spec => ImplementsPromise
<1>1. PromiseInv /\ [Next]_vars => [Promise!Next]_(Promise!vars)
  BY PromiseStep
<1> QED
  BY <1>1, PromiseInit, PromiseInvariant, PTL DEF Spec, ImplementsPromise, Promise!Spec
=============================================================================
