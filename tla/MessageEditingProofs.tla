------------------------- MODULE MessageEditingProofs -------------------------
(***************************************************************************)
(* Proofs about MessageEditing for any editors, promoters, messages,       *)
(* bodies, edit windows, number of edits and number of faults.             *)
(***************************************************************************)
EXTENDS MessageEditing, FiniteSetTheorems, TLAPS

USE DEF world, request, Refused, PreviousBody, EdgeTo

(* A request under way knows its message and what it read of it. *)
LocalsOK ==
    /\ \A e \in Editors :
          pc[e] # "idle" => /\ editing[e] \in Messages
                            /\ newBody[e] \in Bodies
                            /\ readBody[e] \in Bodies
    /\ \A e \in Editors : pc[e] \in {"link", "update"} => history[e] \in Histories
    /\ \A p \in Promoters : promotePc[p] # "idle" => promoting[p] \in Messages

Typed == TypeOK /\ LocalsOK

\* The count an edit writes is one more than the count it read, or 1.
LEMMA CountWritten ==
    ASSUME Typed, NEW e \in Editors
    PROVE  /\ NextCount(e) \in 1 .. readCount[e] + 1
           /\ JsonNumbers => NextCount(e) = readCount[e] + 1
  BY DEF Typed, TypeOK, NextCount

LEMMA TypedInit == Init => Typed
  BY DEF Init, Typed, TypeOK, LocalsOK

LEMMA TypedStep == Typed /\ [Next]_vars => Typed'
<1> SUFFICES ASSUME Typed, [Next]_vars PROVE Typed'
  OBVIOUS
<1> USE DEF message, snapshots, edit, promote, bus, vars
<1>1. ASSUME NEW e \in Editors, NEW m \in Messages, NEW b \in Bodies, GetMessage(e, m, b)
      PROVE  Typed'
  BY <1>1 DEF Typed, TypeOK, LocalsOK, GetMessage
<1>2. ASSUME NEW e \in Editors, CheckEditWindow(e) PROVE Typed'
  BY <1>2 DEF Typed, TypeOK, LocalsOK, CheckEditWindow, EndEdit
<1>3. ASSUME NEW e \in Editors, SkipWindowCheck(e) PROVE Typed'
  BY <1>3 DEF Typed, TypeOK, LocalsOK, SkipWindowCheck, Fault
<1>4. ASSUME NEW e \in Editors, NEW h \in Histories, CreateEditHistory(e, h)
      PROVE  Typed'
  BY <1>4 DEF Typed, TypeOK, LocalsOK, CreateEditHistory, Snapshot
<1>5. ASSUME NEW e \in Editors, LinkEditHistory(e) PROVE Typed'
  BY <1>5 DEF Typed, TypeOK, LocalsOK, LinkEditHistory
<1>6. ASSUME NEW e \in Editors, UpdateMessage(e) PROVE Typed'
  BY <1>6, CountWritten DEF Typed, TypeOK, LocalsOK, UpdateMessage, Overwrite
<1>7. ASSUME NEW e \in Editors, PublishEdited(e) PROVE Typed'
  BY <1>7 DEF Typed, TypeOK, LocalsOK, PublishEdited, EndEdit
<1>8. ASSUME NEW e \in Editors, FailEdit(e) PROVE Typed'
  <2>1. /\ body' \in [Messages -> Bodies]
        /\ edited' \in [Messages -> BOOLEAN]
        /\ editCount' \in [Messages -> Nat]
        /\ isThreadRoot' \in [Messages -> BOOLEAN]
    <3>1. CASE UNCHANGED message
      BY <3>1 DEF Typed, TypeOK
    <3>2. CASE pc[e] = "update" /\ Overwrite(editing[e], newBody[e], NextCount(e))
      BY <3>2, CountWritten DEF Overwrite, Typed, TypeOK, LocalsOK
    <3> QED
      BY <1>8, <3>1, <3>2 DEF FailEdit
  <2>2. /\ previousBody' \in [Histories -> Bodies \cup {NoBody}]
        /\ messageID' \in [Histories -> Messages \cup {NoMessage}]
        /\ hasEdit' \subseteq Histories
    <3>1. CASE UNCHANGED snapshots
      BY <3>1 DEF Typed, TypeOK
    <3>2. ASSUME NEW h \in Histories, Snapshot(h, editing[e], readBody[e]), pc[e] = "snapshot"
          PROVE  /\ previousBody' \in [Histories -> Bodies \cup {NoBody}]
                 /\ messageID' \in [Histories -> Messages \cup {NoMessage}]
                 /\ hasEdit' \subseteq Histories
      BY <3>2 DEF Snapshot, Typed, TypeOK, LocalsOK
    <3>3. CASE /\ pc[e] = "link" /\ hasEdit' = hasEdit \cup {history[e]}
               /\ UNCHANGED <<previousBody, messageID>>
      BY <3>3 DEF Typed, TypeOK, LocalsOK
    <3> QED
      BY <1>8, <3>1, <3>2, <3>3 DEF FailEdit
  <2>3. EndEdit(e) /\ faults' = faults + 1 /\ UNCHANGED <<world, bus, now, promote>>
    BY <1>8 DEF FailEdit, Fault
  <2> QED
    BY <2>1, <2>2, <2>3 DEF EndEdit, Typed, TypeOK, LocalsOK
<1>9. ASSUME NEW p \in Promoters, PromoteToThread(p) PROVE Typed'
  <2>1. ASSUME NEW m \in Messages, GetToPromote(p, m) PROVE Typed'
    BY <2>1 DEF Typed, TypeOK, LocalsOK, GetToPromote
  <2>2. CASE SetThreadRoot(p)
    BY <2>2 DEF Typed, TypeOK, LocalsOK, SetThreadRoot, MarkThreadRoot
  <2>3. CASE PublishPromoted(p)
    BY <2>3 DEF Typed, TypeOK, LocalsOK, PublishPromoted, EndPromote
  <2>4. CASE FailPromote(p)
    <3>1. isThreadRoot' \in [Messages -> BOOLEAN] /\ UNCHANGED <<body, edited, editCount>>
      BY <2>4 DEF FailPromote, MarkThreadRoot, Typed, TypeOK
    <3> QED
      BY <2>4, <3>1 DEF Typed, TypeOK, LocalsOK, FailPromote, EndPromote, Fault
  <2> QED
    BY <1>9, <2>1, <2>2, <2>3, <2>4 DEF PromoteToThread
<1>10. CASE Crash
  BY <1>10 DEF Typed, TypeOK, LocalsOK, Crash, Fault
<1>11. CASE Tick
  BY <1>11 DEF Typed, TypeOK, LocalsOK, Tick
<1>12. CASE UNCHANGED vars
  BY <1>12 DEF Typed, TypeOK, LocalsOK
<1> QED
  BY <1>1, <1>2, <1>3, <1>4, <1>5, <1>6, <1>7, <1>8, <1>9, <1>10, <1>11, <1>12
  DEF Next, EditMessage

-----------------------------------------------------------------------------
(* The EditHistory of a request is its own, holds what the request read, and *)
(* is linked once the request is about to update the message.                *)

Snapshotted(e) == pc[e] \in {"link", "update"}

SnapshotsOK ==
    /\ \A e \in Editors : Snapshotted(e) =>
          /\ messageID[history[e]] = editing[e]
          /\ previousBody[history[e]] = readBody[e]
          /\ history[e] \in hasEdit <=> pc[e] = "update"
    /\ \A e, f \in Editors :
          Snapshotted(e) /\ Snapshotted(f) /\ history[e] = history[f] => e = f
    /\ \A h \in hasEdit : messageID[h] \in Messages

LEMMA SnapshotsInit == Init => SnapshotsOK
  BY DEF Init, SnapshotsOK, Snapshotted

LEMMA SnapshotsStep == Typed /\ SnapshotsOK /\ [Next]_vars => SnapshotsOK'
<1> SUFFICES ASSUME Typed, SnapshotsOK, [Next]_vars PROVE SnapshotsOK'
  OBVIOUS
<1> USE EditingAssumption
    DEF message, snapshots, edit, promote, bus, vars, Typed, TypeOK, LocalsOK, Snapshotted
<1>1. ASSUME NEW e \in Editors, NEW m \in Messages, NEW b \in Bodies, GetMessage(e, m, b)
      PROVE  SnapshotsOK'
  BY <1>1 DEF SnapshotsOK, GetMessage
<1>2. ASSUME NEW e \in Editors, CheckEditWindow(e) PROVE SnapshotsOK'
  BY <1>2 DEF SnapshotsOK, CheckEditWindow, EndEdit
<1>3. ASSUME NEW e \in Editors, SkipWindowCheck(e) PROVE SnapshotsOK'
  BY <1>3 DEF SnapshotsOK, SkipWindowCheck
<1>7. ASSUME NEW e \in Editors, PublishEdited(e) PROVE SnapshotsOK'
  BY <1>7 DEF SnapshotsOK, PublishEdited, EndEdit
<1>4. ASSUME NEW e \in Editors, NEW h \in Histories, CreateEditHistory(e, h)
      PROVE  SnapshotsOK'
  BY <1>4 DEF SnapshotsOK, CreateEditHistory, Snapshot, Unused
<1>5. ASSUME NEW e \in Editors, LinkEditHistory(e) PROVE SnapshotsOK'
  BY <1>5 DEF SnapshotsOK, LinkEditHistory
<1>6. ASSUME NEW e \in Editors, UpdateMessage(e) PROVE SnapshotsOK'
  BY <1>6 DEF SnapshotsOK, UpdateMessage, Overwrite
<1>8. ASSUME NEW e \in Editors, FailEdit(e) PROVE SnapshotsOK'
  <2>1. EndEdit(e)
    BY <1>8 DEF FailEdit
  <2>2. CASE UNCHANGED snapshots
    BY <2>1, <2>2 DEF SnapshotsOK, EndEdit
  <2>3. ASSUME NEW h \in Histories, Snapshot(h, editing[e], readBody[e]), pc[e] = "snapshot"
        PROVE  SnapshotsOK'
    BY <2>1, <2>3 DEF SnapshotsOK, EndEdit, Snapshot, Unused
  <2>4. CASE /\ pc[e] = "link" /\ hasEdit' = hasEdit \cup {history[e]}
             /\ UNCHANGED <<previousBody, messageID>>
    BY <2>1, <2>4 DEF SnapshotsOK, EndEdit
  <2> HIDE DEF Typed, TypeOK, LocalsOK
  <2> QED
    BY <1>8, <2>2, <2>3, <2>4 DEF FailEdit
<1>9. ASSUME NEW p \in Promoters, PromoteToThread(p) PROVE SnapshotsOK'
  BY <1>9 DEF SnapshotsOK, PromoteToThread, GetToPromote, SetThreadRoot,
              PublishPromoted, FailPromote
<1>10. CASE Crash \/ Tick \/ UNCHANGED vars
  BY <1>10 DEF SnapshotsOK, Crash, Tick
<1> QED
  BY <1>1, <1>2, <1>3, <1>4, <1>5, <1>6, <1>7, <1>8, <1>9, <1>10 DEF Next, EditMessage

-----------------------------------------------------------------------------
(* An edit is counted at most as often as the message has linked snapshots:  *)
(* snapshots stay linked, and a request that read a count links one of its   *)
(* own before it writes that count plus one.                                 *)

Edits(m) == Cardinality(Linked(m))

CountOK ==
    /\ \A m \in Messages : editCount[m] <= Edits(m)
    /\ \A e \in Editors : pc[e] \in {"check", "snapshot", "link"} =>
          readCount[e] <= Edits(editing[e])
    /\ \A e \in Editors : pc[e] = "update" => readCount[e] + 1 <= Edits(editing[e])

LEMMA EditsType ==
    ASSUME Typed, NEW m \in Messages
    PROVE  IsFiniteSet(Linked(m)) /\ Edits(m) \in Nat
<1>1. Linked(m) \in SUBSET Histories
  BY DEF Linked, Typed, TypeOK
<1>2. IsFiniteSet(Linked(m))
  BY <1>1, EditingAssumption, FS_Subset
<1> QED
  BY <1>2, FS_CardinalityType DEF Edits

\* A linked EditHistory stays linked to the same message.
LEMMA LinkedGrows ==
    ASSUME Typed, SnapshotsOK, [Next]_vars, NEW m \in Messages
    PROVE  Linked(m) \subseteq Linked(m)'
<1> USE DEF message, snapshots, edit, promote, bus, vars
<1>1. \A h \in hasEdit : ~Unused(h)
  BY EditingAssumption DEF SnapshotsOK, Unused
<1>2. CASE UNCHANGED snapshots
  BY <1>2 DEF Linked
<1>3. ASSUME NEW h \in Histories, NEW q, NEW b, Snapshot(h, q, b)
      PROVE  Linked(m) \subseteq Linked(m)'
  BY <1>1, <1>3 DEF Snapshot, Unused, Linked, Typed, TypeOK
<1>4. CASE UNCHANGED <<previousBody, messageID>> /\ hasEdit \subseteq hasEdit'
  BY <1>4 DEF Linked
<1>5. \/ UNCHANGED snapshots
      \/ \E h \in Histories, q \in Messages, b \in Bodies : Snapshot(h, q, b)
      \/ UNCHANGED <<previousBody, messageID>> /\ hasEdit \subseteq hasEdit'
  <2>1. ASSUME NEW e \in Editors, NEW h \in Histories, CreateEditHistory(e, h)
        PROVE  Snapshot(h, editing[e], readBody[e]) /\ editing[e] \in Messages
                  /\ readBody[e] \in Bodies
    BY <2>1 DEF CreateEditHistory, Typed, LocalsOK
  <2>2. ASSUME NEW e \in Editors, FailEdit(e)
        PROVE  <1>5
    <3>1. ASSUME NEW h \in Histories, Snapshot(h, editing[e], readBody[e]), pc[e] = "snapshot"
          PROVE  editing[e] \in Messages /\ readBody[e] \in Bodies
      BY <3>1 DEF Typed, LocalsOK
    <3> QED
      BY <2>2, <3>1 DEF FailEdit
  <2>3. ASSUME NEW e \in Editors, LinkEditHistory(e)
        PROVE  UNCHANGED <<previousBody, messageID>> /\ hasEdit \subseteq hasEdit'
    BY <2>3 DEF LinkEditHistory
  <2> QED
    BY <2>1, <2>2, <2>3
    DEF Next, EditMessage, GetMessage, CheckEditWindow, SkipWindowCheck, UpdateMessage,
        PublishEdited, PromoteToThread, GetToPromote, SetThreadRoot, PublishPromoted,
        FailPromote, Crash, Tick
<1> QED
  BY <1>2, <1>3, <1>4, <1>5

LEMMA EditsGrow ==
    ASSUME Typed, Typed', SnapshotsOK, [Next]_vars, NEW m \in Messages
    PROVE  Edits(m) \in Nat /\ Edits(m)' \in Nat /\ Edits(m) <= Edits(m)'
<1>1. IsFiniteSet(Linked(m)')
  <2>1. Linked(m)' \in SUBSET Histories
    BY DEF Linked, Typed, TypeOK
  <2> QED
    BY <2>1, EditingAssumption, FS_Subset
<1>2. Linked(m) \in SUBSET Linked(m)'
  BY LinkedGrows
<1>3. Cardinality(Linked(m)) <= Cardinality(Linked(m)')
  BY <1>1, <1>2, FS_Subset
<1>4. Cardinality(Linked(m)') \in Nat
  BY <1>1, FS_CardinalityType
<1> QED
  BY <1>3, <1>4, EditsType DEF Edits

LEMMA LinkCounts ==
    ASSUME Typed, SnapshotsOK, NEW e \in Editors, LinkEditHistory(e)
    PROVE  Edits(editing[e])' = Edits(editing[e]) + 1
<1> DEFINE m == editing[e]
<1>1. m \in Messages /\ history[e] \in Histories /\ history[e] \notin Linked(m)
  BY DEF LinkEditHistory, Linked, SnapshotsOK, Snapshotted, Typed, LocalsOK
<1>2. Linked(m)' = Linked(m) \cup {history[e]}
  BY <1>1 DEF LinkEditHistory, Linked, SnapshotsOK, Snapshotted
<1>3. Cardinality(Linked(m) \cup {history[e]}) = Cardinality(Linked(m)) + 1
  BY <1>1, EditsType, FS_AddElement
<1> QED
  BY <1>2, <1>3 DEF Edits

LEMMA CountInit == Init => CountOK
<1> SUFFICES ASSUME Init PROVE CountOK
  OBVIOUS
<1>1. \A m \in Messages : Edits(m) = 0
  BY FS_EmptySet DEF Init, Edits, Linked
<1> QED
  BY <1>1 DEF Init, CountOK

LEMMA CountStep ==
    Typed /\ Typed' /\ SnapshotsOK /\ CountOK /\ [Next]_vars => CountOK'
<1> SUFFICES ASSUME Typed, Typed', SnapshotsOK, CountOK, [Next]_vars PROVE CountOK'
  OBVIOUS
<1>a. \A m \in Messages : Edits(m) \in Nat /\ Edits(m)' \in Nat /\ Edits(m) <= Edits(m)'
  BY EditsGrow
<1>b. /\ \A m \in Messages : editCount[m] \in Nat
      /\ \A e \in Editors : readCount[e] \in Nat
      /\ \A e \in Editors : pc[e] # "idle" => editing[e] \in Messages
      /\ pc \in [Editors -> {"idle", "check", "snapshot", "link", "update", "publish"}]
      /\ editing \in [Editors -> Messages \cup {NoMessage}]
      /\ readCount \in [Editors -> Nat]
      /\ editCount \in [Messages -> Nat]
  BY DEF Typed, TypeOK, LocalsOK
<1>c. ASSUME editCount' = editCount,
             \A e \in Editors : \/ pc'[e] \in {"idle", "publish"}
                                \/ /\ pc'[e] # "update" /\ pc[e] \in {"check", "snapshot", "link"}
                                   /\ editing'[e] = editing[e] /\ readCount'[e] = readCount[e]
                                \/ /\ pc'[e] = pc[e] /\ pc[e] # "idle"
                                   /\ editing'[e] = editing[e] /\ readCount'[e] = readCount[e]
      PROVE  CountOK'
  BY <1>a, <1>b, <1>c DEF CountOK
<1> USE DEF message, snapshots, edit, promote, bus, vars
<1>1. ASSUME NEW e \in Editors, NEW m \in Messages, NEW b \in Bodies, GetMessage(e, m, b)
      PROVE  CountOK'
  BY <1>1, <1>a, <1>b DEF CountOK, GetMessage
<1>2. ASSUME NEW e \in Editors, CheckEditWindow(e) PROVE CountOK'
  BY <1>2, <1>b, <1>c DEF CheckEditWindow, EndEdit
<1>3. ASSUME NEW e \in Editors, SkipWindowCheck(e) PROVE CountOK'
  BY <1>3, <1>b, <1>c DEF SkipWindowCheck
<1>4. ASSUME NEW e \in Editors, NEW h \in Histories, CreateEditHistory(e, h)
      PROVE  CountOK'
  BY <1>4, <1>b, <1>c DEF CreateEditHistory
<1>5. ASSUME NEW e \in Editors, LinkEditHistory(e) PROVE CountOK'
  <2>1. Edits(editing[e])' = Edits(editing[e]) + 1
    BY <1>5, LinkCounts
  <2> QED
    BY <1>5, <2>1, <1>a, <1>b DEF CountOK, LinkEditHistory
<1>6. ASSUME NEW e \in Editors, Overwrite(editing[e], newBody[e], NextCount(e)),
             pc[e] = "update", pc' = [pc EXCEPT ![e] = "publish"] \/ pc' = [pc EXCEPT ![e] = "idle"],
             \A f \in Editors \ {e} : readCount'[f] = readCount[f] /\ editing'[f] = editing[f]
      PROVE  CountOK'
  BY <1>6, <1>a, <1>b, CountWritten DEF CountOK, Overwrite
<1>7. ASSUME NEW e \in Editors, UpdateMessage(e) PROVE CountOK'
  BY <1>6, <1>7 DEF UpdateMessage
<1>8. ASSUME NEW e \in Editors, PublishEdited(e) PROVE CountOK'
  BY <1>8, <1>b, <1>c DEF PublishEdited, EndEdit
<1>9. ASSUME NEW e \in Editors, FailEdit(e) PROVE CountOK'
  <2>1. EndEdit(e)
    BY <1>9 DEF FailEdit
  <2>2. CASE UNCHANGED message
    BY <2>1, <2>2, <1>b, <1>c DEF EndEdit
  <2>3. CASE pc[e] = "update" /\ Overwrite(editing[e], newBody[e], NextCount(e))
    BY <2>1, <2>3, <1>6, <1>b DEF EndEdit
  <2> QED
    BY <1>9, <2>2, <2>3 DEF FailEdit
<1>10. ASSUME NEW p \in Promoters, PromoteToThread(p) PROVE CountOK'
  <2>1. UNCHANGED edit /\ editCount' = editCount
    BY <1>10 DEF PromoteToThread, GetToPromote, SetThreadRoot, MarkThreadRoot,
                 PublishPromoted, FailPromote
  <2> QED
    BY <2>1, <1>b, <1>c
<1>11. CASE Crash
  BY <1>11, <1>c DEF Crash
<1>12. CASE Tick \/ UNCHANGED vars
  BY <1>12, <1>b, <1>c DEF Tick
<1> QED
  BY <1>1, <1>2, <1>3, <1>4, <1>5, <1>7, <1>8, <1>9, <1>10, <1>11, <1>12
  DEF Next, EditMessage

-----------------------------------------------------------------------------
(* An event follows its write, and nothing takes the write back. *)

EventsOK ==
    /\ EventsFollowWrites
    /\ \A e \in Editors : pc[e] = "publish" => edited[editing[e]]
    /\ \A p \in Promoters : promotePc[p] = "publish" => isThreadRoot[promoting[p]]

LEMMA EventsInit == Init => EventsOK
  BY DEF Init, EventsOK, EventsFollowWrites

\* No step unmarks a message.
LEMMA MarksStay ==
    ASSUME Typed, [Next]_vars, NEW m \in Messages
    PROVE  (edited[m] => edited'[m]) /\ (isThreadRoot[m] => isThreadRoot'[m])
<1> USE DEF message, snapshots, edit, promote, bus, vars
<1>1. CASE UNCHANGED message
  BY <1>1
<1>2. ASSUME NEW e \in Editors, pc[e] = "update",
             Overwrite(editing[e], newBody[e], NextCount(e))
      PROVE  (edited[m] => edited'[m]) /\ (isThreadRoot[m] => isThreadRoot'[m])
  BY <1>2 DEF Overwrite, Typed, TypeOK
<1>3. ASSUME NEW p \in Promoters, MarkThreadRoot(promoting[p])
      PROVE  (edited[m] => edited'[m]) /\ (isThreadRoot[m] => isThreadRoot'[m])
  BY <1>3 DEF MarkThreadRoot, Typed, TypeOK
<1>4. ASSUME NEW e \in Editors, EditMessage(e)
      PROVE  UNCHANGED message \/ 
             (pc[e] = "update" /\ Overwrite(editing[e], newBody[e], NextCount(e)))
  <2>1. CASE FailEdit(e)
    BY <2>1 DEF FailEdit
  <2>2. CASE UpdateMessage(e)
    BY <2>2 DEF UpdateMessage
  <2> QED
    BY <1>4, <2>1, <2>2
    DEF EditMessage, GetMessage, CheckEditWindow, SkipWindowCheck, CreateEditHistory,
        LinkEditHistory, PublishEdited
<1>5. ASSUME NEW p \in Promoters, PromoteToThread(p)
      PROVE  UNCHANGED message \/ MarkThreadRoot(promoting[p])
  BY <1>5 DEF PromoteToThread, GetToPromote, SetThreadRoot, PublishPromoted, FailPromote
<1> QED
  BY <1>1, <1>2, <1>3, <1>4, <1>5 DEF Next, Crash, Tick

LEMMA EventsStep ==
    Typed /\ EventsOK /\ [Next]_vars => EventsOK'
<1> SUFFICES ASSUME Typed, EventsOK, [Next]_vars PROVE EventsOK'
  OBVIOUS
<1>a. \A m \in Messages : (edited[m] => edited'[m]) /\ (isThreadRoot[m] => isThreadRoot'[m])
  BY MarksStay
<1>b. /\ announced \subseteq Messages /\ threads \subseteq Messages
      /\ \A e \in Editors : pc[e] # "idle" => editing[e] \in Messages
      /\ \A p \in Promoters : promotePc[p] # "idle" => promoting[p] \in Messages
      /\ pc \in [Editors -> {"idle", "check", "snapshot", "link", "update", "publish"}]
      /\ editing \in [Editors -> Messages \cup {NoMessage}]
      /\ promotePc \in [Promoters -> {"idle", "update", "publish"}]
      /\ promoting \in [Promoters -> Messages \cup {NoMessage}]
      /\ edited \in [Messages -> BOOLEAN] /\ isThreadRoot \in [Messages -> BOOLEAN]
  BY DEF Typed, TypeOK, LocalsOK
<1> USE DEF message, snapshots, edit, promote, bus, vars
<1>1. ASSUME NEW e \in Editors, UpdateMessage(e) PROVE EventsOK'
  <2>1. edited'[editing[e]]
    BY <1>1, <1>b DEF UpdateMessage, Overwrite
  <2> QED
    BY <1>1, <2>1, <1>a, <1>b DEF UpdateMessage, EventsOK, EventsFollowWrites
<1>2. ASSUME NEW e \in Editors, PublishEdited(e) PROVE EventsOK'
  BY <1>2, <1>a, <1>b DEF PublishEdited, EndEdit, EventsOK, EventsFollowWrites
<1>3. ASSUME NEW p \in Promoters, SetThreadRoot(p) PROVE EventsOK'
  <2>1. isThreadRoot'[promoting[p]]
    BY <1>3, <1>b DEF SetThreadRoot, MarkThreadRoot
  <2> QED
    BY <1>3, <2>1, <1>a, <1>b DEF SetThreadRoot, EventsOK, EventsFollowWrites
<1>4. ASSUME NEW p \in Promoters, PublishPromoted(p) PROVE EventsOK'
  BY <1>4, <1>a, <1>b DEF PublishPromoted, EndPromote, EventsOK, EventsFollowWrites
\* The other steps of a request take it to no publication.
<1>c. ASSUME UNCHANGED bus,
             \A e \in Editors : pc'[e] = "publish" => pc[e] = "publish" /\ editing'[e] = editing[e],
             \A p \in Promoters : promotePc'[p] = "publish" =>
                promotePc[p] = "publish" /\ promoting'[p] = promoting[p]
      PROVE  EventsOK'
  BY <1>a, <1>b, <1>c DEF EventsOK, EventsFollowWrites
<1>5. ASSUME NEW e \in Editors, EditMessage(e), ~UpdateMessage(e), ~PublishEdited(e)
      PROVE  EventsOK'
  <2>1. UNCHANGED <<bus, promote>>
    BY <1>5 DEF EditMessage, GetMessage, CheckEditWindow, SkipWindowCheck, CreateEditHistory,
        LinkEditHistory, FailEdit
  <2>2. \/ \E s \in {"check", "snapshot", "link", "update"} : pc' = [pc EXCEPT ![e] = s]
        \/ EndEdit(e)
    BY <1>5 DEF EditMessage, GetMessage, CheckEditWindow, SkipWindowCheck, CreateEditHistory,
        LinkEditHistory, FailEdit
  <2>3. \A f \in Editors \ {e} : editing'[f] = editing[f]
    BY <1>5, <1>b DEF EditMessage, GetMessage, CheckEditWindow, SkipWindowCheck, CreateEditHistory,
        LinkEditHistory, FailEdit, EndEdit
  <2> QED
    BY <2>1, <2>2, <2>3, <1>b, <1>c DEF EndEdit
<1>6. ASSUME NEW p \in Promoters, PromoteToThread(p), ~SetThreadRoot(p), ~PublishPromoted(p)
      PROVE  EventsOK'
  <2>1. UNCHANGED <<bus, edit>>
    BY <1>6 DEF PromoteToThread, GetToPromote, FailPromote
  <2>2. CASE FailPromote(p)
    BY <2>1, <2>2, <1>b, <1>c DEF FailPromote, EndPromote
  <2>3. ASSUME NEW m \in Messages, GetToPromote(p, m) PROVE EventsOK'
    BY <2>1, <2>3, <1>b, <1>c DEF GetToPromote
  <2> QED
    BY <1>6, <2>2, <2>3 DEF PromoteToThread
<1>7. CASE Crash
  BY <1>7, <1>c DEF Crash
<1>8. CASE Tick \/ UNCHANGED vars
  BY <1>8, <1>c DEF Tick
<1> QED
  BY <1>1, <1>2, <1>3, <1>4, <1>5, <1>6, <1>7, <1>8 DEF Next, EditMessage, PromoteToThread

-----------------------------------------------------------------------------
\* No step changes the world the handlers run in.
LEMMA WorldStays == [Next]_vars => UNCHANGED world
<1> SUFFICES ASSUME [Next]_vars PROVE UNCHANGED world
  OBVIOUS
<1>1. ASSUME NEW e \in Editors, EditMessage(e) PROVE UNCHANGED world
  BY <1>1 DEF EditMessage, GetMessage, CheckEditWindow, SkipWindowCheck, CreateEditHistory,
              LinkEditHistory, UpdateMessage, PublishEdited, FailEdit
<1>2. ASSUME NEW p \in Promoters, PromoteToThread(p) PROVE UNCHANGED world
  BY <1>2 DEF PromoteToThread, GetToPromote, SetThreadRoot, PublishPromoted, FailPromote
<1>3. CASE Crash \/ Tick \/ UNCHANGED vars
  BY <1>3 DEF Crash, Tick, vars
<1> QED
  BY <1>1, <1>2, <1>3 DEF Next

-----------------------------------------------------------------------------
(* When no two edits of a message overlap, what a request read is still so   *)
(* when it writes.                                                           *)

Reading(e) == pc[e] \in {"check", "snapshot", "link", "update"}

SerialOK ==
    /\ \A e \in Editors : pc[e] = "idle" => editing[e] = NoMessage
    /\ \A e, f \in Editors : editing[e] \in Messages /\ editing[e] = editing[f] => e = f
    /\ \A e \in Editors : Reading(e) => /\ readBody[e] = body[editing[e]]
                                        /\ readCount[e] = editCount[editing[e]]

LEMMA SerialInit == Init => SerialOK
  BY EditingAssumption DEF Init, SerialOK, Reading

LEMMA SerialStep ==
    Typed /\ serial /\ SerialOK /\ [Next]_vars => SerialOK'
<1> SUFFICES ASSUME Typed, serial, SerialOK, [Next]_vars PROVE SerialOK'
  OBVIOUS
<1>a. /\ \A e \in Editors : pc[e] # "idle" => editing[e] \in Messages
      /\ pc \in [Editors -> {"idle", "check", "snapshot", "link", "update", "publish"}]
      /\ editing \in [Editors -> Messages \cup {NoMessage}]
      /\ readBody \in [Editors -> Bodies \cup {NoBody}]
      /\ readCount \in [Editors -> Nat]
      /\ body \in [Messages -> Bodies] /\ editCount \in [Messages -> Nat]
      /\ NoMessage \notin Messages
  BY EditingAssumption DEF Typed, TypeOK, LocalsOK
<1> USE DEF message, snapshots, edit, promote, bus, vars
<1>1. ASSUME NEW e \in Editors, NEW m \in Messages, NEW b \in Bodies, GetMessage(e, m, b)
      PROVE  SerialOK'
  BY <1>1, <1>a, serial DEF GetMessage, SerialOK, Reading
\* A step that writes no body moves its request on, or ends it.
<1>b. ASSUME UNCHANGED <<body, editCount>>,
             \A e \in Editors :
                \/ pc'[e] = "idle" /\ editing'[e] = NoMessage
                \/ /\ pc[e] # "idle" /\ pc'[e] # "idle" /\ (Reading(e)' => Reading(e))
                   /\ editing'[e] = editing[e] /\ readBody'[e] = readBody[e]
                   /\ readCount'[e] = readCount[e]
                \/ /\ pc[e] = "idle" /\ pc'[e] = "idle" /\ editing'[e] = editing[e]
      PROVE  SerialOK'
  BY <1>a, <1>b DEF SerialOK, Reading
<1>2. ASSUME NEW e \in Editors, CheckEditWindow(e) PROVE SerialOK'
  BY <1>2, <1>a, <1>b DEF CheckEditWindow, EndEdit, Reading
<1>3. ASSUME NEW e \in Editors, SkipWindowCheck(e) PROVE SerialOK'
  BY <1>3, <1>a, <1>b DEF SkipWindowCheck, Reading
<1>4. ASSUME NEW e \in Editors, NEW h \in Histories, CreateEditHistory(e, h) PROVE SerialOK'
  BY <1>4, <1>a, <1>b DEF CreateEditHistory, Reading
<1>5. ASSUME NEW e \in Editors, LinkEditHistory(e) PROVE SerialOK'
  BY <1>5, <1>a, <1>b DEF LinkEditHistory, Reading
<1>6. ASSUME NEW e \in Editors, UpdateMessage(e) PROVE SerialOK'
  BY <1>6, <1>a DEF UpdateMessage, Overwrite, SerialOK, Reading
<1>7. ASSUME NEW e \in Editors, PublishEdited(e) PROVE SerialOK'
  BY <1>7, <1>a, <1>b DEF PublishEdited, EndEdit, Reading
<1>8. ASSUME NEW e \in Editors, FailEdit(e) PROVE SerialOK'
  <2>1. EndEdit(e)
    BY <1>8 DEF FailEdit
  <2>2. CASE UNCHANGED message
    BY <2>1, <2>2, <1>a, <1>b DEF EndEdit, Reading
  <2>3. CASE pc[e] = "update" /\ Overwrite(editing[e], newBody[e], NextCount(e))
    BY <2>1, <2>3, <1>a DEF EndEdit, Overwrite, SerialOK, Reading
  <2> QED
    BY <1>8, <2>2, <2>3 DEF FailEdit
<1>9. ASSUME NEW p \in Promoters, PromoteToThread(p) PROVE SerialOK'
  <2>1. UNCHANGED edit /\ UNCHANGED <<body, editCount>>
    BY <1>9 DEF PromoteToThread, GetToPromote, SetThreadRoot, MarkThreadRoot,
                PublishPromoted, FailPromote
  <2> QED
    BY <2>1, <1>b DEF Reading
<1>10. CASE Crash
  BY <1>10, <1>b DEF Crash
<1>11. CASE Tick \/ UNCHANGED vars
  BY <1>11, <1>b DEF Tick, Reading
<1> QED
  BY <1>1, <1>2, <1>3, <1>4, <1>5, <1>6, <1>7, <1>8, <1>9, <1>10, <1>11
  DEF Next, EditMessage

-----------------------------------------------------------------------------
(* When no two edits of a message overlap, a failed call leaves at most one  *)
(* snapshot behind that is not counted.                                      *)

Updating(m) == \E e \in Editors : pc[e] = "update" /\ editing[e] = m

SpareOK ==
    \A m \in Messages : Edits(m) <= editCount[m] + faults + (IF Updating(m) THEN 1 ELSE 0)

LEMMA LinkAdds ==
    ASSUME Typed, SnapshotsOK, NEW e \in Editors, pc[e] = "link",
           hasEdit' = hasEdit \cup {history[e]}, messageID' = messageID, NEW m \in Messages
    PROVE  Edits(m)' = IF editing[e] = m THEN Edits(m) + 1 ELSE Edits(m)
<1>1. history[e] \in Histories /\ history[e] \notin hasEdit /\ messageID[history[e]] = editing[e]
  BY DEF SnapshotsOK, Snapshotted, Typed, LocalsOK
<1>2. CASE editing[e] = m
  <2>1. Linked(m)' = Linked(m) \cup {history[e]} /\ history[e] \notin Linked(m)
    BY <1>1, <1>2 DEF Linked
  <2>2. Cardinality(Linked(m) \cup {history[e]}) = Cardinality(Linked(m)) + 1
    BY <2>1, EditsType, FS_AddElement
  <2> QED
    BY <1>2, <2>1, <2>2 DEF Edits
<1>3. CASE editing[e] # m
  BY <1>1, <1>3 DEF Linked, Edits
<1> QED
  BY <1>2, <1>3

LEMMA SnapshotAdds ==
    ASSUME Typed, SnapshotsOK, NEW h \in Histories, NEW n, NEW b, Snapshot(h, n, b),
           NEW m \in Messages
    PROVE  Edits(m)' = Edits(m)
<1>1. h \notin hasEdit /\ hasEdit' = hasEdit /\ hasEdit \subseteq Histories
  BY EditingAssumption DEF Snapshot, Unused, SnapshotsOK, Typed, TypeOK
<1>2. \A g \in hasEdit : messageID'[g] = messageID[g]
  BY <1>1 DEF Snapshot, Typed, TypeOK
<1>3. Linked(m)' = Linked(m)
  BY <1>1, <1>2 DEF Linked
<1> QED
  BY <1>3 DEF Edits

LEMMA SpareInit == Init => SpareOK
<1> SUFFICES ASSUME Init PROVE SpareOK
  OBVIOUS
<1>1. \A m \in Messages : Edits(m) = 0
  BY FS_EmptySet DEF Init, Edits, Linked
<1> QED
  BY <1>1 DEF Init, SpareOK

LEMMA SpareStep ==
    ASSUME Typed, SnapshotsOK, serial, JsonNumbers, SerialOK, SpareOK, [Next]_vars
    PROVE  SpareOK'
<1> SUFFICES ASSUME NEW m \in Messages
             PROVE  Edits(m)' <= editCount'[m] + faults' + (IF Updating(m)' THEN 1 ELSE 0)
  BY DEF SpareOK
<1> DEFINE Goal == Edits(m)' <= editCount'[m] + faults' + (IF Updating(m)' THEN 1 ELSE 0)
<1>a. /\ Edits(m) \in Nat /\ editCount[m] \in Nat /\ faults \in Nat
      /\ Edits(m) <= editCount[m] + faults + (IF Updating(m) THEN 1 ELSE 0)
  BY EditsType DEF SpareOK, Typed, TypeOK
<1>b. /\ pc \in [Editors -> {"idle", "check", "snapshot", "link", "update", "publish"}]
      /\ editing \in [Editors -> Messages \cup {NoMessage}]
      /\ editCount \in [Messages -> Nat]
      /\ \A e \in Editors : pc[e] # "idle" => editing[e] \in Messages
  BY DEF Typed, TypeOK, LocalsOK
<1> USE DEF message, snapshots, edit, promote, bus, vars
<1>c. UNCHANGED snapshots => Edits(m)' = Edits(m)
  BY DEF Edits, Linked
\* A step that links nothing and takes no request away from its update.
<1>d. ASSUME Edits(m)' = Edits(m), editCount'[m] = editCount[m], faults' \in {faults, faults + 1},
             Updating(m) => Updating(m)'
      PROVE  Goal
  BY <1>a, <1>d
\* A failure that links nothing.
<1>e. ASSUME Edits(m)' = Edits(m), editCount'[m] = editCount[m], faults' = faults + 1
      PROVE  Goal
  BY <1>a, <1>e
\* A step of one request that is not at its update, nor after it.
<1>f. ASSUME NEW e \in Editors, pc[e] # "update", \A f \in Editors \ {e} :
                pc'[f] = pc[f] /\ editing'[f] = editing[f]
      PROVE  Updating(m) => Updating(m)'
  BY <1>f DEF Updating
<1>1. ASSUME NEW e \in Editors, NEW n \in Messages, NEW b \in Bodies, GetMessage(e, n, b)
      PROVE  Goal
  BY <1>1, <1>b, <1>c, <1>d, <1>f DEF GetMessage
<1>2. ASSUME NEW e \in Editors, CheckEditWindow(e) PROVE Goal
  BY <1>2, <1>b, <1>c, <1>d, <1>f DEF CheckEditWindow, EndEdit
<1>3. ASSUME NEW e \in Editors, SkipWindowCheck(e) PROVE Goal
  BY <1>3, <1>b, <1>c, <1>e DEF SkipWindowCheck, Fault
<1>4. ASSUME NEW e \in Editors, NEW h \in Histories, CreateEditHistory(e, h) PROVE Goal
  <2>1. Edits(m)' = Edits(m)
    BY <1>4, SnapshotAdds DEF CreateEditHistory
  <2> QED
    BY <1>4, <2>1, <1>b, <1>d, <1>f DEF CreateEditHistory
\* The request is the only one to edit its message.
<1>g. ASSUME NEW e \in Editors, pc[e] = "link", editing[e] = m PROVE ~Updating(m)
  BY <1>g, <1>b DEF SerialOK, Updating
<1>5. ASSUME NEW e \in Editors, LinkEditHistory(e) PROVE Goal
  <2>1. /\ pc[e] = "link" /\ pc' = [pc EXCEPT ![e] = "update"]
        /\ UNCHANGED <<editing, editCount, faults>>
        /\ Edits(m)' = IF editing[e] = m THEN Edits(m) + 1 ELSE Edits(m)
    BY <1>5, LinkAdds DEF LinkEditHistory
  <2>2. CASE editing[e] = m
    <3>1. ~Updating(m) /\ Updating(m)'
      BY <2>1, <2>2, <1>b, <1>g DEF Updating
    <3> QED
      BY <2>1, <2>2, <3>1, <1>a
  <2>3. CASE editing[e] # m
    BY <2>1, <2>3, <1>b, <1>d, <1>f
  <2> QED
    BY <2>2, <2>3
\* The edit is counted.
<1>h. ASSUME NEW e \in Editors, pc[e] = "update", UNCHANGED snapshots,
             Overwrite(editing[e], newBody[e], NextCount(e)), faults' \in {faults, faults + 1},
             \A f \in Editors \ {e} : pc'[f] = pc[f] /\ editing'[f] = editing[f]
      PROVE  Goal
  <2>1. readCount[e] = editCount[editing[e]] /\ editing[e] \in Messages
    BY <1>b, <1>h DEF SerialOK, Reading
  <2>2. editCount'[m] = IF editing[e] = m THEN editCount[m] + 1 ELSE editCount[m]
    BY <1>b, <1>h, <2>1, JsonNumbers, CountWritten DEF Overwrite
  <2>3. CASE editing[e] = m
    BY <1>a, <1>c, <1>h, <2>2, <2>3
  <2>4. CASE editing[e] # m
    <3>1. Updating(m) => Updating(m)'
      BY <1>h, <2>4 DEF Updating
    <3> QED
      BY <1>c, <1>d, <1>h, <2>2, <2>4, <3>1
  <2> QED
    BY <2>3, <2>4
<1>6. ASSUME NEW e \in Editors, UpdateMessage(e) PROVE Goal
  BY <1>6, <1>b, <1>h DEF UpdateMessage
<1>7. ASSUME NEW e \in Editors, PublishEdited(e) PROVE Goal
  BY <1>7, <1>b, <1>c, <1>d, <1>f DEF PublishEdited, EndEdit
<1>8. ASSUME NEW e \in Editors, FailEdit(e) PROVE Goal
  <2>1. /\ faults' = faults + 1
        /\ \A f \in Editors \ {e} : pc'[f] = pc[f] /\ editing'[f] = editing[f]
    BY <1>8, <1>b DEF FailEdit, Fault, EndEdit
  <2>2. CASE UNCHANGED message /\ UNCHANGED snapshots
    BY <2>1, <2>2, <1>c, <1>e
  <2>3. ASSUME NEW h \in Histories, Snapshot(h, editing[e], readBody[e]), UNCHANGED message
        PROVE  Goal
    <3>1. Edits(m)' = Edits(m)
      BY <2>3, SnapshotAdds
    <3> QED
      BY <2>1, <2>3, <3>1, <1>e
  <2>4. CASE /\ pc[e] = "link" /\ hasEdit' = hasEdit \cup {history[e]}
             /\ UNCHANGED <<message, previousBody, messageID>>
    <3>1. Edits(m)' = IF editing[e] = m THEN Edits(m) + 1 ELSE Edits(m)
      BY <2>4, LinkAdds
    <3>2. CASE editing[e] = m
      <4>1. ~Updating(m)
        BY <2>4, <3>2, <1>g
      <4> QED
        BY <2>1, <2>4, <3>1, <3>2, <4>1, <1>a
    <3>3. CASE editing[e] # m
      BY <2>1, <2>4, <3>1, <3>3, <1>e
    <3> QED
      BY <3>2, <3>3
  <2>5. CASE /\ pc[e] = "update" /\ UNCHANGED snapshots
             /\ Overwrite(editing[e], newBody[e], NextCount(e))
    BY <2>1, <2>5, <1>h
  <2> QED
    BY <1>8, <2>2, <2>3, <2>4, <2>5 DEF FailEdit
<1>9. ASSUME NEW p \in Promoters, PromoteToThread(p) PROVE Goal
  <2>1. /\ UNCHANGED <<edit, snapshots, editCount>> /\ faults' \in {faults, faults + 1}
    BY <1>9 DEF PromoteToThread, GetToPromote, SetThreadRoot, MarkThreadRoot,
                PublishPromoted, FailPromote, Fault
  <2>2. Updating(m)' = Updating(m)
    BY <2>1 DEF Updating
  <2> QED
    BY <2>1, <2>2, <1>c, <1>d
<1>10. CASE Crash
  BY <1>10, <1>c, <1>e DEF Crash, Fault
<1>11. CASE Tick \/ UNCHANGED vars
  <2>1. UNCHANGED <<edit, snapshots, editCount, faults>>
    BY <1>11 DEF Tick
  <2>2. Updating(m)' = Updating(m)
    BY <2>1 DEF Updating
  <2> QED
    BY <2>1, <2>2, <1>c, <1>d
<1> QED
  BY <1>1, <1>2, <1>3, <1>4, <1>5, <1>6, <1>7, <1>8, <1>9, <1>10, <1>11
  DEF Next, EditMessage

-----------------------------------------------------------------------------
(* When the channel is always found and read, a request past the check was   *)
(* in time when it came in: the clock only runs on.                          *)

WindowOK ==
    /\ \A e \in Editors : startedAt[e] <= now
    /\ \A e \in Editors : pc[e] \in {"snapshot", "link", "update"} =>
          ~WindowClosed(editWindow[editing[e]], startedAt[e])

LEMMA WindowInit == Init => WindowOK
  BY DEF Init, WindowOK

LEMMA WindowStep ==
    Typed /\ readable /\ InverseEdges /\ WindowOK /\ [Next]_vars => WindowOK'
<1> SUFFICES ASSUME Typed, readable, InverseEdges, WindowOK, [Next]_vars PROVE WindowOK'
  OBVIOUS
<1>a. /\ \A e \in Editors : pc[e] # "idle" => editing[e] \in Messages
      /\ pc \in [Editors -> {"idle", "check", "snapshot", "link", "update", "publish"}]
      /\ editing \in [Editors -> Messages \cup {NoMessage}]
      /\ startedAt \in [Editors -> Nat] /\ now \in Nat
      /\ \A m \in Messages : editWindow[m] \in Int \cup {Unset}
  BY EditingAssumption DEF Typed, TypeOK, LocalsOK
<1> USE DEF message, snapshots, edit, promote, bus, vars
\* A step other than the check moves its request on, or ends it.
<1>b. ASSUME UNCHANGED <<editWindow, now>>,
             \A e \in Editors :
                \/ pc'[e] = "idle" /\ startedAt'[e] = 0
                \/ /\ pc'[e] \notin {"snapshot", "link", "update"} /\ startedAt'[e] <= now
                \/ /\ pc[e] \in {"snapshot", "link", "update"}
                   /\ editing'[e] = editing[e] /\ startedAt'[e] = startedAt[e]
      PROVE  WindowOK'
  BY <1>a, <1>b DEF WindowOK
<1>1. ASSUME NEW e \in Editors, NEW m \in Messages, NEW b \in Bodies, GetMessage(e, m, b)
      PROVE  WindowOK'
  BY <1>1, <1>a, <1>b DEF GetMessage, WindowOK
<1>2. ASSUME NEW e \in Editors, CheckEditWindow(e) PROVE WindowOK'
  <2>1. CASE EndEdit(e)
    BY <1>2, <2>1, <1>a, <1>b DEF CheckEditWindow, EndEdit, WindowOK
  <2>2. CASE /\ ~WindowClosed(editWindow[editing[e]], now)
             /\ pc' = [pc EXCEPT ![e] = "snapshot"]
             /\ UNCHANGED <<editing, startedAt>>
    <3>1. ~WindowClosed(editWindow[editing[e]], startedAt[e])
      BY <1>2, <2>2, <1>a DEF CheckEditWindow, WindowClosed, WindowOK
    <3> QED
      BY <1>2, <2>2, <3>1, <1>a DEF CheckEditWindow, WindowOK
  <2> QED
    BY <1>2, <2>1, <2>2, InverseEdges DEF CheckEditWindow
<1>3. ASSUME NEW e \in Editors, SkipWindowCheck(e) PROVE WindowOK'
  BY <1>3, readable DEF SkipWindowCheck
<1>4. ASSUME NEW e \in Editors, NEW h \in Histories, CreateEditHistory(e, h) PROVE WindowOK'
  BY <1>4, <1>a, <1>b DEF CreateEditHistory, WindowOK
<1>5. ASSUME NEW e \in Editors, LinkEditHistory(e) PROVE WindowOK'
  BY <1>5, <1>a, <1>b DEF LinkEditHistory, WindowOK
<1>6. ASSUME NEW e \in Editors, UpdateMessage(e) PROVE WindowOK'
  BY <1>6, <1>a, <1>b DEF UpdateMessage, WindowOK
<1>7. ASSUME NEW e \in Editors, PublishEdited(e) PROVE WindowOK'
  BY <1>7, <1>a, <1>b DEF PublishEdited, EndEdit, WindowOK
<1>8. ASSUME NEW e \in Editors, FailEdit(e) PROVE WindowOK'
  <2>1. EndEdit(e) /\ UNCHANGED <<editWindow, now>>
    BY <1>8 DEF FailEdit
  <2> QED
    BY <2>1, <1>a, <1>b DEF EndEdit, WindowOK
<1>9. ASSUME NEW p \in Promoters, PromoteToThread(p) PROVE WindowOK'
  <2>1. UNCHANGED edit /\ UNCHANGED <<editWindow, now>>
    BY <1>9 DEF PromoteToThread, GetToPromote, SetThreadRoot, PublishPromoted, FailPromote
  <2> QED
    BY <2>1, <1>a, <1>b DEF WindowOK
<1>10. CASE Crash
  BY <1>10, <1>b DEF Crash
<1>11. CASE Tick
  BY <1>11, <1>a DEF Tick, WindowOK
<1>12. CASE UNCHANGED vars
  BY <1>12, <1>a, <1>b DEF WindowOK
<1> QED
  BY <1>1, <1>2, <1>3, <1>4, <1>5, <1>6, <1>7, <1>8, <1>9, <1>10, <1>11, <1>12
  DEF Next, EditMessage

-----------------------------------------------------------------------------
(* What a step does *)

\* A body is written by the update of an edit and by nothing else.
LEMMA BodyWrites ==
    ASSUME Typed, [Next]_vars, NEW m \in Messages, body'[m] # body[m]
    PROVE  \E e \in Editors : pc[e] = "update" /\ editing[e] = m
<1> USE DEF message, snapshots, edit, promote, bus, vars
<1>1. ASSUME NEW e \in Editors, EditMessage(e)
      PROVE  /\ pc[e] = "update"
             /\ Overwrite(editing[e], newBody[e], NextCount(e))
  <2>1. CASE FailEdit(e)
    BY <2>1 DEF FailEdit
  <2>2. CASE UpdateMessage(e)
    BY <2>2 DEF UpdateMessage
  <2> QED
    BY <1>1, <2>1, <2>2
    DEF EditMessage, GetMessage, CheckEditWindow, SkipWindowCheck, CreateEditHistory,
        LinkEditHistory, PublishEdited
<1>2. ASSUME NEW p \in Promoters, PromoteToThread(p) PROVE UNCHANGED body
  BY <1>2 DEF PromoteToThread, GetToPromote, SetThreadRoot, MarkThreadRoot,
              PublishPromoted, FailPromote
<1>3. PICK e \in Editors : EditMessage(e)
  BY <1>2 DEF Next, Crash, Tick
<1>4. body' = [body EXCEPT ![editing[e]] = newBody[e]] /\ pc[e] = "update"
  BY <1>1, <1>3 DEF Overwrite
<1> QED
  BY <1>4 DEF Typed, TypeOK

LEMMA TrailStep ==
    ASSUME Typed, SnapshotsOK, SerialOK, [Next]_vars, NEW m \in Messages, body'[m] # body[m]
    PROVE  \E h \in Linked(m) : previousBody[h] = body[m]
<1>1. PICK e \in Editors : pc[e] = "update" /\ editing[e] = m
  BY BodyWrites
<1>2. history[e] \in Linked(m)
  BY <1>1 DEF SnapshotsOK, Snapshotted, Linked
<1>3. previousBody[history[e]] = body[m]
  BY <1>1 DEF SnapshotsOK, Snapshotted, SerialOK, Reading
<1> QED
  BY <1>2, <1>3

LEMMA IncrementStep ==
    ASSUME Typed, SerialOK, JsonNumbers, [Next]_vars,
           NEW e \in Editors, pc[e] = "update", pc'[e] = "publish"
    PROVE  editCount'[editing[e]] = editCount[editing[e]] + 1
<1> USE DEF message, snapshots, edit, promote, bus, vars
<1>1. PICK f \in Editors : EditMessage(f)
  BY DEF Next, Crash, Tick, PromoteToThread, GetToPromote, SetThreadRoot, PublishPromoted,
         FailPromote
<1>2. ASSUME f # e PROVE pc'[e] = pc[e]
  <2>1. CASE FailEdit(f)
    BY <2>1, <1>2 DEF FailEdit, EndEdit, Typed, TypeOK
  <2> QED
    BY <1>1, <1>2, <2>1
    DEF EditMessage, GetMessage, CheckEditWindow, SkipWindowCheck, CreateEditHistory,
        LinkEditHistory, UpdateMessage, PublishEdited, EndEdit, Typed, TypeOK
<1>3. f = e
  BY <1>2
<1>4. UpdateMessage(e)
  <2>1. pc \in [Editors -> {"idle", "check", "snapshot", "link", "update", "publish"}]
    BY DEF Typed, TypeOK
  <2>2. ~FailEdit(e)
    BY <2>1 DEF FailEdit, EndEdit
  <2> QED
    BY <1>1, <1>3, <2>2
    DEF EditMessage, GetMessage, CheckEditWindow, SkipWindowCheck, CreateEditHistory,
        LinkEditHistory, PublishEdited
<1> QED
  BY <1>4, CountWritten DEF UpdateMessage, Overwrite, SerialOK, Reading, Typed, TypeOK, LocalsOK

-----------------------------------------------------------------------------
(* Theorems *)

EditInv == Typed /\ SnapshotsOK /\ CountOK /\ EventsOK

LEMMA EditInvariant == Spec => []EditInv
<1>1. Init => EditInv
  BY TypedInit, SnapshotsInit, CountInit, EventsInit DEF EditInv
<1>2. EditInv /\ [Next]_vars => EditInv'
  BY TypedStep, SnapshotsStep, CountStep, EventsStep DEF EditInv
<1> QED
  BY <1>1, <1>2, PTL DEF Spec

\* The types are those of the handlers' variables and of the stored properties,
\* whatever the editors and promoters do.
THEOREM TypeCorrect == Spec => []TypeOK
  BY EditInvariant, PTL DEF EditInv, Typed

\* However edits overlap, fail or are cut short, edit_count never runs ahead of
\* the EditHistories linked to the message.
THEOREM EveryCountIsRecorded == Spec => []EditCountRecorded
<1>1. EditInv => EditCountRecorded
  BY DEF EditInv, CountOK, EditCountRecorded, Edits
<1> QED
  BY <1>1, EditInvariant, PTL

\* comm.message.edited and comm.thread.promoted are published after the write
\* they announce, and no later step takes that write back.
THEOREM EventsFollow == Spec => []EventsFollowWrites
<1>1. EditInv => EventsFollowWrites
  BY DEF EditInv, EventsOK
<1> QED
  BY <1>1, EditInvariant, PTL

\* An edit that read the message before it was promoted leaves it a thread root.
THEOREM PromotionIsFinal == Spec => PromotionSticks
<1>1. EditInv /\ [Next]_vars =>
         [\A m \in Messages : isThreadRoot[m] => isThreadRoot'[m]]_vars
  BY MarksStay DEF EditInv
<1> QED
  BY <1>1, EditInvariant, PTL DEF Spec, PromotionSticks

\* While no two edits of one message overlap, a body is overwritten only once
\* a linked EditHistory holds it; edit_lost_body shows that overlap breaks this.
THEOREM TrailKept == Spec => EditTrailComplete
<1>1. Init => (serial => SerialOK)
  BY SerialInit
<1>2. EditInv /\ (serial => SerialOK) /\ [Next]_vars => (serial => SerialOK)'
  BY SerialStep, WorldStays DEF EditInv
<1>3. EditInv /\ (serial => SerialOK) /\ [Next]_vars => [serial => OverwrittenBodiesKept]_vars
  BY TrailStep DEF EditInv, OverwrittenBodiesKept
<1> QED
  BY <1>1, <1>2, <1>3, EditInvariant, PTL DEF Spec, EditTrailComplete

\* While no two edits of one message overlap, each edit that lands adds one to
\* the count that is stored, not to one it read before another edit, where the
\* store reads numbers back as float64.
THEOREM EveryEditCounts == Spec => EditCountIncremented
<1>1. Init => (serial => SerialOK)
  BY SerialInit
<1>2. EditInv /\ (serial => SerialOK) /\ [Next]_vars => (serial => SerialOK)'
  BY SerialStep, WorldStays DEF EditInv
<1>3. EditInv /\ (serial => SerialOK) /\ [Next]_vars =>
         [\A e \in Editors :
             serial /\ JsonNumbers /\ pc[e] = "update" /\ pc'[e] = "publish" =>
                 editCount'[editing[e]] = editCount[editing[e]] + 1]_vars
  BY IncrementStep DEF EditInv
<1> QED
  BY <1>1, <1>2, <1>3, EditInvariant, PTL DEF Spec, EditCountIncremented

\* Where the store makes the inverse of every has_message edge, and while the
\* owning channel can be read, every body that changes is changed by a request
\* that came in within the edit window of the channel that holds the message;
\* edit_fail_open shows that a channel that cannot be read breaks this.
THEOREM WindowRespected == Spec => EditsRespectWindow
<1>1. Init => (readable /\ InverseEdges => WindowOK)
  BY WindowInit
<1>2. EditInv /\ (readable /\ InverseEdges => WindowOK) /\ [Next]_vars => (readable /\ InverseEdges => WindowOK)'
  BY WindowStep, WorldStays DEF EditInv
<1>3. EditInv /\ (readable /\ InverseEdges => WindowOK) /\ [Next]_vars => [readable /\ InverseEdges => WrittenInWindow]_vars
  <2> SUFFICES ASSUME EditInv, WindowOK, [Next]_vars, NEW m \in Messages, body'[m] # body[m]
               PROVE  \E e \in Editors :
                         /\ pc[e] = "update" /\ editing[e] = m
                         /\ ~WindowClosed(editWindow[m], startedAt[e])
    BY DEF WrittenInWindow
  <2>1. PICK e \in Editors : pc[e] = "update" /\ editing[e] = m
    BY BodyWrites DEF EditInv
  <2> QED
    BY <2>1 DEF WindowOK
<1> QED
  BY <1>1, <1>2, <1>3, EditInvariant, PTL DEF Spec, EditsRespectWindow

\* When no two edits of one message overlap, every EditHistory beyond
\* edit_count is that of the edit under way, or is accounted for by a store
\* error or a crash, however many there were.
THEOREM SparesExplained == Spec => []SpareSnapshotsExplained
<1>1. Init => (serial => SerialOK /\ (JsonNumbers => SpareOK))
  BY SerialInit, SpareInit
<1>2. EditInv /\ (serial => SerialOK /\ (JsonNumbers => SpareOK)) /\ [Next]_vars =>
         (serial => SerialOK /\ (JsonNumbers => SpareOK))'
  BY SerialStep, SpareStep, WorldStays DEF EditInv
<1>3. (serial => SerialOK /\ (JsonNumbers => SpareOK)) => SpareSnapshotsExplained
  BY DEF SpareOK, SpareSnapshotsExplained, Edits, Updating
<1> QED
  BY <1>1, <1>2, <1>3, EditInvariant, PTL DEF Spec
=============================================================================
