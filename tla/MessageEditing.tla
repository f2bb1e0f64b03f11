---------------------------- MODULE MessageEditing ----------------------------
(***************************************************************************)
(* Editing and promoting messages                                          *)
(* (src/internal/httphandler/handler_messages.go).                         *)
(*                                                                         *)
(* Both handlers read a message, decide, and write later: an edit takes    *)
(* five store calls with nothing held between them, so edits of one        *)
(* message overlap, a promotion slips in between, and an error or a crash  *)
(* leaves the calls made so far in the store.                              *)
(***************************************************************************)
EXTENDS Integers, FiniteSets

CONSTANTS
    Editors,         \* clients of PUT /messages/{id}
    Promoters,       \* clients of PUT /messages/{id}/promote
    Messages,
    Bodies,
    Histories,       \* ids the entity store can hand out for EditHistory
    Windows,         \* values of edit_window_seconds a channel may have
    Unset,           \* held by no channel, or by one without edit_window_seconds
    NoMessage, NoBody, NoHistory,
    InverseEdges,    \* with a has_message edge the store makes its inverse,
                     \* belongs_to_channel, which nothing in this service writes
    JsonNumbers,     \* the store reads every number back as a float64
    MaxTime,         \* bound: seconds since the messages were sent
    MaxFaults        \* bound: store errors and crashes

ASSUME EditingAssumption ==
    /\ Windows \subseteq Int
    /\ Unset \notin Int
    /\ NoMessage \notin Messages
    /\ NoBody \notin Bodies
    /\ NoHistory \notin Histories
    /\ IsFiniteSet(Histories)
    /\ InverseEdges \in BOOLEAN
    /\ JsonNumbers \in BOOLEAN
    /\ MaxTime \in Nat
    /\ MaxFaults \in Nat

VARIABLES           \* the world the handlers run in: it never changes
    editWindow,     \* edit_window_seconds of the channel that holds a message,
                    \* by the has_message edge of sendMessage
    serial,         \* clients see to it that no two edits of one message overlap
    readable        \* reading the owning channel never fails

VARIABLES
    body, edited, editCount, isThreadRoot,  \* properties of every Message
    previousBody, messageID,                \* properties of every EditHistory
    hasEdit,        \* the EditHistories linked to their message
    announced,      \* messages whose comm.message.edited was delivered
    threads,        \* messages whose comm.thread.promoted was delivered
    now,
    faults

VARIABLES           \* the request of each editor
    pc, editing, newBody, history,
    readBody, readCount,  \* the message as the request read it
    startedAt             \* history variable: when the request read it

VARIABLES promotePc, promoting  \* the request of each promoter

world == <<editWindow, serial, readable>>
message == <<body, edited, editCount, isThreadRoot>>
snapshots == <<previousBody, messageID, hasEdit>>
request == <<editing, newBody, readBody, readCount, startedAt>>
edit == <<pc, request, history>>
promote == <<promotePc, promoting>>
bus == <<announced, threads>>
vars == <<world, message, snapshots, bus, now, faults, edit, promote>>

TypeOK ==
    /\ editWindow \in [Messages -> Windows \cup {Unset}]
    /\ serial \in BOOLEAN /\ readable \in BOOLEAN
    /\ body \in [Messages -> Bodies]
    /\ edited \in [Messages -> BOOLEAN]
    /\ editCount \in [Messages -> Nat]
    /\ isThreadRoot \in [Messages -> BOOLEAN]
    /\ previousBody \in [Histories -> Bodies \cup {NoBody}]
    /\ messageID \in [Histories -> Messages \cup {NoMessage}]
    /\ hasEdit \subseteq Histories
    /\ announced \subseteq Messages
    /\ threads \subseteq Messages
    /\ now \in Nat
    /\ faults \in Nat
    /\ pc \in [Editors -> {"idle", "check", "snapshot", "link", "update", "publish"}]
    /\ editing \in [Editors -> Messages \cup {NoMessage}]
    /\ newBody \in [Editors -> Bodies \cup {NoBody}]
    /\ history \in [Editors -> Histories \cup {NoHistory}]
    /\ readBody \in [Editors -> Bodies \cup {NoBody}]
    /\ readCount \in [Editors -> Nat]
    /\ startedAt \in [Editors -> Nat]
    /\ promotePc \in [Promoters -> {"idle", "update", "publish"}]
    /\ promoting \in [Promoters -> Messages \cup {NoMessage}]

\* Messages just sent by sendMessage, not edited yet: each is held by a channel
\* with a window of its own or none, or is an orphan whose has_message edge was
\* never made.
Init ==
    /\ editWindow \in [Messages -> Windows \cup {Unset}]
    /\ serial \in BOOLEAN /\ readable \in BOOLEAN
    /\ body \in [Messages -> Bodies]
    /\ edited = [m \in Messages |-> FALSE]
    /\ editCount = [m \in Messages |-> 0]
    /\ isThreadRoot = [m \in Messages |-> FALSE]
    /\ previousBody = [h \in Histories |-> NoBody]
    /\ messageID = [h \in Histories |-> NoMessage]
    /\ hasEdit = {}
    /\ announced = {}
    /\ threads = {}
    /\ now = 0
    /\ faults = 0
    /\ pc = [e \in Editors |-> "idle"]
    /\ editing = [e \in Editors |-> NoMessage]
    /\ newBody = [e \in Editors |-> NoBody]
    /\ history = [e \in Editors |-> NoHistory]
    /\ readBody = [e \in Editors |-> NoBody]
    /\ readCount = [e \in Editors |-> 0]
    /\ startedAt = [e \in Editors |-> 0]
    /\ promotePc = [p \in Promoters |-> "idle"]
    /\ promoting = [p \in Promoters |-> NoMessage]

-----------------------------------------------------------------------------
\* checkEditWindow: 0 disables editing, a negative window always allows it, a
\* positive one is the number of seconds since created_at.
WindowClosed(w, age) == w # Unset /\ (w = 0 \/ (w > 0 /\ age > w))

\* Faulty: an EditHistory is written under an id that is taken.
AnyId(h) == TRUE

Unused(h) == messageID[h] = NoMessage

\* The EditHistories of message m that its has_edit edges lead to.
Linked(m) == {h \in hasEdit : messageID[h] = m}

Snapshot(h, m, b) ==
    /\ Unused(h)
    /\ previousBody' = [previousBody EXCEPT ![h] = b]
    /\ messageID' = [messageID EXCEPT ![h] = m]
    /\ UNCHANGED hasEdit

\* Faulty: the whole message is written back as it was read, not the keys edited.
OverwriteWhole(m, b, count) ==
    /\ body' = [body EXCEPT ![m] = b]
    /\ edited' = [edited EXCEPT ![m] = TRUE]
    /\ editCount' = [editCount EXCEPT ![m] = count]
    /\ isThreadRoot' = [isThreadRoot EXCEPT ![m] = FALSE]

\* Faulty: the update leaves out the key "edited".
OverwriteUnflagged(m, b, count) ==
    /\ body' = [body EXCEPT ![m] = b]
    /\ editCount' = [editCount EXCEPT ![m] = count]
    /\ UNCHANGED <<edited, isThreadRoot>>

\* The merge of an UpdateEntity call into message m: the keys of the request.
Overwrite(m, b, count) ==
    /\ body' = [body EXCEPT ![m] = b]
    /\ edited' = [edited EXCEPT ![m] = TRUE]
    /\ editCount' = [editCount EXCEPT ![m] = count]
    /\ UNCHANGED isThreadRoot

EndEdit(e) ==
    /\ pc' = [pc EXCEPT ![e] = "idle"]
    /\ editing' = [editing EXCEPT ![e] = NoMessage]
    /\ newBody' = [newBody EXCEPT ![e] = NoBody]
    /\ history' = [history EXCEPT ![e] = NoHistory]
    /\ readBody' = [readBody EXCEPT ![e] = NoBody]
    /\ readCount' = [readCount EXCEPT ![e] = 0]
    /\ startedAt' = [startedAt EXCEPT ![e] = 0]

Fault ==
    /\ faults < MaxFaults
    /\ faults' = faults + 1

-----------------------------------------------------------------------------
(* editMessage *)

\* Faulty: the answer of checkEditWindow is dropped.
NeverRefused(e) == FALSE

\* The handler looks for the channel behind a belongs_to_channel edge.  Where
\* the store makes none, it finds no channel and refuses nothing.
Refused(e) == InverseEdges /\ WindowClosed(editWindow[editing[e]], now)

\* Faulty: the snapshot takes the body of the request.
BodyOfRequest(e) == newBody[e]

PreviousBody(e) == readBody[e]

\* Faulty: no has_edit edge is made.
NoEdge(e) == {}

\* Faulty: the edge leads to the message, not to its EditHistory.
EdgeToMessage(e) == {editing[e]}

\* What the new has_edit edge leads to.
EdgeTo(e) == {history[e]}

\* Faulty: the counter is written back as it was read.
SameCount(e) == readCount[e]

\* A count that is no float64 is taken for 0.
NextCount(e) == (IF JsonNumbers THEN readCount[e] ELSE 0) + 1

\* A request arrives and reads its message.
GetMessage(e, m, b) ==
    /\ pc[e] = "idle"
    /\ serial => \A f \in Editors : editing[f] # m
    /\ pc' = [pc EXCEPT ![e] = "check"]
    /\ editing' = [editing EXCEPT ![e] = m]
    /\ newBody' = [newBody EXCEPT ![e] = b]
    /\ readBody' = [readBody EXCEPT ![e] = body[m]]
    /\ readCount' = [readCount EXCEPT ![e] = editCount[m]]
    /\ startedAt' = [startedAt EXCEPT ![e] = now]
    /\ UNCHANGED <<world, message, snapshots, bus, now, faults, history, promote>>

CheckEditWindow(e) ==
    /\ pc[e] = "check"
    /\ \/ Refused(e) /\ EndEdit(e)
       \/ /\ ~Refused(e)
          /\ pc' = [pc EXCEPT ![e] = "snapshot"]
          /\ UNCHANGED <<request, history>>
    /\ UNCHANGED <<world, message, snapshots, bus, now, faults, promote>>

\* The channel cannot be read: the handler goes on without the check.
SkipWindowCheck(e) ==
    /\ ~readable
    /\ Fault
    /\ pc[e] = "check"
    /\ InverseEdges /\ editWindow[editing[e]] # Unset
    /\ pc' = [pc EXCEPT ![e] = "snapshot"]
    /\ UNCHANGED <<world, message, snapshots, bus, now, request, history, promote>>

CreateEditHistory(e, h) ==
    /\ pc[e] = "snapshot"
    /\ Snapshot(h, editing[e], PreviousBody(e))
    /\ pc' = [pc EXCEPT ![e] = "link"]
    /\ history' = [history EXCEPT ![e] = h]
    /\ UNCHANGED <<world, message, bus, now, faults, request, promote>>

LinkEditHistory(e) ==
    /\ pc[e] = "link"
    /\ hasEdit' = hasEdit \cup EdgeTo(e)
    /\ pc' = [pc EXCEPT ![e] = "update"]
    /\ UNCHANGED <<world, message, previousBody, messageID, bus, now, faults,
                   request, history, promote>>

UpdateMessage(e) ==
    /\ pc[e] = "update"
    /\ Overwrite(editing[e], newBody[e], NextCount(e))
    /\ pc' = [pc EXCEPT ![e] = "publish"]
    /\ UNCHANGED <<world, snapshots, bus, now, faults, request, history, promote>>

\* The publisher may lose the event; the answer is the same.
PublishEdited(e) ==
    /\ pc[e] = "publish"
    /\ announced' = announced \cup {editing[e]} \/ announced' = announced
    /\ EndEdit(e)
    /\ UNCHANGED <<world, message, snapshots, threads, now, faults, promote>>

\* A store error ends the request; a failed write may have taken effect.
FailEdit(e) ==
    /\ Fault
    /\ \/ pc[e] = "check" /\ UNCHANGED <<message, snapshots>>
       \/ /\ pc[e] = "snapshot"
          /\ \/ UNCHANGED snapshots
             \/ \E h \in Histories : Snapshot(h, editing[e], PreviousBody(e))
          /\ UNCHANGED message
       \/ /\ pc[e] = "link"
          /\ hasEdit' \in {hasEdit, hasEdit \cup EdgeTo(e)}
          /\ UNCHANGED <<message, previousBody, messageID>>
       \/ /\ pc[e] = "update"
          /\ \/ UNCHANGED message
             \/ Overwrite(editing[e], newBody[e], NextCount(e))
          /\ UNCHANGED snapshots
    /\ EndEdit(e)
    /\ UNCHANGED <<world, bus, now, promote>>

-----------------------------------------------------------------------------
(* promoteToThread *)

EndPromote(p) ==
    /\ promotePc' = [promotePc EXCEPT ![p] = "idle"]
    /\ promoting' = [promoting EXCEPT ![p] = NoMessage]

\* A message that is a thread root already is left alone.
GetToPromote(p, m) ==
    /\ promotePc[p] = "idle"
    /\ ~isThreadRoot[m]
    /\ promotePc' = [promotePc EXCEPT ![p] = "update"]
    /\ promoting' = [promoting EXCEPT ![p] = m]
    /\ UNCHANGED <<world, message, snapshots, bus, now, faults, edit>>

MarkThreadRoot(m) ==
    /\ isThreadRoot' = [isThreadRoot EXCEPT ![m] = TRUE]
    /\ UNCHANGED <<body, edited, editCount>>

SetThreadRoot(p) ==
    /\ promotePc[p] = "update"
    /\ MarkThreadRoot(promoting[p])
    /\ promotePc' = [promotePc EXCEPT ![p] = "publish"]
    /\ UNCHANGED <<world, snapshots, bus, now, faults, edit, promoting>>

PublishPromoted(p) ==
    /\ promotePc[p] = "publish"
    /\ threads' = threads \cup {promoting[p]} \/ threads' = threads
    /\ EndPromote(p)
    /\ UNCHANGED <<world, message, snapshots, announced, now, faults, edit>>

FailPromote(p) ==
    /\ Fault
    /\ promotePc[p] = "update"
    /\ UNCHANGED message \/ MarkThreadRoot(promoting[p])
    /\ EndPromote(p)
    /\ UNCHANGED <<world, snapshots, bus, now, edit>>

-----------------------------------------------------------------------------
Crash ==
    /\ Fault
    /\ pc' = [e \in Editors |-> "idle"]
    /\ editing' = [e \in Editors |-> NoMessage]
    /\ newBody' = [e \in Editors |-> NoBody]
    /\ history' = [e \in Editors |-> NoHistory]
    /\ readBody' = [e \in Editors |-> NoBody]
    /\ readCount' = [e \in Editors |-> 0]
    /\ startedAt' = [e \in Editors |-> 0]
    /\ promotePc' = [p \in Promoters |-> "idle"]
    /\ promoting' = [p \in Promoters |-> NoMessage]
    /\ UNCHANGED <<world, message, snapshots, bus, now>>

Tick ==
    /\ now < MaxTime
    /\ now' = now + 1
    /\ UNCHANGED <<world, message, snapshots, bus, faults, edit, promote>>

EditMessage(e) ==
    \/ \E m \in Messages, b \in Bodies : GetMessage(e, m, b)
    \/ CheckEditWindow(e)
    \/ SkipWindowCheck(e)
    \/ \E h \in Histories : CreateEditHistory(e, h)
    \/ LinkEditHistory(e)
    \/ UpdateMessage(e)
    \/ PublishEdited(e)
    \/ FailEdit(e)

PromoteToThread(p) ==
    \/ \E m \in Messages : GetToPromote(p, m)
    \/ SetThreadRoot(p)
    \/ PublishPromoted(p)
    \/ FailPromote(p)

Next ==
    \/ \E e \in Editors : EditMessage(e)
    \/ \E p \in Promoters : PromoteToThread(p)
    \/ Crash
    \/ Tick

Spec == Init /\ [][Next]_vars

-----------------------------------------------------------------------------
(* Properties *)

\* No edit is counted that left no snapshot behind: edit_count never exceeds
\* the number of EditHistories the message is linked to, whatever edits overlap,
\* fail or are cut short (LinkEditHistory comes before UpdateMessage).
EditCountRecorded ==
    \A m \in Messages : editCount[m] <= Cardinality(Linked(m))

\* No snapshot is left behind for nothing: as long as no two edits of one
\* message overlap, an EditHistory beyond edit_count is that of the edit under
\* way, or an earlier store error or crash accounts for it.  (Where the count is
\* read back as another type than float64, it starts again at 1 with each edit.)
SpareSnapshotsExplained ==
    serial /\ JsonNumbers => \A m \in Messages :
        Cardinality(Linked(m)) <=
            editCount[m] + faults
                + (IF \E e \in Editors : pc[e] = "update" /\ editing[e] = m THEN 1 ELSE 0)

\* An event never runs ahead of the store: who receives comm.message.edited
\* or comm.thread.promoted finds the message edited, or a thread root.
EventsFollowWrites ==
    /\ \A m \in announced : edited[m]
    /\ \A m \in threads : isThreadRoot[m]

\* A body is overwritten only once a linked EditHistory holds it.
OverwrittenBodiesKept ==
    \A m \in Messages :
        body'[m] # body[m] => \E h \in Linked(m) : previousBody[h] = body[m]

\* "Full audit trail": no body a message ever had is lost.
FullEditTrail == [][OverwrittenBodiesKept]_vars

\* No body is lost as long as no two edits of one message overlap, whatever
\* fails or is cut short.
EditTrailComplete == [][serial => OverwrittenBodiesKept]_vars

\* edit_count is "incremented on every edit" that lands, as long as no two
\* edits of one message overlap and numbers are read back as float64.
EditCountIncremented ==
    [][\A e \in Editors :
          serial /\ JsonNumbers /\ pc[e] = "update" /\ pc'[e] = "publish" =>
              editCount'[editing[e]] = editCount[editing[e]] + 1]_vars

\* A body changes only by an edit whose request came in while the edit window
\* of the channel that holds the message was open: never if editing is disabled there, and never by a
\* request that came in after the window closed.
WrittenInWindow ==
    \A m \in Messages :
        body'[m] # body[m] =>
            \E e \in Editors :
                /\ pc[e] = "update" /\ editing[e] = m
                /\ ~WindowClosed(editWindow[m], startedAt[e])

\* "0 = editing disabled": no edit lands outside the window.
NoEditOutOfWindow == [][WrittenInWindow]_vars

\* No edit lands outside the window of the channel that holds the message, as
\* long as the channel can be read and the store makes the inverse of every
\* has_message edge: the window is that of the channel a has_message edge comes
\* from, the handler follows belongs_to_channel.  Without the inverse edges every
\* message can be edited for ever.
EditsRespectWindow == [][readable /\ InverseEdges => WrittenInWindow]_vars

\* A thread root stays one: an edit that read the message before it was
\* promoted writes its own keys only.
PromotionSticks ==
    [][\A m \in Messages : isThreadRoot[m] => isThreadRoot'[m]]_vars

-----------------------------------------------------------------------------
(* The handlers implement what editing promises. *)

\* What a request that has not written its message yet stands for.
Requested ==
    [e \in Editors |->
        IF pc[e] \in {"check", "snapshot", "link", "update"}
        THEN [message |-> editing[e], body |-> newBody[e], recorded |-> pc[e] = "update"]
        ELSE [message |-> NoMessage, body |-> NoBody, recorded |-> FALSE]]

\* Only an EditHistory that its message is linked to is on record.
Recorded ==
    [m \in Messages |-> [h \in Linked(m) |-> previousBody[h]]]

Promise == INSTANCE EditPromise WITH requests <- Requested, trail <- Recorded

\* Every step of the two handlers, of a store error or of a crash is a step of
\* EditPromise or a stutter: five store calls that are neither atomic nor
\* undone look like one edit that landed once or not at all.
ImplementsPromise == Promise!Spec
=============================================================================
