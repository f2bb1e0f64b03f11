------------------------- MODULE WorkflowRunRollback -------------------------
(***************************************************************************)
(* The rollback leg of the service (src/workflow_run_rollback.go) running  *)
(* beside SendMessage (src/internal/httphandler/handler_messages.go).      *)
(*                                                                         *)
(* A rollback call lists the messages tagged with a run, finds the channel *)
(* that owns each of them, and posts one notification into every channel   *)
(* that holds none yet.  Nothing is locked and nothing is transactional:   *)
(* every store call is a step of its own, may fail, and may fail after it  *)
(* took effect; the process may crash between any two of them.             *)
(***************************************************************************)
EXTENDS Naturals, Sequences, FiniteSets

CONSTANTS
    Callers,      \* clients of the RollbackByWorkflowRun RPC
    Senders,      \* clients of POST /channels/{id}/messages
    Channels,     \* Channel ids
    Runs,         \* non-empty workflow_run_ids
    Messages,     \* ids the entity store can hand out for Message entities
    NoRun,        \* the empty workflow_run_id
    NoChannel,    \* "": no owning channel
    NoMessage,
    Serial,       \* the caller waits for its answer before it retries a run
    ReliableBus,  \* no published event is lost
    MaxSends,     \* bound: messages sent by users
    MaxFaults     \* bound: store errors and crashes

ASSUME ConstantsAssumption ==
    /\ NoRun \notin Runs
    /\ NoChannel \notin Channels
    /\ NoMessage \notin Messages
    /\ Serial \in BOOLEAN
    /\ ReliableBus \in BOOLEAN
    /\ MaxSends \in Nat
    /\ MaxFaults \in Nat

VARIABLES
    kind,           \* of every Message id: not created yet, a user's, a notification
    workflowRunID,  \* the Message's workflow_run_id
    owner,          \* the source of its has_message edge
    events,         \* comm.pipeline.rolled_back events delivered to the bus
    sent            \* messages whose comm.message.sent event was delivered

VARIABLES           \* the RollbackByWorkflowRun call of each caller
    pc,
    run,
    due,            \* history: the closure at the moment it was listed
    unresolved,     \* listed, owning channel not looked up yet
    order,          \* found in the closure, not handled yet
    alreadyNotified,
    target,         \* the channel being notified, and its notification
    posting,
    notifiedChannelIDs,
    notificationMessageIDs,
    skippedChannelIDs

VARIABLES           \* the SendMessage request of each sender
    sendPc,
    sendChannel,
    sending

VARIABLE faults     \* store errors and crashes so far

store == <<kind, workflowRunID, owner>>
bus == <<events, sent>>
partition == <<due, unresolved, order, alreadyNotified>>
post == <<target, posting>>
answer == <<notifiedChannelIDs, notificationMessageIDs, skippedChannelIDs>>
call == <<pc, run, partition, post, answer>>
send == <<sendPc, sendChannel, sending>>
vars == <<store, bus, call, send, faults>>

EventType == [channel : Channels, message : Messages, run : Runs]

TypeOK ==
    /\ kind \in [Messages -> {"absent", "user", "notification"}]
    /\ workflowRunID \in [Messages -> Runs \cup {NoRun}]
    /\ owner \in [Messages -> Channels \cup {NoChannel}]
    /\ events \subseteq EventType
    /\ sent \subseteq Messages
    /\ pc \in [Callers -> {"idle", "list", "partition", "notify", "link",
                           "publish", "returned", "failed"}]
    /\ run \in [Callers -> Runs \cup {NoRun}]
    /\ due \in [Callers -> SUBSET Channels]
    /\ unresolved \in [Callers -> SUBSET Messages]
    /\ order \in [Callers -> SUBSET Channels]
    /\ alreadyNotified \in [Callers -> SUBSET Channels]
    /\ target \in [Callers -> Channels \cup {NoChannel}]
    /\ posting \in [Callers -> Messages \cup {NoMessage}]
    /\ notifiedChannelIDs \in [Callers -> Seq(Channels)]
    /\ notificationMessageIDs \in [Callers -> Seq(Messages)]
    /\ skippedChannelIDs \in [Callers -> Seq(Channels)]
    /\ sendPc \in [Senders -> {"idle", "link", "publish"}]
    /\ sendChannel \in [Senders -> Channels \cup {NoChannel}]
    /\ sending \in [Senders -> Messages \cup {NoMessage}]
    /\ faults \in Nat

Init ==
    /\ kind = [m \in Messages |-> "absent"]
    /\ workflowRunID = [m \in Messages |-> NoRun]
    /\ owner = [m \in Messages |-> NoChannel]
    /\ events = {}
    /\ sent = {}
    /\ pc = [c \in Callers |-> "idle"]
    /\ run = [c \in Callers |-> NoRun]
    /\ due = [c \in Callers |-> {}]
    /\ unresolved = [c \in Callers |-> {}]
    /\ order = [c \in Callers |-> {}]
    /\ alreadyNotified = [c \in Callers |-> {}]
    /\ target = [c \in Callers |-> NoChannel]
    /\ posting = [c \in Callers |-> NoMessage]
    /\ notifiedChannelIDs = [c \in Callers |-> <<>>]
    /\ notificationMessageIDs = [c \in Callers |-> <<>>]
    /\ skippedChannelIDs = [c \in Callers |-> <<>>]
    /\ sendPc = [s \in Senders |-> "idle"]
    /\ sendChannel = [s \in Senders |-> NoChannel]
    /\ sending = [s \in Senders |-> NoMessage]
    /\ faults = 0

-----------------------------------------------------------------------------
Fresh(m) == kind[m] = "absent"

\* Faulty: the listing is not filtered by workflow_run_id.
UnfilteredTagged(m, r) == kind[m] # "absent"

Tagged(m, r) == kind[m] # "absent" /\ workflowRunID[m] = r

\* Message m is a user's message of run r that channel ch holds.
Holds(ch, m, r) ==
    kind[m] = "user" /\ workflowRunID[m] = r /\ owner[m] = ch

\* Message m is the rollback notification of run r that channel ch holds.
Notice(m, r, ch) ==
    kind[m] = "notification" /\ workflowRunID[m] = r /\ owner[m] = ch

InFlight(c) == pc[c] \in {"list", "partition", "notify", "link", "publish"}

\* The store creates Message m, owned by no channel yet.
Create(m, k, r) ==
    /\ Fresh(m)
    /\ kind' = [kind EXCEPT ![m] = k]
    /\ workflowRunID' = [workflowRunID EXCEPT ![m] = r]
    /\ owner' = [owner EXCEPT ![m] = NoChannel]

\* Faulty: an error of CreateRelationship is ignored.
LinkOrNot(ch, m) ==
    /\ owner' \in {owner, [owner EXCEPT ![m] = ch]}
    /\ UNCHANGED <<kind, workflowRunID>>

\* The store creates the has_message edge from channel ch to message m.
Link(ch, m) ==
    /\ owner' = [owner EXCEPT ![m] = ch]
    /\ UNCHANGED <<kind, workflowRunID>>

\* The call ends: its local variables are gone, its answer stays.
Finish(c, outcome) ==
    /\ pc' = [pc EXCEPT ![c] = outcome]
    /\ unresolved' = [unresolved EXCEPT ![c] = {}]
    /\ order' = [order EXCEPT ![c] = {}]
    /\ alreadyNotified' = [alreadyNotified EXCEPT ![c] = {}]
    /\ target' = [target EXCEPT ![c] = NoChannel]
    /\ posting' = [posting EXCEPT ![c] = NoMessage]
    /\ UNCHANGED <<run, due, answer>>

-----------------------------------------------------------------------------
(* RollbackByWorkflowRun.  A definition called faulty is used by no step: it   *)
(* is a bug in place of the one that follows it.                               *)

\* Faulty: "" passes for an owning channel.
AnyOwner(m) == {owner[m]}

OwningChannel(m) == {owner[m]} \ {NoChannel}

\* Faulty: every message of the run passes for a notification.
EveryMessage(m) == TRUE

IsRollbackNotification(m) == kind[m] = "notification"

\* Faulty: a break where the loop continues.
BreakAtOrphan(c, m) == IF owner[m] = NoChannel THEN {} ELSE unresolved[c] \ {m}

\* Faulty: an orphan is looked up until somebody gives it a channel.
RetryOrphan(c, m) == IF owner[m] = NoChannel THEN unresolved[c] ELSE unresolved[c] \ {m}

\* What is left to look up after m.
Rest(c, m) == unresolved[c] \ {m}

\* Faulty: nobody looks for notifications.
EveryChannel(c) == order[c]

Unnotified(c) == order[c] \ alreadyNotified[c]

Open(c, r, at) ==
    /\ ~InFlight(c)
    /\ pc' = [pc EXCEPT ![c] = at]
    /\ run' = [run EXCEPT ![c] = r]
    /\ due' = [due EXCEPT ![c] = {}]
    /\ unresolved' = [unresolved EXCEPT ![c] = {}]
    /\ order' = [order EXCEPT ![c] = {}]
    /\ alreadyNotified' = [alreadyNotified EXCEPT ![c] = {}]
    /\ notifiedChannelIDs' = [notifiedChannelIDs EXCEPT ![c] = <<>>]
    /\ notificationMessageIDs' = [notificationMessageIDs EXCEPT ![c] = <<>>]
    /\ skippedChannelIDs' = [skippedChannelIDs EXCEPT ![c] = <<>>]
    /\ UNCHANGED <<store, bus, post, send, faults>>

Begin(c, r) ==
    /\ Serial => \A d \in Callers : InFlight(d) => run[d] # r
    /\ Open(c, r, "list")

\* ErrWorkflowRunIDRequired: an empty run id reads and writes nothing.
RejectEmptyRun(c) == Open(c, NoRun, "failed")

ListMessages(c) ==
    LET listed == {m \in Messages : Tagged(m, run[c])} IN
    /\ pc[c] = "list"
    /\ pc' = [pc EXCEPT ![c] = "partition"]
    /\ unresolved' = [unresolved EXCEPT ![c] = listed]
    /\ due' = [due EXCEPT ![c] = {ch \in Channels : \E m \in listed : owner[m] = ch}]
    /\ UNCHANGED <<store, bus, run, order, alreadyNotified, post, answer, send, faults>>

\* resolveOwningChannel for one listed message, then the rest of the loop body.
\* The store promises no listing order, so any listed message may come next.
ResolveOwningChannel(c, m) ==
    /\ pc[c] = "partition"
    /\ m \in unresolved[c]
    /\ unresolved' = [unresolved EXCEPT ![c] = Rest(c, m)]
    /\ order' = [order EXCEPT ![c] = @ \cup OwningChannel(m)]
    /\ alreadyNotified' = [alreadyNotified EXCEPT ![c] =
          @ \cup IF IsRollbackNotification(m) THEN OwningChannel(m) ELSE {}]
    /\ UNCHANGED <<store, bus, pc, run, due, post, answer, send, faults>>

StartNotifying(c) ==
    /\ pc[c] = "partition"
    /\ unresolved[c] = {}
    /\ pc' = [pc EXCEPT ![c] = "notify"]
    /\ UNCHANGED <<store, bus, run, partition, post, answer, send, faults>>

SkipChannel(c, ch) ==
    /\ pc[c] = "notify"
    /\ ch \in order[c] \cap alreadyNotified[c]
    /\ order' = [order EXCEPT ![c] = @ \ {ch}]
    /\ skippedChannelIDs' = [skippedChannelIDs EXCEPT ![c] = Append(@, ch)]
    /\ UNCHANGED <<store, bus, pc, run, due, unresolved, alreadyNotified, post,
                   notifiedChannelIDs, notificationMessageIDs, send, faults>>

\* postRollbackNotification: the Message first, its has_message edge second.
CreateNotification(c, ch, m) ==
    /\ pc[c] = "notify"
    /\ ch \in Unnotified(c)
    /\ Create(m, "notification", run[c])
    /\ pc' = [pc EXCEPT ![c] = "link"]
    /\ target' = [target EXCEPT ![c] = ch]
    /\ posting' = [posting EXCEPT ![c] = m]
    /\ UNCHANGED <<bus, run, partition, answer, send, faults>>

LinkNotification(c) ==
    /\ pc[c] = "link"
    /\ Link(target[c], posting[c])
    /\ pc' = [pc EXCEPT ![c] = "publish"]
    /\ order' = [order EXCEPT ![c] = @ \ {target[c]}]
    /\ notifiedChannelIDs' = [notifiedChannelIDs EXCEPT ![c] = Append(@, target[c])]
    /\ notificationMessageIDs' =
          [notificationMessageIDs EXCEPT ![c] = Append(@, posting[c])]
    /\ UNCHANGED <<bus, run, due, unresolved, alreadyNotified, post,
                   skippedChannelIDs, send, faults>>

\* SafePublish swallows a publish error; a nil publisher drops the event.
PublishRolledBack(c) ==
    /\ pc[c] = "publish"
    /\ \/ events' = events \cup
                 {[channel |-> target[c], message |-> posting[c], run |-> run[c]]}
       \/ ~ReliableBus /\ events' = events
    /\ pc' = [pc EXCEPT ![c] = "notify"]
    /\ target' = [target EXCEPT ![c] = NoChannel]
    /\ posting' = [posting EXCEPT ![c] = NoMessage]
    /\ UNCHANGED <<store, sent, run, partition, answer, send, faults>>

\* Faulty: the event goes out in a goroutine that nobody waits for.
ReturnUnannounced(c) ==
    /\ pc[c] \in {"notify", "publish"}
    /\ order[c] = {}
    /\ Finish(c, "returned")
    /\ UNCHANGED <<store, bus, send, faults>>

Return(c) ==
    /\ pc[c] = "notify"
    /\ order[c] = {}
    /\ Finish(c, "returned")
    /\ UNCHANGED <<store, bus, send, faults>>

-----------------------------------------------------------------------------
(* Store errors: the call ends there.  A failed write may have taken effect. *)

Fault ==
    /\ faults < MaxFaults
    /\ faults' = faults + 1

FailRead(c) ==
    /\ Fault
    /\ \/ pc[c] = "list"
       \/ pc[c] = "partition" /\ unresolved[c] # {}
    /\ Finish(c, "failed")
    /\ UNCHANGED <<store, bus, send>>

FailCreateNotification(c) ==
    /\ Fault
    /\ pc[c] = "notify"
    /\ Unnotified(c) # {}
    /\ \/ UNCHANGED store
       \/ \E m \in Messages : Create(m, "notification", run[c])
    /\ Finish(c, "failed")
    /\ UNCHANGED <<bus, send>>

FailLinkNotification(c) ==
    /\ Fault
    /\ pc[c] = "link"
    /\ UNCHANGED store \/ Link(target[c], posting[c])
    /\ Finish(c, "failed")
    /\ UNCHANGED <<bus, send>>

-----------------------------------------------------------------------------
(* SendMessage, the other writer of has_message edges. *)

EndSend(s) ==
    /\ sendPc' = [sendPc EXCEPT ![s] = "idle"]
    /\ sendChannel' = [sendChannel EXCEPT ![s] = NoChannel]
    /\ sending' = [sending EXCEPT ![s] = NoMessage]

CreateMessage(s, ch, r, m) ==
    /\ sendPc[s] = "idle"
    /\ Cardinality({n \in Messages : kind[n] = "user"}) < MaxSends
    /\ Create(m, "user", r)
    /\ sendPc' = [sendPc EXCEPT ![s] = "link"]
    /\ sendChannel' = [sendChannel EXCEPT ![s] = ch]
    /\ sending' = [sending EXCEPT ![s] = m]
    /\ UNCHANGED <<bus, call, faults>>

LinkMessage(s) ==
    /\ sendPc[s] = "link"
    /\ Link(sendChannel[s], sending[s])
    /\ sendPc' = [sendPc EXCEPT ![s] = "publish"]
    /\ UNCHANGED <<bus, call, sendChannel, sending, faults>>

PublishSent(s) ==
    /\ sendPc[s] = "publish"
    /\ \/ sent' = sent \cup {sending[s]}
       \/ ~ReliableBus /\ sent' = sent
    /\ EndSend(s)
    /\ UNCHANGED <<store, events, call, faults>>

FailCreateMessage(s) ==
    /\ Fault
    /\ sendPc[s] = "idle"
    /\ Cardinality({n \in Messages : kind[n] = "user"}) < MaxSends
    /\ \E r \in Runs \cup {NoRun}, m \in Messages : Create(m, "user", r)
    /\ UNCHANGED <<bus, call, send>>

FailLinkMessage(s) ==
    /\ Fault
    /\ sendPc[s] = "link"
    /\ UNCHANGED store \/ Link(sendChannel[s], sending[s])
    /\ EndSend(s)
    /\ UNCHANGED <<bus, call>>

\* The process dies: what it was doing is forgotten, what it stored stays.
Crash ==
    /\ Fault
    /\ pc' = [c \in Callers |-> IF InFlight(c) THEN "failed" ELSE pc[c]]
    /\ unresolved' = [c \in Callers |-> {}]
    /\ order' = [c \in Callers |-> {}]
    /\ alreadyNotified' = [c \in Callers |-> {}]
    /\ target' = [c \in Callers |-> NoChannel]
    /\ posting' = [c \in Callers |-> NoMessage]
    /\ sendPc' = [s \in Senders |-> "idle"]
    /\ sendChannel' = [s \in Senders |-> NoChannel]
    /\ sending' = [s \in Senders |-> NoMessage]
    /\ UNCHANGED <<store, bus, run, due, answer>>

-----------------------------------------------------------------------------
Rollback(c) ==
    \/ ListMessages(c)
    \/ \E m \in Messages : ResolveOwningChannel(c, m)
    \/ StartNotifying(c)
    \/ \E ch \in Channels : SkipChannel(c, ch)
    \/ \E ch \in Channels, m \in Messages : CreateNotification(c, ch, m)
    \/ LinkNotification(c)
    \/ PublishRolledBack(c)
    \/ Return(c)

FailRollback(c) ==
    \/ FailRead(c)
    \/ FailCreateNotification(c)
    \/ FailLinkNotification(c)

SendMessage(s) ==
    \/ \E ch \in Channels, r \in Runs \cup {NoRun}, m \in Messages :
          CreateMessage(s, ch, r, m)
    \/ LinkMessage(s)
    \/ PublishSent(s)
    \/ FailCreateMessage(s)
    \/ FailLinkMessage(s)

Next ==
    \/ \E c \in Callers, r \in Runs : Begin(c, r)
    \/ \E c \in Callers : RejectEmptyRun(c) \/ Rollback(c) \/ FailRollback(c)
    \/ \E s \in Senders : SendMessage(s)
    \/ Crash

Spec == Init /\ [][Next]_vars

\* The coordinator's retry-after-rollback_failed: a caller whose call failed, or
\* died with the process, asks again for the same run.
Retry(c) ==
    /\ pc[c] = "failed"
    /\ \E r \in Runs : run[c] = r /\ Begin(c, r)

(***************************************************************************)
(* A call that started keeps running (its goroutine is scheduled), and a   *)
(* caller whose call failed retries it.  Nobody asks again after a success.*)
(***************************************************************************)
Fairness ==
    \A c \in Callers : WF_vars(Rollback(c)) /\ WF_vars(Retry(c))

FairSpec == Spec /\ Fairness

-----------------------------------------------------------------------------
(* Properties *)

Slice(seq) == {seq[i] : i \in 1..Len(seq)}

\* The channels an answer accounts for, in one slice or the other.
Accounted(c) == Slice(notifiedChannelIDs[c]) \cup Slice(skippedChannelIDs[c])

\* "A single follow-up notification Message is posted into the channel": no
\* channel ever holds two notifications of one run, whatever store errors,
\* crashes and retries there are (RollbackByWorkflowRun skips alreadyNotified).
AtMostOneNotification ==
    \A r \in Runs, ch \in Channels, m, n \in Messages :
        Notice(m, r, ch) /\ Notice(n, r, ch) => m = n

NoRepeats(seq) == \A i, j \in 1..Len(seq) : seq[i] = seq[j] => i = j

\* NotifiedChannelIDs and NotificationMessageIDs are aligned 1:1 and name
\* messages really held by those channels; a skipped channel really holds a
\* notification of the run; no channel is named twice.  This is so of the
\* partial answer of a failed call, too.
AnswerMatches(c) ==
    LET notified == notifiedChannelIDs[c]
        ids == notificationMessageIDs[c]
        skipped == skippedChannelIDs[c]
    IN
    /\ Len(ids) = Len(notified)
    /\ \A i \in 1..Len(notified) : Notice(ids[i], run[c], notified[i])
    /\ \A ch \in Slice(skipped) : \E m \in Messages : Notice(m, run[c], ch)
    /\ NoRepeats(notified) /\ NoRepeats(skipped)
    /\ Slice(notified) \cap Slice(skipped) = {}

AnswerMatchesStore == \A c \in Callers : AnswerMatches(c)

\* A call that returns without an error accounts, in one slice or the other,
\* for every channel that held a message of the run when it listed them.
ClosureAccountedFor ==
    \A c \in Callers : pc[c] = "returned" => due[c] \subseteq Accounted(c)

\* A channel is told of a rollback only if a user's message of that run is in
\* it: an orphan, or the notifications themselves, bring no channel into the
\* closure.
OnlyClosureNotified ==
    \A r \in Runs, ch \in Channels, m \in Messages :
        Notice(m, r, ch) => \E n \in Messages : Holds(ch, n, r)

\* Every event delivered names a message its subscriber finds in its channel:
\* comm.pipeline.rolled_back follows the has_message edge of its notification,
\* comm.message.sent that of the message.
EventsFollowLinks ==
    /\ \A e \in events : Notice(e.message, e.run, e.channel)
    /\ \A m \in sent : kind[m] = "user" /\ owner[m] # NoChannel

\* "Fires once per channel that received a rollback notification": when a call
\* has returned, every channel it accounts for has had its event.
NotifiedChannelsAnnounced ==
    \A c \in Callers : pc[c] = "returned" =>
        \A ch \in Accounted(c) : \E e \in events : e.channel = ch /\ e.run = run[c]

\* So it is of the channels a call has notified itself, if the bus loses
\* nothing: every notification an answer names has had its event.  Those that
\* an earlier call posted and could not announce are only skipped.
NamedNotificationsAnnounced ==
    ReliableBus => \A c \in Callers : pc[c] = "returned" =>
        \A i \in 1..Len(notifiedChannelIDs[c]) :
            [channel |-> notifiedChannelIDs[c][i], message |-> notificationMessageIDs[c][i],
             run |-> run[c]] \in events

\* "Every channel that holds at least one Message tagged with workflow_run_id
\* appears in exactly one of the two slices", at the moment the call returns.
EveryHolderInASlice ==
    [][\A c \in Callers, ch \in Channels :
          /\ pc[c] = "notify" /\ pc'[c] = "returned"
          /\ \E m \in Messages : Tagged(m, run[c]) /\ owner[m] = ch
          => ch \in Accounted(c)]_vars

\* The two loops of a call end: no call stays in flight for ever.
CallsEnd == \A c \in Callers : InFlight(c) ~> ~InFlight(c)

\* A caller that retries a failed call, and only a failed one, reaches every
\* channel that was in the closure when the call was asked for or failed, over
\* store errors and crashes at any point, unless it turns to another run.  A
\* channel that joins behind the listing of a call that succeeds is not reached.
ClosureEventuallyNotified ==
    \A c \in Callers, r \in Runs, ch \in Channels :
        (run[c] = r /\ pc[c] \in {"list", "failed"} /\ \E n \in Messages : Holds(ch, n, r))
            ~> (run[c] # r \/ \E m \in Messages : Notice(m, r, ch))

-----------------------------------------------------------------------------
(* The rollback leg implements what it promises. *)

Closure == [r \in Runs |-> {ch \in Channels : \E n \in Messages : Holds(ch, n, r)}]

Posted == [r \in Runs |-> [ch \in Channels |-> {m \in Messages : Notice(m, r, ch)}]]

Phase(c) ==
    CASE pc[c] \in {"idle", "failed"} -> "none"
      [] pc[c] = "list" -> "asked"
      [] pc[c] \in {"partition", "notify", "link", "publish"} -> "listed"
      [] pc[c] = "returned" -> "answered"

Asked ==
    [c \in Callers |->
        [phase |-> Phase(c),
         run |-> IF Phase(c) = "none" THEN NoRun ELSE run[c],
         listed |-> IF Phase(c) \in {"listed", "answered"} THEN due[c] ELSE {},
         claimed |-> IF Phase(c) = "answered" THEN Accounted(c) ELSE {}]]

Promise == INSTANCE RollbackPromise
    WITH closure <- Closure, notices <- Posted, announced <- events, asked <- Asked,
         OneAtATime <- Serial

\* The rollback leg implements RollbackPromise, whether or not its callers wait
\* for an answer before they retry: every step of it, of a store error or of a
\* crash is a step of the promise or a stutter.
ImplementsPromise == Promise!Spec
=============================================================================
