---------------------- MODULE WorkflowRunRollbackProofs ----------------------
(***************************************************************************)
(* Proofs about WorkflowRunRollback for any callers, senders, channels,    *)
(* runs and messages, any number of sends and faults.                      *)
(***************************************************************************)
EXTENDS WorkflowRunRollback, TLAPS

USE DEF OwningChannel, IsRollbackNotification, Rest, Unnotified

(* Whoever is about to write an edge or an event holds both of its ends. *)
LocalsOK ==
    /\ \A c \in Callers : InFlight(c) => run[c] \in Runs
    /\ \A c \in Callers : pc[c] \in {"link", "publish"} =>
          target[c] \in Channels /\ posting[c] \in Messages
    /\ \A s \in Senders : sendPc[s] \in {"link", "publish"} =>
          sendChannel[s] \in Channels /\ sending[s] \in Messages

Typed == TypeOK /\ LocalsOK

StoreTyped ==
    /\ kind \in [Messages -> {"absent", "user", "notification"}]
    /\ workflowRunID \in [Messages -> Runs \cup {NoRun}]
    /\ owner \in [Messages -> Channels \cup {NoChannel}]

LEMMA TypedInit == Init => Typed
  BY ConstantsAssumption DEF Init, Typed, TypeOK, LocalsOK, InFlight

LEMMA TypedStep == Typed /\ [Next]_vars => Typed'
<1> SUFFICES ASSUME Typed, [Next]_vars PROVE Typed'
  OBVIOUS
<1> USE DEF store, bus, partition, post, answer, call, send, vars
<1>1. ASSUME NEW c \in Callers, NEW r \in Runs, Begin(c, r) PROVE Typed'
  BY <1>1 DEF Typed, TypeOK, LocalsOK, InFlight, Begin, Open
<1>2. ASSUME NEW c \in Callers, RejectEmptyRun(c) PROVE Typed'
  BY <1>2 DEF Typed, TypeOK, LocalsOK, InFlight, RejectEmptyRun, Open
<1>3. ASSUME NEW c \in Callers, ListMessages(c) PROVE Typed'
  BY <1>3 DEF Typed, TypeOK, LocalsOK, InFlight, ListMessages
<1>4. ASSUME NEW c \in Callers, NEW m \in Messages, ResolveOwningChannel(c, m)
      PROVE  Typed'
  <2>1. order' \in [Callers -> SUBSET Channels]
    <3>1. order' = [order EXCEPT ![c] = @ \cup ({owner[m]} \ {NoChannel})]
      BY <1>4 DEF ResolveOwningChannel
    <3>2. order \in [Callers -> SUBSET Channels] /\ owner[m] \in Channels \cup {NoChannel}
      BY DEF Typed, TypeOK
    <3> QED
      BY <3>1, <3>2
  <2>2. alreadyNotified' \in [Callers -> SUBSET Channels]
    BY <1>4 DEF ResolveOwningChannel, Typed, TypeOK
  <2>3. unresolved' = [unresolved EXCEPT ![c] = @ \ {m}]
    BY <1>4 DEF ResolveOwningChannel
  <2>4. UNCHANGED <<store, bus, pc, run, due, post, answer, send, faults>>
    BY <1>4 DEF ResolveOwningChannel
  <2> QED
    BY <2>1, <2>2, <2>3, <2>4 DEF Typed, TypeOK, LocalsOK, InFlight
<1>5. ASSUME NEW c \in Callers, StartNotifying(c) PROVE Typed'
  BY <1>5 DEF Typed, TypeOK, LocalsOK, InFlight, StartNotifying
<1>6. ASSUME NEW c \in Callers, NEW ch \in Channels, SkipChannel(c, ch)
      PROVE  Typed'
  BY <1>6 DEF Typed, TypeOK, LocalsOK, InFlight, SkipChannel
<1>7. ASSUME NEW c \in Callers, NEW ch \in Channels, NEW m \in Messages,
             CreateNotification(c, ch, m)
      PROVE  Typed'
  BY <1>7 DEF Typed, TypeOK, LocalsOK, InFlight, CreateNotification, Create
<1>8. ASSUME NEW c \in Callers, LinkNotification(c) PROVE Typed'
  <2>1. notifiedChannelIDs' \in [Callers -> Seq(Channels)]
    BY <1>8 DEF LinkNotification, Typed, TypeOK, LocalsOK, InFlight
  <2>2. notificationMessageIDs' \in [Callers -> Seq(Messages)]
    BY <1>8 DEF LinkNotification, Typed, TypeOK, LocalsOK, InFlight
  <2> QED
    BY <1>8, <2>1, <2>2 DEF LinkNotification, Link, Typed, TypeOK, LocalsOK, InFlight
<1>9. ASSUME NEW c \in Callers, PublishRolledBack(c) PROVE Typed'
  <2>1. events' \subseteq EventType
    <3>1. [channel |-> target[c], message |-> posting[c], run |-> run[c]] \in EventType
      BY <1>9 DEF PublishRolledBack, EventType, Typed, TypeOK, LocalsOK, InFlight
    <3> QED
      BY <1>9, <3>1 DEF PublishRolledBack, Typed, TypeOK
  <2>2. /\ pc[c] = "publish" /\ pc' = [pc EXCEPT ![c] = "notify"]
        /\ target' = [target EXCEPT ![c] = NoChannel]
        /\ posting' = [posting EXCEPT ![c] = NoMessage]
        /\ UNCHANGED <<store, sent, run, partition, answer, send, faults>>
    BY <1>9 DEF PublishRolledBack
  <2>3. TypeOK'
    BY <2>1, <2>2 DEF Typed, TypeOK
  <2>4. LocalsOK'
    BY <2>2 DEF Typed, TypeOK, LocalsOK, InFlight
  <2> QED
    BY <2>3, <2>4 DEF Typed
<1>10. ASSUME NEW c \in Callers, Return(c) PROVE Typed'
  BY <1>10 DEF Typed, TypeOK, LocalsOK, InFlight, Return, Finish
<1>11. ASSUME NEW c \in Callers, FailRead(c) PROVE Typed'
  <2>1. Finish(c, "failed") /\ faults' = faults + 1 /\ UNCHANGED <<store, bus, send>>
    BY <1>11 DEF FailRead, Fault
  <2> QED
    BY <2>1 DEF Finish, Typed, TypeOK, LocalsOK, InFlight
<1>12. ASSUME NEW c \in Callers, FailCreateNotification(c) PROVE Typed'
  <2>1. Finish(c, "failed") /\ faults' = faults + 1 /\ UNCHANGED <<bus, send>>
    BY <1>12 DEF FailCreateNotification, Fault
  <2>2. StoreTyped'
    BY <1>12 DEF FailCreateNotification, Create, StoreTyped, Typed, TypeOK, LocalsOK, InFlight
  <2>3. TypeOK'
    BY <2>1, <2>2 DEF Finish, Typed, TypeOK, StoreTyped
  <2>4. LocalsOK'
    BY <2>1 DEF Finish, Typed, TypeOK, LocalsOK, InFlight
  <2> QED
    BY <2>3, <2>4 DEF Typed
<1>13. ASSUME NEW c \in Callers, FailLinkNotification(c) PROVE Typed'
  <2>1. Finish(c, "failed") /\ faults' = faults + 1 /\ UNCHANGED <<bus, send>>
    BY <1>13 DEF FailLinkNotification, Fault
  <2>2. StoreTyped'
    BY <1>13 DEF FailLinkNotification, Link, StoreTyped, Typed, TypeOK, LocalsOK, InFlight
  <2>3. TypeOK'
    BY <2>1, <2>2 DEF Finish, Typed, TypeOK, StoreTyped
  <2>4. LocalsOK'
    BY <2>1 DEF Finish, Typed, TypeOK, LocalsOK, InFlight
  <2> QED
    BY <2>3, <2>4 DEF Typed
<1>14. ASSUME NEW s \in Senders, NEW ch \in Channels, NEW r \in Runs \cup {NoRun},
              NEW m \in Messages, CreateMessage(s, ch, r, m)
       PROVE  Typed'
  BY <1>14 DEF Typed, TypeOK, LocalsOK, InFlight, CreateMessage, Create
<1>15. ASSUME NEW s \in Senders, LinkMessage(s) PROVE Typed'
  BY <1>15 DEF Typed, TypeOK, LocalsOK, InFlight, LinkMessage, Link
<1>16. ASSUME NEW s \in Senders, PublishSent(s) PROVE Typed'
  BY <1>16 DEF Typed, TypeOK, LocalsOK, InFlight, PublishSent, EndSend
<1>17. ASSUME NEW s \in Senders, FailLinkMessage(s) PROVE Typed'
  <2>1. EndSend(s) /\ faults' = faults + 1 /\ UNCHANGED <<bus, call>>
    BY <1>17 DEF FailLinkMessage, Fault
  <2>2. StoreTyped'
    BY <1>17 DEF FailLinkMessage, Link, StoreTyped, Typed, TypeOK, LocalsOK, InFlight
  <2>3. TypeOK'
    BY <2>1, <2>2 DEF EndSend, Typed, TypeOK, StoreTyped
  <2>4. LocalsOK'
    BY <2>1 DEF EndSend, Typed, TypeOK, LocalsOK, InFlight
  <2> QED
    BY <2>3, <2>4 DEF Typed
<1>18. ASSUME NEW s \in Senders, FailCreateMessage(s) PROVE Typed'
  <2>1. PICK r \in Runs \cup {NoRun}, m \in Messages : Create(m, "user", r)
    BY <1>18 DEF FailCreateMessage
  <2>2. faults' = faults + 1 /\ UNCHANGED <<bus, call, send>>
    BY <1>18 DEF FailCreateMessage, Fault
  <2> QED
    BY <2>1, <2>2 DEF Create, Typed, TypeOK, LocalsOK, InFlight
<1>19. CASE Crash
  BY <1>19 DEF Typed, TypeOK, LocalsOK, InFlight, Crash, Fault, InFlight
<1>20. CASE UNCHANGED vars
  BY <1>20 DEF Typed, TypeOK, LocalsOK, InFlight
<1> QED
  BY <1>1, <1>2, <1>3, <1>4, <1>5, <1>6, <1>7, <1>8, <1>9, <1>10, <1>11, <1>12,
     <1>13, <1>14, <1>15, <1>16, <1>17, <1>18, <1>19, <1>20
  DEF Next, Rollback, FailRollback, SendMessage

THEOREM TypeCorrect == Spec => []TypeOK
<1>1. Typed => TypeOK
  BY DEF Typed
<1> QED
  BY <1>1, TypedInit, TypedStep, PTL DEF Spec

-----------------------------------------------------------------------------
(* The store only grows: an entity keeps its kind and its run, an edge keeps *)
(* its source.  It rests on what an actor between two writes holds: a        *)
(* message of its own that nobody else has linked.                           *)

Unlinked ==
    /\ \A c \in Callers :
          /\ pc[c] = "link" => Notice(posting[c], run[c], NoChannel)
          /\ pc[c] = "publish" => Notice(posting[c], run[c], target[c])
    /\ \A c, d \in Callers :
          pc[c] = "link" /\ pc[d] = "link" /\ posting[c] = posting[d] => c = d
    /\ \A s \in Senders :
          /\ sendPc[s] = "link" =>
                kind[sending[s]] = "user" /\ owner[sending[s]] = NoChannel
          /\ sendPc[s] = "publish" =>
                kind[sending[s]] = "user" /\ owner[sending[s]] # NoChannel
    /\ \A s, t \in Senders :
          sendPc[s] = "link" /\ sendPc[t] = "link" /\ sending[s] = sending[t] => s = t

StoreGrows ==
    \A m \in Messages :
        kind[m] # "absent" =>
            /\ kind'[m] = kind[m]
            /\ workflowRunID'[m] = workflowRunID[m]
            /\ owner[m] # NoChannel => owner'[m] = owner[m]

LEMMA Grows == Typed /\ Unlinked /\ [Next]_vars => StoreGrows
<1> SUFFICES ASSUME Typed, Unlinked, [Next]_vars PROVE StoreGrows
  OBVIOUS
<1> USE DEF store, vars
<1>1. ASSUME NEW m \in Messages, NEW k, NEW r, Create(m, k, r) PROVE StoreGrows
  BY <1>1 DEF Create, Fresh, StoreGrows, Typed, TypeOK
<1>2. ASSUME NEW ch, NEW m \in Messages, Link(ch, m), owner[m] = NoChannel
      PROVE  StoreGrows
  BY <1>2 DEF Link, StoreGrows, Typed, TypeOK
<1>3. ASSUME UNCHANGED store PROVE StoreGrows
  BY <1>3 DEF StoreGrows
<1>4. ASSUME NEW c \in Callers, RejectEmptyRun(c) \/ Rollback(c) PROVE StoreGrows
  BY <1>1, <1>2, <1>3, <1>4
  DEF RejectEmptyRun, Open, Rollback, ListMessages, ResolveOwningChannel,
      StartNotifying, SkipChannel, CreateNotification, LinkNotification,
      PublishRolledBack, Return, Unlinked, Notice, Typed, LocalsOK
<1>5. ASSUME NEW c \in Callers, FailRollback(c) PROVE StoreGrows
  BY <1>1, <1>2, <1>3, <1>5
  DEF FailRollback, FailRead, FailCreateNotification, FailLinkNotification,
      Unlinked, Notice, Typed, LocalsOK
<1>6. ASSUME NEW s \in Senders, SendMessage(s) PROVE StoreGrows
  BY <1>1, <1>2, <1>3, <1>6
  DEF SendMessage, CreateMessage, LinkMessage, PublishSent, FailCreateMessage, FailLinkMessage,
      Unlinked, Typed, LocalsOK
<1> QED
  BY <1>3, <1>4, <1>5, <1>6 DEF Next, Begin, Open, Crash

LEMMA UnlinkedInit == Init => Unlinked
  BY DEF Init, Unlinked

LEMMA UnlinkedStep == Typed /\ Unlinked /\ [Next]_vars => Unlinked'
<1> SUFFICES ASSUME Typed, Unlinked, [Next]_vars PROVE Unlinked'
  OBVIOUS
<1> USE DEF store, bus, partition, post, answer, call, send, vars
<1> DEFINE Steady(c) ==
      pc'[c] \in {"link", "publish"} =>
          /\ pc'[c] = pc[c] /\ run'[c] = run[c]
          /\ target'[c] = target[c] /\ posting'[c] = posting[c]
<1>0. StoreGrows
  BY Grows
<1>1. ASSUME \A c \in Callers : Steady(c), UNCHANGED <<store, sendPc, sending>>
      PROVE  Unlinked'
  BY <1>1 DEF Unlinked, Notice
<1>2. ASSUME NEW c \in Callers, NEW r \in Runs, Begin(c, r) PROVE Unlinked'
  BY <1>1, <1>2 DEF Begin, Open, Typed, TypeOK
<1>3. ASSUME NEW c \in Callers, RejectEmptyRun(c) PROVE Unlinked'
  BY <1>1, <1>3 DEF RejectEmptyRun, Open, Typed, TypeOK
<1>4. ASSUME NEW c \in Callers, ListMessages(c) PROVE Unlinked'
  BY <1>1, <1>4 DEF ListMessages, Typed, TypeOK
<1>5. ASSUME NEW c \in Callers, NEW m \in Messages, ResolveOwningChannel(c, m)
      PROVE  Unlinked'
  BY <1>1, <1>5 DEF ResolveOwningChannel, Typed, TypeOK
<1>6. ASSUME NEW c \in Callers, StartNotifying(c) PROVE Unlinked'
  BY <1>1, <1>6 DEF StartNotifying, Typed, TypeOK
<1>7. ASSUME NEW c \in Callers, NEW ch \in Channels, SkipChannel(c, ch)
      PROVE  Unlinked'
  BY <1>1, <1>7 DEF SkipChannel, Typed, TypeOK
<1>8. ASSUME NEW c \in Callers, NEW ch \in Channels, NEW m \in Messages,
             CreateNotification(c, ch, m)
      PROVE  Unlinked'
  BY <1>8, ConstantsAssumption
  DEF CreateNotification, Create, Fresh, Unlinked, Notice, Typed, TypeOK, LocalsOK
<1>9. ASSUME NEW c \in Callers, LinkNotification(c) PROVE Unlinked'
  BY <1>9, ConstantsAssumption
  DEF LinkNotification, Link, Unlinked, Notice, Typed, TypeOK, LocalsOK
<1>10. ASSUME NEW c \in Callers, PublishRolledBack(c) PROVE Unlinked'
  BY <1>1, <1>10 DEF PublishRolledBack, Typed, TypeOK
<1>11. ASSUME NEW c \in Callers, Return(c) PROVE Unlinked'
  BY <1>1, <1>11 DEF Return, Finish, Typed, TypeOK
<1>12. ASSUME NEW c \in Callers, FailRead(c) PROVE Unlinked'
  BY <1>1, <1>12 DEF FailRead, Finish, Typed, TypeOK
<1>13. ASSUME NEW c \in Callers, FailCreateNotification(c) PROVE Unlinked'
  BY <1>13 DEF FailCreateNotification, Finish, Create, Fresh, Unlinked, Notice,
     Typed, TypeOK, LocalsOK
<1>14. ASSUME NEW c \in Callers, FailLinkNotification(c) PROVE Unlinked'
  <2>1. /\ pc[c] = "link"
        /\ pc' = [pc EXCEPT ![c] = "failed"]
        /\ target' = [target EXCEPT ![c] = NoChannel]
        /\ posting' = [posting EXCEPT ![c] = NoMessage]
        /\ UNCHANGED <<run, send>>
    BY <1>14 DEF FailLinkNotification, Finish
  <2>2. CASE UNCHANGED store
    BY <1>1, <2>1, <2>2 DEF Typed, TypeOK
  <2>3. CASE Link(target[c], posting[c])
    <3>1. /\ owner' = [owner EXCEPT ![posting[c]] = target[c]]
          /\ UNCHANGED <<kind, workflowRunID>>
      BY <2>3 DEF Link
    <3>2. /\ posting[c] \in Messages
          /\ kind[posting[c]] = "notification" /\ owner[posting[c]] = NoChannel
      BY <2>1 DEF Unlinked, Notice, Typed, LocalsOK
    <3>3. \A d \in Callers : pc'[d] \in {"link", "publish"} =>
            /\ d # c /\ pc'[d] = pc[d] /\ run'[d] = run[d]
            /\ target'[d] = target[d] /\ posting'[d] = posting[d]
      BY <2>1 DEF Typed, TypeOK
    <3>4. \A d \in Callers : d # c /\ pc[d] = "link" => posting[d] # posting[c]
      BY <2>1 DEF Unlinked
    <3>5. \A s \in Senders : sendPc[s] \in {"link", "publish"} => sending[s] # posting[c]
      BY <3>2 DEF Unlinked
    <3>6. \A d \in Callers : pc[d] = "link" => posting[d] \in Messages
      BY DEF Typed, LocalsOK
    <3>7. \A m \in Messages : m # posting[c] => owner'[m] = owner[m]
      BY <3>1 DEF Typed, TypeOK
    <3>8. \A d \in Callers : pc'[d] = "link" => Notice(posting[d], run[d], NoChannel)'
      BY <3>1, <3>3, <3>4, <3>6, <3>7 DEF Unlinked, Notice
    <3>9. \A d \in Callers : pc'[d] = "publish" => Notice(posting[d], run[d], target[d])'
      BY <3>1, <3>2, <3>3, <3>7, ConstantsAssumption
      DEF Unlinked, Notice, Typed, LocalsOK
    <3>10. \A s \in Senders : sendPc[s] \in {"link", "publish"} =>
              kind'[sending[s]] = kind[sending[s]] /\ owner'[sending[s]] = owner[sending[s]]
      BY <3>1, <3>5, <3>7 DEF Typed, LocalsOK
    <3> QED
      BY <2>1, <3>3, <3>8, <3>9, <3>10 DEF Unlinked
  <2> QED
    BY <1>14, <2>2, <2>3 DEF FailLinkNotification
<1>15. ASSUME NEW s \in Senders, NEW ch \in Channels, NEW r \in Runs \cup {NoRun},
              NEW m \in Messages, CreateMessage(s, ch, r, m)
       PROVE  Unlinked'
  BY <1>15 DEF CreateMessage, Create, Fresh, Unlinked, Notice, Typed, TypeOK, LocalsOK
<1>16. ASSUME NEW s \in Senders, LinkMessage(s) PROVE Unlinked'
  BY <1>16, ConstantsAssumption
  DEF LinkMessage, Link, Unlinked, Notice, Typed, TypeOK, LocalsOK
<1>17. ASSUME NEW s \in Senders, PublishSent(s) PROVE Unlinked'
  BY <1>17 DEF PublishSent, EndSend, Unlinked, Notice, Typed, TypeOK
<1>18. ASSUME NEW s \in Senders, FailLinkMessage(s) PROVE Unlinked'
  BY <1>18 DEF FailLinkMessage, EndSend, Link, Unlinked, Notice, Typed, TypeOK, LocalsOK
<1>19. ASSUME NEW s \in Senders, FailCreateMessage(s) PROVE Unlinked'
  <2>1. PICK r \in Runs \cup {NoRun}, m \in Messages : Create(m, "user", r)
    BY <1>19 DEF FailCreateMessage
  <2>2. UNCHANGED <<bus, call, send>>
    BY <1>19 DEF FailCreateMessage
  <2> QED
    BY <2>1, <2>2 DEF Create, Fresh, Unlinked, Notice, Typed, TypeOK, LocalsOK
<1>20. CASE Crash
  BY <1>20 DEF Crash, InFlight, Unlinked, Typed, TypeOK
<1>21. CASE UNCHANGED vars
  BY <1>21, <1>1
<1> QED
  BY <1>2, <1>3, <1>4, <1>5, <1>6, <1>7, <1>8, <1>9, <1>10, <1>11, <1>12, <1>13,
     <1>14, <1>15, <1>16, <1>17, <1>18, <1>19, <1>20, <1>21
  DEF Next, Rollback, FailRollback, SendMessage

-----------------------------------------------------------------------------
(* A notification comes to be held by a channel in one way only: a call that *)
(* created it links it, whether or not it lives to know.                     *)

Links(c, m, r, ch) ==
    /\ pc[c] = "link"
    /\ m = posting[c] /\ r = run[c] /\ ch = target[c]
    /\ LinkNotification(c) \/ FailLinkNotification(c)

LEMMA NewNotice ==
    ASSUME Typed, Unlinked, [Next]_vars,
           NEW m \in Messages, NEW r, NEW ch \in Channels,
           Notice(m, r, ch)', ~Notice(m, r, ch)
    PROVE  \E c \in Callers : Links(c, m, r, ch)
<1> USE DEF store, bus, send, vars
<1>1. ch # NoChannel
  BY ConstantsAssumption
<1>2. ~UNCHANGED store
  BY DEF Notice
<1>3. ASSUME NEW n \in Messages, NEW k, NEW q, Create(n, k, q) PROVE FALSE
  BY <1>1, <1>3 DEF Create, Notice, Typed, TypeOK
<1>4. ASSUME NEW c \in Callers, LinkNotification(c) \/ FailLinkNotification(c)
      PROVE  Links(c, m, r, ch)
  <2>1. pc[c] = "link" /\ Link(target[c], posting[c])
    BY <1>2, <1>4 DEF LinkNotification, FailLinkNotification
  <2>2. m = posting[c] /\ ch = target[c]
    BY <2>1 DEF Link, Notice, Typed, TypeOK, LocalsOK
  <2>3. r = run[c]
    BY <2>1, <2>2 DEF Link, Notice, Unlinked
  <2> QED
    BY <1>4, <2>1, <2>2, <2>3 DEF Links
<1>5. ASSUME NEW s \in Senders, sendPc[s] = "link", Link(sendChannel[s], sending[s])
      PROVE  FALSE
  BY <1>5 DEF Link, Notice, Unlinked, Typed, TypeOK, LocalsOK
<1>6. ASSUME NEW s \in Senders, SendMessage(s) PROVE FALSE
  BY <1>2, <1>3, <1>5, <1>6
  DEF SendMessage, CreateMessage, LinkMessage, PublishSent, FailCreateMessage, FailLinkMessage
<1>7. ASSUME NEW c \in Callers, RejectEmptyRun(c) \/ Rollback(c) \/ FailRollback(c)
      PROVE  Links(c, m, r, ch)
  BY <1>2, <1>3, <1>4, <1>7
  DEF RejectEmptyRun, Open, Rollback, ListMessages, ResolveOwningChannel,
      StartNotifying, SkipChannel, CreateNotification, PublishRolledBack, Return,
      FailRollback, FailRead, FailCreateNotification
<1> QED
  BY <1>2, <1>6, <1>7 DEF Next, Begin, Open, Crash

-----------------------------------------------------------------------------
(* At most one notification of a run in a channel, when no two calls for one *)
(* run overlap.  A call knows of every notification of its run: before it    *)
(* has resolved the messages it listed the notification is still among them  *)
(* or its channel is marked, and from then on no channel the call may still  *)
(* notify holds one.                                                         *)

OneCallPerRun ==
    \A c, d \in Callers : InFlight(c) /\ InFlight(d) /\ run[c] = run[d] => c = d

TargetPending ==
    \A c \in Callers : pc[c] = "link" => target[c] \in order[c] \ alreadyNotified[c]

Knows(c, m) ==
    \/ owner[m] \in alreadyNotified[c]
    \/ pc[c] = "partition" /\ m \in unresolved[c]
    \/ pc[c] # "partition" /\ owner[m] \notin order[c]

NoticesKnown ==
    \A c \in Callers, m \in Messages, ch \in Channels :
        /\ pc[c] \in {"partition", "notify", "link", "publish"}
        /\ Notice(m, run[c], ch)
        => Knows(c, m)

SerialInv == OneCallPerRun /\ TargetPending /\ NoticesKnown /\ AtMostOneNotification

LEMMA SerialInit == Init => SerialInv
  BY DEF Init, SerialInv, OneCallPerRun, InFlight, TargetPending, NoticesKnown,
     AtMostOneNotification, Notice

LEMMA AtMostOneStep ==
    ASSUME Typed, Unlinked, SerialInv, [Next]_vars
    PROVE  AtMostOneNotification'
<1> SUFFICES ASSUME NEW r \in Runs, NEW ch \in Channels,
                    NEW m \in Messages, NEW n \in Messages,
                    Notice(m, r, ch)', Notice(n, r, ch)'
             PROVE  m = n
  BY DEF AtMostOneNotification
<1>1. ASSUME NEW c \in Callers, NEW x \in Messages, Links(c, x, r, ch),
             NEW y \in Messages, Notice(y, r, ch)
      PROVE  FALSE
  BY <1>1 DEF Links, SerialInv, TargetPending, NoticesKnown, Knows, Notice
<1>2. ASSUME NEW c \in Callers, NEW d \in Callers, Links(c, m, r, ch), Links(d, n, r, ch)
      PROVE  m = n
  BY <1>2 DEF Links, SerialInv, OneCallPerRun, InFlight
<1> QED
  BY <1>1, <1>2, NewNotice DEF SerialInv, AtMostOneNotification

(* A step of one call leaves the local variables of the others alone. *)

Same(c) ==
    /\ pc'[c] = pc[c] /\ run'[c] = run[c] /\ due'[c] = due[c]
    /\ unresolved'[c] = unresolved[c] /\ order'[c] = order[c]
    /\ alreadyNotified'[c] = alreadyNotified[c]
    /\ target'[c] = target[c] /\ posting'[c] = posting[c]
    /\ notifiedChannelIDs'[c] = notifiedChannelIDs[c]
    /\ notificationMessageIDs'[c] = notificationMessageIDs[c]
    /\ skippedChannelIDs'[c] = skippedChannelIDs[c]

CallStep(d) ==
    \/ \E r \in Runs : Begin(d, r)
    \/ RejectEmptyRun(d) \/ Rollback(d) \/ FailRollback(d)

LEMMA OthersSame ==
    ASSUME Typed, NEW c \in Callers, NEW d \in Callers, c # d, CallStep(d)
    PROVE  Same(c)
<1> USE DEF store, bus, partition, post, answer, call, send, vars, Typed, TypeOK, Same
<1>1. ASSUME NEW r, NEW at, Open(d, r, at) PROVE Same(c)
  BY <1>1 DEF Open
<1>2. CASE ListMessages(d)
  BY <1>2 DEF ListMessages
<1>3. ASSUME NEW m \in Messages, ResolveOwningChannel(d, m) PROVE Same(c)
  <2>1. /\ order'[c] = order[c] /\ alreadyNotified'[c] = alreadyNotified[c]
        /\ unresolved'[c] = unresolved[c]
    BY <1>3 DEF ResolveOwningChannel
  <2> QED
    BY <1>3, <2>1 DEF ResolveOwningChannel
<1>4. CASE StartNotifying(d)
  BY <1>4 DEF StartNotifying
<1>5. ASSUME NEW ch \in Channels, SkipChannel(d, ch) PROVE Same(c)
  BY <1>5 DEF SkipChannel
<1>6. ASSUME NEW ch \in Channels, NEW m \in Messages, CreateNotification(d, ch, m)
      PROVE  Same(c)
  BY <1>6 DEF CreateNotification
<1>7. CASE LinkNotification(d)
  BY <1>7 DEF LinkNotification
<1>8. CASE PublishRolledBack(d)
  BY <1>8 DEF PublishRolledBack
<1>9. ASSUME NEW outcome, Finish(d, outcome) PROVE Same(c)
  BY <1>9 DEF Finish
<1> QED
  BY <1>1, <1>2, <1>3, <1>4, <1>5, <1>6, <1>7, <1>8, <1>9
  DEF CallStep, Begin, RejectEmptyRun, Rollback, Return, FailRollback, FailRead,
      FailCreateNotification, FailLinkNotification

LEMMA SendersApart ==
    ASSUME NEW c \in Callers, (\E s \in Senders : SendMessage(s)) \/ UNCHANGED vars
    PROVE  Same(c)
  BY DEF SendMessage, CreateMessage, LinkMessage, PublishSent, FailCreateMessage, FailLinkMessage,
     call, partition, post, answer, vars, Same

LEMMA OneCallStep ==
    ASSUME Serial, Typed, OneCallPerRun, [Next]_vars
    PROVE  OneCallPerRun'
<1>1. ASSUME NEW c \in Callers, CallStep(c) PROVE OneCallPerRun'
  <2>1. \A d \in Callers : d # c => pc'[d] = pc[d] /\ run'[d] = run[d]
    BY <1>1, OthersSame DEF Same
  <2>2. CASE \E r \in Runs : Begin(c, r)
    BY <2>1, <2>2 DEF Begin, Open, OneCallPerRun, InFlight, Typed, TypeOK
  <2>3. CASE RejectEmptyRun(c)
    BY <2>1, <2>3 DEF RejectEmptyRun, Open, OneCallPerRun, InFlight, Typed, TypeOK
  <2>4. CASE Rollback(c) \/ FailRollback(c)
    <3>1. InFlight(c) /\ run'[c] = run[c]
      BY <2>4 DEF Rollback, FailRollback, ListMessages, ResolveOwningChannel,
         StartNotifying, SkipChannel, CreateNotification, LinkNotification,
         PublishRolledBack, Return, FailRead, FailCreateNotification,
         FailLinkNotification, Finish, InFlight
    <3> QED
      BY <2>1, <3>1 DEF OneCallPerRun, InFlight
  <2> QED
    BY <1>1, <2>2, <2>3, <2>4 DEF CallStep
<1>2. ASSUME (\E s \in Senders : SendMessage(s)) \/ UNCHANGED vars PROVE OneCallPerRun'
  BY <1>2, SendersApart DEF Same, OneCallPerRun, InFlight
<1>3. CASE Crash
  BY <1>3 DEF Crash, OneCallPerRun, InFlight, Typed, TypeOK
<1> QED
  BY <1>1, <1>2, <1>3 DEF Next, CallStep

LEMMA TargetStep ==
    ASSUME Typed, TargetPending, [Next]_vars
    PROVE  TargetPending'
<1> USE DEF TargetPending, partition, post, Typed, TypeOK
<1>1. ASSUME NEW c \in Callers, CallStep(c) PROVE TargetPending'
  <2>1. \A d \in Callers : d # c => Same(d)
    BY <1>1, OthersSame
  <2>2. pc'[c] = "link" => target'[c] \in order'[c] \ alreadyNotified'[c]
    <3>1. ASSUME NEW ch \in Channels, NEW m \in Messages, CreateNotification(c, ch, m)
          PROVE  target'[c] \in order'[c] \ alreadyNotified'[c]
      BY <3>1 DEF CreateNotification
    <3>2. ASSUME pc'[c] = "link"
          PROVE  \E ch \in Channels, m \in Messages : CreateNotification(c, ch, m)
      BY <1>1, <3>2 DEF CallStep, Begin, RejectEmptyRun, Open, Rollback, FailRollback,
         ListMessages, ResolveOwningChannel, StartNotifying, SkipChannel,
         LinkNotification, PublishRolledBack, Return, FailRead,
         FailCreateNotification, FailLinkNotification, Finish
    <3> QED
      BY <3>1, <3>2
  <2> QED
    BY <2>1, <2>2 DEF Same
<1>2. ASSUME (\E s \in Senders : SendMessage(s)) \/ UNCHANGED vars PROVE TargetPending'
  BY <1>2, SendersApart DEF Same
<1>3. CASE Crash
  BY <1>3 DEF Crash, InFlight
<1> QED
  BY <1>1, <1>2, <1>3 DEF Next, CallStep

LEMMA NoticesKnownStep ==
    ASSUME Typed, Unlinked, SerialInv, [Next]_vars
    PROVE  NoticesKnown'
<1> SUFFICES ASSUME NEW c \in Callers, NEW m \in Messages, NEW ch \in Channels,
                    pc'[c] \in {"partition", "notify", "link", "publish"},
                    Notice(m, run[c], ch)'
             PROVE  Knows(c, m)'
  BY DEF NoticesKnown
<1> USE DEF Typed, TypeOK
<1>1. ASSUME Same(c), ~LinkNotification(c) PROVE Knows(c, m)'
  <2>1. CASE Notice(m, run[c], ch)
    BY <1>1, <2>1 DEF Same, SerialInv, NoticesKnown, Knows, Notice
  <2>2. ASSUME ~Notice(m, run[c], ch), NEW d \in Callers, Links(d, m, run[c], ch)
        PROVE  FALSE
    <3>1. d = c
      BY <1>1, <2>2 DEF Links, Same, SerialInv, OneCallPerRun, InFlight
    <3> QED
      BY <1>1, <2>2, <3>1 DEF Links, Same, FailLinkNotification, Finish
  <2> QED
    BY <1>1, <2>1, <2>2, NewNotice DEF Same
<1>2. ASSUME LinkNotification(c) PROVE Knows(c, m)'
  <2>1. CASE m = posting[c]
    BY <1>2, <2>1 DEF LinkNotification, Link, Knows, LocalsOK
  <2>2. CASE m # posting[c]
    BY <1>2, <2>2
    DEF LinkNotification, Link, Knows, SerialInv, NoticesKnown, LocalsOK, Notice
  <2> QED
    BY <2>1, <2>2
<1>3. ASSUME UNCHANGED store, pc[c] \in {"list", "partition", "notify", "publish"},
             run'[c] = run[c]
      PROVE  Notice(m, run[c], ch)
  BY <1>3 DEF store, Notice
<1>4. CASE ListMessages(c)
  BY <1>4, <1>3 DEF ListMessages, Knows, Tagged, Notice
<1>5. ASSUME NEW n \in Messages, ResolveOwningChannel(c, n) PROVE Knows(c, m)'
  <2>1. Notice(m, run[c], ch) /\ Knows(c, m) /\ pc[c] = "partition"
    BY <1>3, <1>5 DEF ResolveOwningChannel, SerialInv, NoticesKnown
  <2>2. CASE m = n
    BY <1>5, <2>1, <2>2, ConstantsAssumption
    DEF ResolveOwningChannel, Knows, Notice, store
  <2>3. CASE m # n
    BY <1>5, <2>1, <2>3 DEF ResolveOwningChannel, Knows, store
  <2> QED
    BY <2>2, <2>3
<1>6. CASE StartNotifying(c)
  BY <1>3, <1>6 DEF StartNotifying, SerialInv, NoticesKnown, Knows, store, partition
<1>7. ASSUME NEW x \in Channels, SkipChannel(c, x) PROVE Knows(c, m)'
  BY <1>3, <1>7 DEF SkipChannel, SerialInv, NoticesKnown, Knows, store
<1>8. ASSUME NEW x \in Channels, NEW n \in Messages, CreateNotification(c, x, n)
      PROVE  Knows(c, m)'
  BY <1>8, ConstantsAssumption
  DEF CreateNotification, Create, SerialInv, NoticesKnown, Knows, Notice, partition
<1>9. CASE PublishRolledBack(c)
  BY <1>3, <1>9 DEF PublishRolledBack, SerialInv, NoticesKnown, Knows, store, partition
<1>10. ASSUME NEW d \in Callers, CallStep(d), d # c PROVE Knows(c, m)'
  <2>1. Same(c)
    BY <1>10, OthersSame
  <2>2. CASE LinkNotification(c)
    BY <1>2, <2>2
  <2> QED
    BY <1>1, <2>1, <2>2
<1>11. ASSUME (\E s \in Senders : SendMessage(s)) \/ UNCHANGED vars PROVE Knows(c, m)'
  BY <1>1, <1>2, <1>11, SendersApart
<1>12. ~CallStep(c) \/ Rollback(c)
  BY DEF CallStep, Begin, RejectEmptyRun, Open, FailRollback, FailRead,
     FailCreateNotification, FailLinkNotification, Finish
<1>13. ~Return(c) /\ ~Crash
  <2>1. ~Return(c)
    BY DEF Return, Finish
  <2>2. ASSUME Crash PROVE FALSE
    <3>1. pc'[c] = IF InFlight(c) THEN "failed" ELSE pc[c]
      BY <2>2 DEF Crash
    <3> QED
      BY <3>1 DEF InFlight
  <2> QED
    BY <2>1, <2>2
<1> QED
  BY <1>2, <1>4, <1>5, <1>6, <1>7, <1>8, <1>9, <1>10, <1>11, <1>12, <1>13
  DEF Next, CallStep, Rollback

-----------------------------------------------------------------------------
(* The answer of a call, overlapping or not, agrees with the store. *)

LEMMA SliceOfAppend ==
    ASSUME NEW S, NEW seq \in Seq(S), NEW e \in S
    PROVE  /\ Slice(Append(seq, e)) = Slice(seq) \cup {e}
           /\ NoRepeats(seq) /\ e \notin Slice(seq) => NoRepeats(Append(seq, e))
<1>1. /\ Len(Append(seq, e)) = Len(seq) + 1
      /\ Append(seq, e)[Len(seq) + 1] = e
      /\ \A i \in 1..Len(seq) : Append(seq, e)[i] = seq[i]
  OBVIOUS
<1>2. 1..(Len(seq) + 1) = 1..Len(seq) \cup {Len(seq) + 1}
  OBVIOUS
<1> QED
  BY <1>1, <1>2 DEF Slice, NoRepeats

\* What a call in progress relies on, and what it leaves behind.
AnswerOK(c) ==
    /\ \A m \in unresolved[c] : Tagged(m, run[c])
    /\ \A ch \in alreadyNotified[c] : \E m \in Messages : Notice(m, run[c], ch)
    /\ pc[c] \in {"list", "partition"} => Accounted(c) = {}
    /\ order[c] \cap Accounted(c) = {}
    /\ AnswerMatches(c)

\* A step of the call that says nothing new.
Quiet(c) ==
    /\ run'[c] = run[c]
    /\ unresolved'[c] \subseteq unresolved[c]
    /\ order'[c] \subseteq order[c]
    /\ alreadyNotified'[c] \subseteq alreadyNotified[c]
    /\ notifiedChannelIDs'[c] = notifiedChannelIDs[c]
    /\ notificationMessageIDs'[c] = notificationMessageIDs[c]
    /\ skippedChannelIDs'[c] = skippedChannelIDs[c]
    /\ pc'[c] \in {"list", "partition"} => pc[c] \in {"list", "partition"}

LEMMA NoticeStays ==
    ASSUME StoreGrows
    PROVE  /\ \A m \in Messages, r \in Runs \cup {NoRun}, ch \in Channels :
                 Notice(m, r, ch) => Notice(m, r, ch)'
           /\ \A m \in Messages, r \in Runs \cup {NoRun} : Tagged(m, r) => Tagged(m, r)'
  BY ConstantsAssumption DEF Notice, Tagged, StoreGrows

LEMMA AnswerKept ==
    ASSUME Typed, StoreGrows, NEW c \in Callers, AnswerOK(c), Quiet(c)
    PROVE  AnswerOK(c)'
<1>1. \A m \in Messages, r \in Runs \cup {NoRun}, ch \in Channels :
         Notice(m, r, ch) => Notice(m, r, ch)'
  BY NoticeStays
<1>2. \A m \in Messages, r \in Runs \cup {NoRun} : Tagged(m, r) => Tagged(m, r)'
  BY NoticeStays
<1>3. /\ run[c] \in Runs \cup {NoRun} /\ alreadyNotified[c] \subseteq Channels
      /\ unresolved[c] \subseteq Messages
      /\ notifiedChannelIDs[c] \in Seq(Channels) /\ skippedChannelIDs[c] \in Seq(Channels)
      /\ notificationMessageIDs[c] \in Seq(Messages)
  BY DEF Typed, TypeOK
<1>4. Accounted(c)' = Accounted(c)
  BY DEF Quiet, Accounted, Slice
<1>5. AnswerMatches(c)'
  <2>1. \A i \in 1..Len(notifiedChannelIDs[c]) :
           /\ notifiedChannelIDs[c][i] \in Channels
           /\ notificationMessageIDs[c][i] \in Messages
    BY <1>3 DEF AnswerOK, AnswerMatches
  <2>2. Slice(skippedChannelIDs[c]) \subseteq Channels
    BY <1>3 DEF Slice
  <2>3. \A ch \in Slice(skippedChannelIDs[c]) :
           \E m \in Messages : Notice(m, run[c], ch)'
    BY <1>1, <1>3, <2>2 DEF AnswerOK, AnswerMatches, Quiet
  <2>4. \A i \in 1..Len(notifiedChannelIDs[c]) :
           Notice(notificationMessageIDs[c][i], run[c], notifiedChannelIDs[c][i])'
    BY <1>1, <1>3, <2>1 DEF AnswerOK, AnswerMatches, Quiet
  <2> QED
    BY <2>3, <2>4 DEF AnswerOK, AnswerMatches, Quiet
<1> QED
  BY <1>1, <1>2, <1>3, <1>4, <1>5 DEF AnswerOK, Quiet

AnswerInv == \A c \in Callers : AnswerOK(c)

LEMMA AnswerInit == Init => AnswerInv
<1>1. Slice(<<>>) = {} /\ NoRepeats(<<>>)
  BY DEF Slice, NoRepeats
<1> QED
  BY <1>1 DEF Init, AnswerInv, AnswerOK, Accounted, AnswerMatches

LEMMA AnswerStep ==
    ASSUME Typed, Unlinked, TargetPending, AnswerInv, [Next]_vars
    PROVE  AnswerInv'
<1> SUFFICES ASSUME NEW c \in Callers PROVE AnswerOK(c)'
  BY DEF AnswerInv
<1> USE DEF store, bus, partition, post, answer, call, send, vars
<1>0. StoreGrows /\ AnswerOK(c)
  BY Grows DEF AnswerInv
<1>1. ASSUME Quiet(c) PROVE AnswerOK(c)'
  BY <1>0, <1>1, AnswerKept
<1>2. ASSUME Same(c) PROVE AnswerOK(c)'
  BY <1>1, <1>2 DEF Same, Quiet
<1>3. ASSUME NEW r, NEW at, Open(c, r, at) PROVE AnswerOK(c)'
  <2>1. Slice(<<>>) = {} /\ NoRepeats(<<>>)
    BY DEF Slice, NoRepeats
  <2>2. /\ notifiedChannelIDs'[c] = <<>> /\ notificationMessageIDs'[c] = <<>>
        /\ skippedChannelIDs'[c] = <<>>
        /\ unresolved'[c] = {} /\ alreadyNotified'[c] = {}
    BY <1>3 DEF Open, Typed, TypeOK
  <2> QED
    BY <2>1, <2>2 DEF AnswerOK, Accounted, AnswerMatches
<1>4. CASE ListMessages(c)
  <2>1. UNCHANGED <<store, run, order, alreadyNotified, answer>> /\ pc[c] = "list"
    BY <1>4 DEF ListMessages
  <2>2. \A m \in unresolved'[c] : Tagged(m, run[c])'
    BY <1>4 DEF ListMessages, Tagged, Typed, TypeOK
  <2> QED
    BY <1>0, <2>1, <2>2 DEF AnswerOK, Accounted, AnswerMatches, Notice
<1>5. ASSUME NEW m \in Messages, ResolveOwningChannel(c, m) PROVE AnswerOK(c)'
  <2>1. /\ UNCHANGED <<store, pc, run, answer>> /\ pc[c] = "partition"
        /\ m \in unresolved[c] /\ unresolved'[c] \subseteq unresolved[c]
    BY <1>5 DEF ResolveOwningChannel, Typed, TypeOK
  <2>2. \A ch \in alreadyNotified'[c] : ch \in alreadyNotified[c] \/ Notice(m, run[c], ch)
    BY <1>0, <1>5 DEF ResolveOwningChannel, Typed, TypeOK, AnswerOK, Tagged, Notice
  <2> QED
    BY <1>0, <2>1, <2>2 DEF AnswerOK, Accounted, AnswerMatches, Notice, Tagged
<1>6. ASSUME NEW ch \in Channels, SkipChannel(c, ch) PROVE AnswerOK(c)'
  <2>1. /\ UNCHANGED <<store, pc, run, unresolved, alreadyNotified,
                      notifiedChannelIDs, notificationMessageIDs>>
        /\ order'[c] = order[c] \ {ch}
        /\ skippedChannelIDs'[c] = Append(skippedChannelIDs[c], ch)
        /\ pc[c] = "notify" /\ ch \in order[c] /\ ch \in alreadyNotified[c]
    BY <1>6 DEF SkipChannel, Typed, TypeOK
  <2>2. /\ Slice(skippedChannelIDs'[c]) = Slice(skippedChannelIDs[c]) \cup {ch}
        /\ NoRepeats(skippedChannelIDs'[c])
    BY <1>0, <2>1, SliceOfAppend DEF AnswerOK, AnswerMatches, Accounted, Typed, TypeOK
  <2>3. AnswerMatches(c)'
    BY <1>0, <2>1, <2>2 DEF AnswerOK, AnswerMatches, Accounted, Notice
  <2> QED
    BY <1>0, <2>1, <2>2, <2>3 DEF AnswerOK, Accounted, Notice, Tagged
<1>7. ASSUME NEW ch \in Channels, NEW m \in Messages, CreateNotification(c, ch, m)
      PROVE  AnswerOK(c)'
  BY <1>1, <1>7 DEF CreateNotification, Quiet, Typed, TypeOK
<1>8. CASE LinkNotification(c)
  <2>1. /\ UNCHANGED <<run, unresolved, alreadyNotified, skippedChannelIDs>>
        /\ pc[c] = "link" /\ pc'[c] = "publish"
        /\ order'[c] = order[c] \ {target[c]}
        /\ notifiedChannelIDs'[c] = Append(notifiedChannelIDs[c], target[c])
        /\ notificationMessageIDs'[c] = Append(notificationMessageIDs[c], posting[c])
        /\ target[c] \in Channels /\ posting[c] \in Messages /\ target[c] \in order[c]
    BY <1>8 DEF LinkNotification, Typed, TypeOK, LocalsOK, TargetPending
  <2>2. Notice(posting[c], run[c], target[c])'
    BY <1>8, <2>1 DEF LinkNotification, Link, Unlinked, Notice, Typed, TypeOK
  <2>3. /\ Slice(notifiedChannelIDs'[c]) = Slice(notifiedChannelIDs[c]) \cup {target[c]}
        /\ NoRepeats(notifiedChannelIDs'[c])
    BY <1>0, <2>1, SliceOfAppend DEF AnswerOK, AnswerMatches, Accounted, Typed, TypeOK
  <2>4. /\ \A m \in unresolved[c] : Tagged(m, run[c])'
        /\ \A ch \in alreadyNotified[c] : \E m \in Messages : Notice(m, run[c], ch)'
        /\ \A ch \in Slice(skippedChannelIDs[c]) :
              \E m \in Messages : Notice(m, run[c], ch)'
    <3>1. /\ Slice(skippedChannelIDs[c]) \subseteq Channels
          /\ alreadyNotified[c] \subseteq Channels /\ unresolved[c] \subseteq Messages
          /\ run'[c] = run[c] /\ run[c] \in Runs \cup {NoRun}
      BY <2>1 DEF Typed, TypeOK, Slice
    <3> QED
      BY <1>0, <2>1, <3>1, NoticeStays DEF AnswerOK, AnswerMatches
  <2>5. \A i \in 1..Len(notifiedChannelIDs'[c]) :
           Notice(notificationMessageIDs[c][i], run[c], notifiedChannelIDs[c][i])'
    <3> DEFINE notified == notifiedChannelIDs[c]  ids == notificationMessageIDs[c]
    <3>1. notified \in Seq(Channels) /\ ids \in Seq(Messages) /\ Len(ids) = Len(notified)
      BY <1>0 DEF Typed, TypeOK, AnswerOK, AnswerMatches
    <3>2. ASSUME NEW i \in 1..Len(notified)
          PROVE  /\ Append(notified, target[c])[i] = notified[i]
                 /\ Append(ids, posting[c])[i] = ids[i]
                 /\ kind'[ids[i]] = "notification"
                 /\ workflowRunID'[ids[i]] = run'[c]
                 /\ owner'[ids[i]] = notified[i]
      <4>1. notified[i] \in Channels /\ ids[i] \in Messages
        BY <3>1, <3>2
      <4>2. run'[c] = run[c] /\ run[c] \in Runs \cup {NoRun}
        BY <2>1 DEF Typed, TypeOK
      <4>3. Notice(ids[i], run[c], notified[i])
        BY <1>0, <3>2 DEF AnswerOK, AnswerMatches
      <4> QED
        BY <1>0, <2>1, <3>1, <3>2, <4>1, <4>2, <4>3, ConstantsAssumption
        DEF StoreGrows, Notice
    <3>3. /\ Append(notified, target[c])[Len(notified) + 1] = target[c]
          /\ Append(ids, posting[c])[Len(notified) + 1] = posting[c]
          /\ Len(Append(notified, target[c])) = Len(notified) + 1
      BY <2>1, <3>1
    <3>4. 1..(Len(notified) + 1) = 1..Len(notified) \cup {Len(notified) + 1}
      BY <3>1
    <3>5. /\ kind'[posting[c]] = "notification"
          /\ workflowRunID'[posting[c]] = run'[c] /\ owner'[posting[c]] = target[c]
      BY <1>8, <2>2 DEF Notice, LinkNotification
    <3>6. \A i \in 1..(Len(notified) + 1) :
             /\ kind'[Append(ids, posting[c])[i]] = "notification"
             /\ workflowRunID'[Append(ids, posting[c])[i]] = run'[c]
             /\ owner'[Append(ids, posting[c])[i]] = Append(notified, target[c])[i]
      <4> HIDE DEF notified, ids
      <4> QED
        BY <3>2, <3>3, <3>4, <3>5
    <3> QED
      BY <2>1, <3>3, <3>6 DEF Notice
  <2>6. Len(notificationMessageIDs'[c]) = Len(notifiedChannelIDs'[c])
    BY <1>0, <2>1 DEF AnswerOK, AnswerMatches, Typed, TypeOK
  <2> QED
    BY <1>0, <2>1, <2>3, <2>4, <2>5, <2>6 DEF AnswerOK, AnswerMatches, Accounted
<1>9. CASE StartNotifying(c) \/ PublishRolledBack(c)
  BY <1>1, <1>9 DEF StartNotifying, PublishRolledBack, Quiet, Typed, TypeOK
<1>10. ASSUME NEW outcome \in {"returned", "failed"}, Finish(c, outcome)
       PROVE  AnswerOK(c)'
  BY <1>1, <1>10 DEF Finish, Quiet, Typed, TypeOK
<1>11. CASE Crash
  <2>1. pc'[c] = IF InFlight(c) THEN "failed" ELSE pc[c]
    BY <1>11 DEF Crash
  <2> QED
    BY <1>1, <1>11, <2>1 DEF Crash, Quiet, InFlight
<1>12. ASSUME NEW d \in Callers, d # c, CallStep(d) PROVE AnswerOK(c)'
  BY <1>2, <1>12, OthersSame
<1>13. ASSUME CallStep(c) PROVE AnswerOK(c)'
  BY <1>3, <1>4, <1>5, <1>6, <1>7, <1>8, <1>9, <1>10, <1>13
  DEF CallStep, Begin, RejectEmptyRun, Rollback, Return, FailRollback, FailRead,
      FailCreateNotification, FailLinkNotification
<1>14. ASSUME (\E s \in Senders : SendMessage(s)) \/ UNCHANGED vars PROVE AnswerOK(c)'
  BY <1>2, <1>14, SendersApart
<1> QED
  BY <1>11, <1>12, <1>13, <1>14 DEF Next, CallStep

-----------------------------------------------------------------------------
(* A successful answer accounts for the closure that was listed. *)

ClosureOK(c) ==
    /\ pc[c] = "partition" =>
          \A ch \in due[c] : ch \in order[c] \/ \E m \in unresolved[c] : owner[m] = ch
    /\ pc[c] \in {"notify", "link", "publish"} => due[c] \subseteq order[c] \cup Accounted(c)
    /\ pc[c] = "returned" => due[c] \subseteq Accounted(c)

ClosureInv == \A c \in Callers : ClosureOK(c)

LEMMA ClosureInit == Init => ClosureInv
  BY DEF Init, ClosureInv, ClosureOK

LEMMA ClosureStep ==
    ASSUME Typed, Unlinked, AnswerInv, ClosureInv, [Next]_vars
    PROVE  ClosureInv'
<1> SUFFICES ASSUME NEW c \in Callers PROVE ClosureOK(c)'
  BY DEF ClosureInv
<1> USE DEF store, bus, partition, post, answer, call, send, vars
<1>0. StoreGrows /\ ClosureOK(c) /\ AnswerOK(c)
  BY Grows DEF ClosureInv, AnswerInv
<1>1. ASSUME Same(c) PROVE ClosureOK(c)'
  <2>1. \A m \in unresolved[c] :
           m \in Messages /\ kind[m] # "absent" /\ (owner[m] # NoChannel => owner'[m] = owner[m])
    BY <1>0 DEF AnswerOK, Tagged, StoreGrows, Typed, TypeOK
  <2>2. due[c] \subseteq Channels
    BY DEF Typed, TypeOK
  <2> QED
    BY <1>0, <1>1, <2>1, <2>2, ConstantsAssumption DEF ClosureOK, Same, Accounted
<1>2. ASSUME NEW r, NEW at \in {"list", "failed"}, Open(c, r, at) PROVE ClosureOK(c)'
  BY <1>2 DEF Open, ClosureOK, Typed, TypeOK
<1>3. CASE ListMessages(c)
  BY <1>3 DEF ListMessages, ClosureOK, Typed, TypeOK
<1>4. ASSUME NEW m \in Messages, ResolveOwningChannel(c, m) PROVE ClosureOK(c)'
  <2>1. /\ UNCHANGED <<store, pc, due>> /\ pc[c] = "partition"
        /\ unresolved'[c] = unresolved[c] \ {m} /\ order[c] \subseteq order'[c]
        /\ owner[m] # NoChannel => owner[m] \in order'[c]
    BY <1>4 DEF ResolveOwningChannel, Typed, TypeOK
  <2>2. due[c] \subseteq Channels
    BY DEF Typed, TypeOK
  <2> QED
    BY <1>0, <2>1, <2>2, ConstantsAssumption DEF ClosureOK
<1>5. CASE StartNotifying(c)
  BY <1>0, <1>5 DEF StartNotifying, ClosureOK, Accounted, Typed, TypeOK
<1>6. ASSUME NEW ch \in Channels, SkipChannel(c, ch) PROVE ClosureOK(c)'
  <2>1. /\ UNCHANGED <<pc, due, notifiedChannelIDs>> /\ pc[c] = "notify"
        /\ order'[c] = order[c] \ {ch}
        /\ Slice(skippedChannelIDs'[c]) = Slice(skippedChannelIDs[c]) \cup {ch}
    BY <1>6, SliceOfAppend DEF SkipChannel, Typed, TypeOK
  <2> QED
    BY <1>0, <2>1 DEF ClosureOK, Accounted
<1>7. ASSUME NEW ch \in Channels, NEW m \in Messages, CreateNotification(c, ch, m)
      PROVE  ClosureOK(c)'
  BY <1>0, <1>7 DEF CreateNotification, ClosureOK, Accounted, Typed, TypeOK
<1>8. CASE LinkNotification(c)
  <2>1. /\ UNCHANGED <<due, skippedChannelIDs>> /\ pc[c] = "link" /\ pc'[c] = "publish"
        /\ order'[c] = order[c] \ {target[c]}
        /\ Slice(notifiedChannelIDs'[c]) = Slice(notifiedChannelIDs[c]) \cup {target[c]}
    BY <1>8, SliceOfAppend DEF LinkNotification, Typed, TypeOK, LocalsOK
  <2> QED
    BY <1>0, <2>1 DEF ClosureOK, Accounted
<1>9. CASE PublishRolledBack(c)
  BY <1>0, <1>9 DEF PublishRolledBack, ClosureOK, Accounted, Typed, TypeOK
<1>10. CASE Return(c)
  BY <1>0, <1>10 DEF Return, Finish, ClosureOK, Accounted, Typed, TypeOK
<1>11. ASSUME Finish(c, "failed") PROVE ClosureOK(c)'
  BY <1>11 DEF Finish, ClosureOK, Typed, TypeOK
<1>12. CASE Crash
  <2>1. pc'[c] = IF InFlight(c) THEN "failed" ELSE pc[c]
    BY <1>12 DEF Crash
  <2> QED
    BY <1>0, <1>12, <2>1 DEF Crash, ClosureOK, Accounted, InFlight
<1>13. ASSUME NEW d \in Callers, d # c, CallStep(d) PROVE ClosureOK(c)'
  BY <1>1, <1>13, OthersSame
<1>14. ASSUME CallStep(c) PROVE ClosureOK(c)'
  BY <1>2, <1>3, <1>4, <1>5, <1>6, <1>7, <1>8, <1>9, <1>10, <1>11, <1>14
  DEF CallStep, Begin, RejectEmptyRun, Rollback, FailRollback, FailRead,
      FailCreateNotification, FailLinkNotification
<1>15. ASSUME (\E s \in Senders : SendMessage(s)) \/ UNCHANGED vars PROVE ClosureOK(c)'
  BY <1>1, <1>15, SendersApart
<1> QED
  BY <1>12, <1>13, <1>14, <1>15 DEF Next, CallStep

-----------------------------------------------------------------------------
(* Only channels that hold a user's message of the run are notified. *)

OrderHolds(c) == \A ch \in order[c] : \E n \in Messages : Holds(ch, n, run[c])

OnlyClosureInv == OnlyClosureNotified /\ \A c \in Callers : OrderHolds(c)

LEMMA OnlyClosureInit == Init => OnlyClosureInv
  BY DEF Init, OnlyClosureInv, OnlyClosureNotified, OrderHolds, Notice

LEMMA OnlyClosureStep ==
    ASSUME Typed, Unlinked, TargetPending, AnswerInv, OnlyClosureInv, [Next]_vars
    PROVE  OnlyClosureInv'
<1> USE DEF store, bus, partition, post, answer, call, send, vars
<1>0. StoreGrows
  BY Grows
<1>1. ASSUME NEW ch \in Channels, NEW n \in Messages, NEW r \in Runs \cup {NoRun},
             Holds(ch, n, r)
      PROVE  Holds(ch, n, r)'
  BY <1>0, <1>1, ConstantsAssumption DEF StoreGrows, Holds
<1>2. OnlyClosureNotified'
  <2> SUFFICES ASSUME NEW r \in Runs, NEW ch \in Channels, NEW m \in Messages,
                      Notice(m, r, ch)'
               PROVE  \E n \in Messages : Holds(ch, n, r)
    BY <1>1 DEF OnlyClosureNotified
  <2>1. CASE Notice(m, r, ch)
    BY <2>1 DEF OnlyClosureInv, OnlyClosureNotified
  <2>2. ASSUME NEW c \in Callers, Links(c, m, r, ch)
        PROVE  \E n \in Messages : Holds(ch, n, r)
    BY <2>2 DEF Links, TargetPending, OnlyClosureInv, OrderHolds
  <2> QED
    BY <2>1, <2>2, NewNotice
<1>3. ASSUME NEW c \in Callers PROVE OrderHolds(c)'
  <2>1. OrderHolds(c) /\ AnswerOK(c) /\ run[c] \in Runs \cup {NoRun} /\ order[c] \subseteq Channels
    BY DEF OnlyClosureInv, AnswerInv, Typed, TypeOK
  <2>2. ASSUME run'[c] = run[c], order'[c] \subseteq order[c] PROVE OrderHolds(c)'
    BY <1>1, <2>1, <2>2 DEF OrderHolds
  <2>3. ASSUME NEW r, NEW at, Open(c, r, at) PROVE OrderHolds(c)'
    BY <2>3 DEF Open, OrderHolds, Typed, TypeOK
  <2>4. ASSUME NEW m \in Messages, ResolveOwningChannel(c, m) PROVE OrderHolds(c)'
    <3>1. /\ UNCHANGED <<store, run>> /\ pc[c] = "partition" /\ m \in unresolved[c]
          /\ \/ order'[c] = order[c]
             \/ owner[m] # NoChannel /\ order'[c] = order[c] \cup {owner[m]}
      BY <2>4 DEF ResolveOwningChannel, Typed, TypeOK
    <3>2. kind[m] # "absent" /\ workflowRunID[m] = run[c] /\ run[c] \in Runs
      BY <2>1, <3>1 DEF AnswerOK, Tagged, Typed, LocalsOK, InFlight
    <3>3. ASSUME owner[m] # NoChannel
          PROVE  \E n \in Messages : Holds(owner[m], n, run[c])
      <4>1. owner[m] \in Channels
        BY <3>3 DEF Typed, TypeOK
      <4>2. CASE kind[m] = "user"
        BY <3>2, <4>2 DEF Holds
      <4>3. CASE kind[m] = "notification"
        BY <3>2, <4>1, <4>3 DEF Notice, OnlyClosureInv, OnlyClosureNotified
      <4> QED
        BY <3>2, <4>2, <4>3 DEF Typed, TypeOK
    <3> QED
      BY <2>1, <3>1, <3>3 DEF OrderHolds, Holds
  <2>5. ASSUME NEW ch \in Channels, SkipChannel(c, ch) PROVE OrderHolds(c)'
    BY <2>2, <2>5 DEF SkipChannel, Typed, TypeOK
  <2>6. CASE LinkNotification(c)
    BY <2>2, <2>6 DEF LinkNotification, Typed, TypeOK
  <2>7. ASSUME NEW outcome, Finish(c, outcome) PROVE OrderHolds(c)'
    BY <2>2, <2>7 DEF Finish, Typed, TypeOK
  <2>8. CASE Crash
    BY <2>2, <2>8 DEF Crash
  <2>9. ASSUME CallStep(c) PROVE OrderHolds(c)'
    BY <2>2, <2>3, <2>4, <2>5, <2>6, <2>7, <2>9
    DEF CallStep, Begin, RejectEmptyRun, Rollback, ListMessages, StartNotifying,
        CreateNotification, PublishRolledBack, Return, FailRollback, FailRead,
        FailCreateNotification, FailLinkNotification
  <2>10. ASSUME Same(c) PROVE OrderHolds(c)'
    BY <2>2, <2>10 DEF Same
  <2> QED
    BY <2>8, <2>9, <2>10, OthersSame, SendersApart DEF Next, CallStep
<1> QED
  BY <1>2, <1>3 DEF OnlyClosureInv

-----------------------------------------------------------------------------
(* Events name linked messages. *)

LEMMA EventsInit == Init => EventsFollowLinks
  BY DEF Init, EventsFollowLinks

LEMMA EventsStep ==
    ASSUME Typed, Unlinked, EventsFollowLinks, [Next]_vars
    PROVE  EventsFollowLinks'
<1> USE DEF store, bus, call, send, vars
<1>0. StoreGrows
  BY Grows
<1>1. ASSUME NEW e \in EventType, Notice(e.message, e.run, e.channel)
      PROVE  Notice(e.message, e.run, e.channel)'
  BY <1>0, <1>1, ConstantsAssumption DEF EventType, StoreGrows, Notice
<1>2. ASSUME NEW m \in Messages, kind[m] = "user", owner[m] # NoChannel
      PROVE  kind'[m] = "user" /\ owner'[m] # NoChannel
  BY <1>0, <1>2 DEF StoreGrows
<1>3. events \subseteq EventType /\ sent \subseteq Messages
  BY DEF Typed, TypeOK
<1>4. ASSUME UNCHANGED bus PROVE EventsFollowLinks'
  BY <1>1, <1>2, <1>3, <1>4 DEF EventsFollowLinks
<1>5. ASSUME NEW c \in Callers, PublishRolledBack(c) PROVE EventsFollowLinks'
  <2> DEFINE e == [channel |-> target[c], message |-> posting[c], run |-> run[c]]
  <2>1. (events' = events \cup {e} \/ events' = events) /\ UNCHANGED <<sent, store>>
    BY <1>5 DEF PublishRolledBack
  <2>2. Notice(posting[c], run[c], target[c])
    BY <1>5 DEF PublishRolledBack, Unlinked
  <2> QED
    BY <2>1, <2>2 DEF EventsFollowLinks, Notice
<1>6. ASSUME NEW s \in Senders, PublishSent(s) PROVE EventsFollowLinks'
  <2>1. (sent' = sent \cup {sending[s]} \/ sent' = sent) /\ UNCHANGED <<events, store>>
    BY <1>6 DEF PublishSent
  <2>2. kind[sending[s]] = "user" /\ owner[sending[s]] # NoChannel
    BY <1>6 DEF PublishSent, Unlinked
  <2> QED
    BY <2>1, <2>2 DEF EventsFollowLinks, Notice
<1> QED
  BY <1>4, <1>5, <1>6
  DEF Next, Begin, RejectEmptyRun, Open, Rollback, ListMessages,
      ResolveOwningChannel, StartNotifying, SkipChannel, CreateNotification,
      LinkNotification, Return, FailRollback, FailRead, FailCreateNotification,
      FailLinkNotification, SendMessage, CreateMessage, LinkMessage,
      FailCreateMessage, FailLinkMessage, Crash

-----------------------------------------------------------------------------
(* The inductive invariant, and what follows from it. *)

Inv ==
    /\ Typed /\ Unlinked /\ TargetPending
    /\ AnswerInv /\ ClosureInv /\ OnlyClosureInv /\ EventsFollowLinks
    /\ Serial => SerialInv

LEMMA InvInit == Init => Inv
<1>1. Init => TargetPending
  BY DEF Init, TargetPending
<1> QED
  BY <1>1, TypedInit, UnlinkedInit, SerialInit, AnswerInit, ClosureInit,
     OnlyClosureInit, EventsInit DEF Inv

LEMMA InvStep == Inv /\ [Next]_vars => Inv'
<1> SUFFICES ASSUME Inv, [Next]_vars PROVE Inv'
  OBVIOUS
<1>1. Typed' /\ Unlinked' /\ TargetPending'
  BY TypedStep, UnlinkedStep, TargetStep DEF Inv
<1>2. AnswerInv' /\ ClosureInv' /\ OnlyClosureInv' /\ EventsFollowLinks'
  BY AnswerStep, ClosureStep, OnlyClosureStep, EventsStep DEF Inv
<1>3. Serial => SerialInv'
  BY <1>1, OneCallStep, NoticesKnownStep, AtMostOneStep DEF Inv, SerialInv
<1> QED
  BY <1>1, <1>2, <1>3 DEF Inv

LEMMA Inductive == Spec => []Inv
  BY InvInit, InvStep, PTL DEF Spec

\* When a caller waits for its answer before it retries a run, no channel ever
\* holds two rollback notifications of that run, whatever store errors, crashes
\* and retries there are and however the messages of users come in.
THEOREM SingleNotification ==
    ASSUME Serial
    PROVE  Spec => []AtMostOneNotification
<1>1. Inv => AtMostOneNotification
  BY DEF Inv, SerialInv
<1> QED
  BY <1>1, Inductive, PTL

\* The answer of a call, complete or cut short by an error, agrees with the
\* store, even if calls for one run overlap.
THEOREM AnswerSound == Spec => []AnswerMatchesStore
<1>1. Inv => AnswerMatchesStore
  BY DEF Inv, AnswerInv, AnswerOK, AnswerMatchesStore
<1> QED
  BY <1>1, Inductive, PTL

\* A call that returns without an error names every channel that held a message
\* of its run when it listed them.
THEOREM ClosureComplete == Spec => []ClosureAccountedFor
<1>1. Inv => ClosureAccountedFor
  BY DEF Inv, ClosureInv, ClosureOK, ClosureAccountedFor
<1> QED
  BY <1>1, Inductive, PTL

\* Only channels that hold a user's message of the run get its notification.
THEOREM NoStrayNotification == Spec => []OnlyClosureNotified
<1>1. Inv => OnlyClosureNotified
  BY DEF Inv, OnlyClosureInv
<1> QED
  BY <1>1, Inductive, PTL

\* An event delivered always names a message linked to the channel it names.
THEOREM EventsSound == Spec => []EventsFollowLinks
<1>1. Inv => EventsFollowLinks
  BY DEF Inv
<1> QED
  BY <1>1, Inductive, PTL

-----------------------------------------------------------------------------
(* With a bus that loses nothing, what an answer names has been announced. *)

Event(c, i) ==
    [channel |-> notifiedChannelIDs[c][i], message |-> notificationMessageIDs[c][i],
     run |-> run[c]]

\* A call that is not cut short has announced all its notifications but the
\* one it is about to announce.
AnnouncedOK(c) ==
    LET n == Len(notifiedChannelIDs[c]) IN
    /\ pc[c] # "failed" =>
          \A i \in 1..n : Event(c, i) \in events \/ (pc[c] = "publish" /\ i = n)
    /\ pc[c] = "publish" =>
          n > 0 /\ notifiedChannelIDs[c][n] = target[c] /\ notificationMessageIDs[c][n] = posting[c]

AnnouncedInv == ReliableBus => \A c \in Callers : AnnouncedOK(c)

LEMMA AnnouncedInit == Init => AnnouncedInv
  BY DEF Init, AnnouncedInv, AnnouncedOK

LEMMA EventsStay == [Next]_vars => events \subseteq events'
  BY DEF Next, Begin, RejectEmptyRun, Open, Rollback, ListMessages,
     ResolveOwningChannel, StartNotifying, SkipChannel, CreateNotification,
     LinkNotification, PublishRolledBack, Return, FailRollback, FailRead,
     FailCreateNotification, FailLinkNotification, SendMessage, CreateMessage, LinkMessage,
     PublishSent, FailCreateMessage, FailLinkMessage, Crash, bus, vars

LEMMA AnnouncedStep == Inv /\ AnnouncedInv /\ [Next]_vars => AnnouncedInv'
<1> SUFFICES ASSUME Inv, AnnouncedInv, [Next]_vars, ReliableBus, NEW c \in Callers
             PROVE  AnnouncedOK(c)'
  BY DEF AnnouncedInv
<1>a. AnnouncedOK(c) /\ events \subseteq events'
  BY EventsStay DEF AnnouncedInv
<1>b. /\ notifiedChannelIDs[c] \in Seq(Channels) /\ notificationMessageIDs[c] \in Seq(Messages)
      /\ Len(notificationMessageIDs[c]) = Len(notifiedChannelIDs[c])
  BY DEF Inv, Typed, TypeOK, AnswerInv, AnswerOK, AnswerMatches
\* What has been announced stays so.
<1>c. ASSUME notifiedChannelIDs'[c] = notifiedChannelIDs[c],
             notificationMessageIDs'[c] = notificationMessageIDs[c], run'[c] = run[c]
      PROVE  \A i : Event(c, i)' = Event(c, i)
  BY <1>c DEF Event
<1>1. ASSUME Same(c) PROVE AnnouncedOK(c)'
  <2>1. \A i : Event(c, i)' = Event(c, i)
    BY <1>1, <1>c DEF Same
  <2> QED
    BY <1>1, <1>a, <2>1 DEF Same, AnnouncedOK
<1>2. ASSUME notifiedChannelIDs'[c] = <<>>, pc'[c] # "publish" PROVE AnnouncedOK(c)'
  BY <1>2 DEF AnnouncedOK
<1>3. ASSUME notifiedChannelIDs'[c] = notifiedChannelIDs[c],
             notificationMessageIDs'[c] = notificationMessageIDs[c], run'[c] = run[c],
             pc[c] \notin {"publish", "failed"}, pc'[c] # "publish"
      PROVE  AnnouncedOK(c)'
  <2>1. \A i : Event(c, i)' = Event(c, i)
    BY <1>3, <1>c
  <2> QED
    BY <1>3, <1>a, <2>1 DEF AnnouncedOK
<1>4. ASSUME pc'[c] = "failed" PROVE AnnouncedOK(c)'
  BY <1>4 DEF AnnouncedOK
<1> USE DEF answer, partition, post
<1>5. ASSUME NEW r, NEW at \in {"list", "failed"}, Open(c, r, at) PROVE AnnouncedOK(c)'
  <2>1. notifiedChannelIDs'[c] = <<>> /\ pc'[c] = at
    BY <1>5 DEF Open, Inv, Typed, TypeOK
  <2> QED
    BY <2>1, <1>2
<1>6. CASE \/ ListMessages(c) \/ StartNotifying(c)
           \/ \E m \in Messages : ResolveOwningChannel(c, m)
           \/ \E ch \in Channels : SkipChannel(c, ch)
           \/ \E ch \in Channels, m \in Messages : CreateNotification(c, ch, m)
  <2>1. /\ UNCHANGED <<notifiedChannelIDs, notificationMessageIDs, run>>
        /\ pc[c] \notin {"publish", "failed"} /\ pc'[c] # "publish"
    BY <1>6 DEF ListMessages, StartNotifying, ResolveOwningChannel, SkipChannel,
                CreateNotification, Inv, Typed, TypeOK
  <2> QED
    BY <2>1, <1>3
<1>7. CASE LinkNotification(c)
  <2> DEFINE notified == notifiedChannelIDs[c]
             ids == notificationMessageIDs[c]
  <2>1. /\ pc[c] = "link" /\ pc'[c] = "publish" /\ run' = run
        /\ target'[c] = target[c] /\ posting'[c] = posting[c]
        /\ target[c] \in Channels /\ posting[c] \in Messages
        /\ notifiedChannelIDs'[c] = Append(notified, target[c])
        /\ notificationMessageIDs'[c] = Append(ids, posting[c])
    BY <1>7 DEF LinkNotification, Inv, Typed, TypeOK, LocalsOK
  <2>2. /\ Len(Append(notified, target[c])) = Len(notified) + 1
        /\ Append(notified, target[c])[Len(notified) + 1] = target[c]
        /\ Append(ids, posting[c])[Len(notified) + 1] = posting[c]
        /\ \A i \in 1..Len(notified) : /\ Append(notified, target[c])[i] = notified[i]
                                       /\ Append(ids, posting[c])[i] = ids[i]
    BY <1>b, <2>1
  <2>3. \A i \in 1..Len(notified) : Event(c, i)' \in events'
    BY <1>a, <2>1, <2>2 DEF AnnouncedOK, Event
  <2>4. Len(notified) \in Nat
    BY <1>b
  <2>5. 1..(Len(notified) + 1) = 1..Len(notified) \cup {Len(notified) + 1}
    BY <2>4
  <2> QED
    BY <2>1, <2>2, <2>3, <2>4, <2>5 DEF AnnouncedOK
<1>8. CASE PublishRolledBack(c)
  <2> DEFINE n == Len(notifiedChannelIDs[c])
  <2>1. /\ pc[c] = "publish" /\ pc'[c] = "notify"
        /\ UNCHANGED <<notifiedChannelIDs, notificationMessageIDs, run>>
        /\ [channel |-> target[c], message |-> posting[c], run |-> run[c]] \in events'
    BY <1>8 DEF PublishRolledBack, Inv, Typed, TypeOK
  <2>2. \A i : Event(c, i)' = Event(c, i)
    BY <1>c, <2>1
  <2>3. Event(c, n) \in events'
    BY <1>a, <2>1 DEF AnnouncedOK, Event
  <2> QED
    BY <1>a, <2>1, <2>2, <2>3 DEF AnnouncedOK
<1>9. CASE Return(c)
  <2>1. /\ UNCHANGED <<notifiedChannelIDs, notificationMessageIDs, run>>
        /\ pc[c] = "notify" /\ pc'[c] = "returned"
    BY <1>9 DEF Return, Finish, Inv, Typed, TypeOK
  <2> QED
    BY <2>1, <1>3
<1>10. CASE FailRollback(c)
  <2>1. pc'[c] = "failed"
    BY <1>10 DEF FailRollback, FailRead, FailCreateNotification, FailLinkNotification, Finish,
                 Inv, Typed, TypeOK
  <2> QED
    BY <2>1, <1>4
<1>11. CASE Crash
  <2>1. pc'[c] = (IF InFlight(c) THEN "failed" ELSE pc[c]) /\ UNCHANGED <<run, answer>>
    BY <1>11 DEF Crash
  <2>2. CASE ~InFlight(c) /\ pc[c] # "failed"
    BY <2>1, <2>2, <1>3 DEF InFlight
  <2> QED
    BY <2>1, <2>2, <1>4
<1>12. ASSUME NEW d \in Callers, d # c, CallStep(d) PROVE AnnouncedOK(c)'
  BY <1>1, <1>12, OthersSame DEF Inv
<1>13. ASSUME CallStep(c) PROVE AnnouncedOK(c)'
  BY <1>5, <1>6, <1>7, <1>8, <1>9, <1>10, <1>13
  DEF CallStep, Begin, RejectEmptyRun, Rollback
<1>14. ASSUME (\E s \in Senders : SendMessage(s)) \/ UNCHANGED vars PROVE AnnouncedOK(c)'
  BY <1>1, <1>14, SendersApart
<1> QED
  BY <1>11, <1>12, <1>13, <1>14 DEF Next, CallStep

\* With a bus that loses nothing, every notification that the answer of a
\* completed call names has had its event, whatever failed before.
THEOREM AnnouncedBeforeAnswered == Spec => []NamedNotificationsAnnounced
<1>1. Init => AnnouncedInv
  BY AnnouncedInit
<1>2. Inv /\ AnnouncedInv /\ [Next]_vars => AnnouncedInv'
  BY AnnouncedStep
<1>3. AnnouncedInv => NamedNotificationsAnnounced
  BY DEF AnnouncedInv, AnnouncedOK, Event, NamedNotificationsAnnounced
<1> QED
  BY <1>1, <1>2, <1>3, Inductive, PTL DEF Spec
=============================================================================
