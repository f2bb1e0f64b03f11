------------------------ MODULE RollbackPromiseProofs ------------------------
(***************************************************************************)
(* WorkflowRunRollback implements RollbackPromise, proved step by step from *)
(* the invariants of WorkflowRunRollbackProofs.                             *)
(***************************************************************************)
EXTENDS WorkflowRunRollbackProofs

USE DEF OwningChannel, IsRollbackNotification, Rest, Unnotified

NoCall == [phase |-> "none", run |-> NoRun, listed |-> {}, claimed |-> {}]

LEMMA PromiseInit == Init => Promise!Init
<1> SUFFICES ASSUME Init PROVE Promise!Init
  OBVIOUS
<1>1. Closure = [r \in Runs |-> {}]
  BY DEF Init, Closure, Holds
<1>2. Posted = [r \in Runs |-> [ch \in Channels |-> {}]]
  BY DEF Init, Posted, Notice
<1>3. Asked = [c \in Callers |-> NoCall]
  BY DEF Init, Asked, Phase, NoCall
<1> QED
  BY <1>1, <1>2, <1>3 DEF Init, Promise!Init, Promise!NoCall, NoCall

-----------------------------------------------------------------------------
(* What a store call does to the closure and to the notices *)

LEMMA StoreSame ==
    ASSUME UNCHANGED store
    PROVE  Closure' = Closure /\ Posted' = Posted
  BY DEF store, Closure, Posted, Holds, Notice

\* A message that no channel holds yet is neither in the closure nor a notice.
LEMMA CreateSame ==
    ASSUME Typed, NEW n \in Messages, NEW k, NEW r, Create(n, k, r)
    PROVE  Closure' = Closure /\ Posted' = Posted
<1>1. ASSUME NEW m \in Messages, NEW q \in Runs, NEW ch \in Channels
      PROVE  (Holds(ch, m, q)' <=> Holds(ch, m, q)) /\ (Notice(m, q, ch)' <=> Notice(m, q, ch))
  BY ConstantsAssumption DEF Create, Fresh, Holds, Notice, Typed, TypeOK
<1>2. \A q \in Runs : {ch \in Channels : \E m \in Messages : Holds(ch, m, q)}' =
                       {ch \in Channels : \E m \in Messages : Holds(ch, m, q)}
  BY <1>1
<1>3. \A q \in Runs, ch \in Channels :
         {m \in Messages : Notice(m, q, ch)}' = {m \in Messages : Notice(m, q, ch)}
  BY <1>1
<1> QED
  BY <1>2, <1>3 DEF Closure, Posted

\* The edge of a user's message makes its channel join the closure of its run.
LEMMA LinkJoins ==
    ASSUME Typed, NEW n \in Messages, NEW x \in Channels, Link(x, n),
           kind[n] = "user", owner[n] = NoChannel
    PROVE  /\ Posted' = Posted
           /\ \/ Closure' = Closure
              \/ \E q \in Runs : Closure' = [Closure EXCEPT ![q] = Closure[q] \cup {x}]
<1> DEFINE q == workflowRunID[n]
<1>1. ASSUME NEW m \in Messages, NEW r \in Runs, NEW ch \in Channels
      PROVE  /\ Notice(m, r, ch)' <=> Notice(m, r, ch)
             /\ Holds(ch, m, r)' <=> Holds(ch, m, r) \/ (m = n /\ r = q /\ ch = x)
  BY ConstantsAssumption DEF Link, Holds, Notice, Typed, TypeOK
<1>2. Posted' = Posted
  <2>1. \A r \in Runs, ch \in Channels :
           {m \in Messages : Notice(m, r, ch)}' = {m \in Messages : Notice(m, r, ch)}
    BY <1>1
  <2> QED
    BY <2>1 DEF Posted
<1>3. ASSUME NEW r \in Runs
      PROVE  {ch \in Channels : \E m \in Messages : Holds(ch, m, r)}' =
                IF r = q THEN Closure[r] \cup {x} ELSE Closure[r]
  <2>1. Closure[r] = {ch \in Channels : \E m \in Messages : Holds(ch, m, r)}
    BY DEF Closure
  <2>2. \A ch \in Channels : (\E m \in Messages : Holds(ch, m, r)') <=>
                              (ch \in Closure[r] \/ (r = q /\ ch = x))
    BY <1>1, <2>1
  <2> QED
    BY <2>1, <2>2
<1>4. Closure' = [r \in Runs |-> IF r = q THEN Closure[r] \cup {x} ELSE Closure[r]]
  BY <1>3 DEF Closure
<1>5. Closure = [r \in Runs |-> Closure[r]]
  BY DEF Closure
<1>6. CASE q \in Runs
  BY <1>2, <1>4, <1>5, <1>6
<1>7. CASE q \notin Runs
  BY <1>2, <1>4, <1>5, <1>7
<1> QED
  BY <1>6, <1>7

\* The edge of a notification posts it, and changes nothing else.
LEMMA LinkPosts ==
    ASSUME Typed, NEW n \in Messages, NEW q \in Runs, NEW x \in Channels, Link(x, n),
           Notice(n, q, NoChannel)
    PROVE  /\ Closure' = Closure
           /\ \A r \in Runs, ch \in Channels : n \notin Posted[r][ch]
           /\ Posted' = [Posted EXCEPT ![q] = [Posted[q] EXCEPT ![x] = Posted[q][x] \cup {n}]]
<1>1. ASSUME NEW m \in Messages, NEW r \in Runs, NEW ch \in Channels
      PROVE  /\ Holds(ch, m, r)' <=> Holds(ch, m, r)
             /\ Notice(m, r, ch)' <=> Notice(m, r, ch) \/ (m = n /\ r = q /\ ch = x)
  BY ConstantsAssumption DEF Link, Holds, Notice, Typed, TypeOK
<1>2. Closure' = Closure
  <2>1. \A r \in Runs : {ch \in Channels : \E m \in Messages : Holds(ch, m, r)}' =
                         {ch \in Channels : \E m \in Messages : Holds(ch, m, r)}
    BY <1>1
  <2> QED
    BY <2>1 DEF Closure
<1>3. \A r \in Runs, ch \in Channels : n \notin Posted[r][ch]
  BY ConstantsAssumption DEF Posted, Notice
<1>4. ASSUME NEW r \in Runs, NEW ch \in Channels
      PROVE  {m \in Messages : Notice(m, r, ch)}' =
                IF r = q /\ ch = x THEN {m \in Messages : Notice(m, r, ch)} \cup {n}
                                  ELSE {m \in Messages : Notice(m, r, ch)}
  BY <1>1
<1>5. Posted' = [r \in Runs |-> [ch \in Channels |->
                    IF r = q /\ ch = x THEN {m \in Messages : Notice(m, r, ch)} \cup {n}
                                      ELSE {m \in Messages : Notice(m, r, ch)}]]
  BY <1>4 DEF Posted
<1>6. [Posted EXCEPT ![q] = [Posted[q] EXCEPT ![x] = Posted[q][x] \cup {n}]] =
         [r \in Runs |-> [ch \in Channels |->
             IF r = q /\ ch = x THEN {m \in Messages : Notice(m, r, ch)} \cup {n}
                               ELSE {m \in Messages : Notice(m, r, ch)}]]
  BY DEF Posted
<1> QED
  BY <1>2, <1>3, <1>5, <1>6

-----------------------------------------------------------------------------
(* What a step does to the calls *)

AskedOf(c) ==
    [phase |-> Phase(c),
     run |-> IF Phase(c) = "none" THEN NoRun ELSE run[c],
     listed |-> IF Phase(c) \in {"listed", "answered"} THEN due[c] ELSE {},
     claimed |-> IF Phase(c) = "answered" THEN Accounted(c) ELSE {}]

LEMMA AskedIs == Asked = [c \in Callers |-> AskedOf(c)]
  BY DEF Asked, AskedOf

LEMMA AskedKept == ASSUME NEW c \in Callers, Same(c) PROVE AskedOf(c)' = AskedOf(c)
  BY DEF Same, AskedOf, Phase, Accounted

LEMMA AskedMoves ==
    ASSUME Typed, NEW c \in Callers, CallStep(c)
    PROVE  Asked' = [Asked EXCEPT ![c] = AskedOf(c)']
<1>1. \A d \in Callers \ {c} : AskedOf(d)' = AskedOf(d)
  BY OthersSame, AskedKept
<1>2. Asked' = [d \in Callers |-> AskedOf(d)']
  BY DEF Asked, AskedOf
<1> QED
  BY <1>1, <1>2, AskedIs

LEMMA AskedStutters ==
    ASSUME \A c \in Callers : Same(c)
    PROVE  Asked' = Asked
<1>1. Asked' = [d \in Callers |-> AskedOf(d)']
  BY DEF Asked, AskedOf
<1> QED
  BY <1>1, AskedKept, AskedIs

\* What a call stands for, by where it is.
Stands(c) ==
    /\ pc[c] \in {"idle", "failed"} => AskedOf(c) = NoCall
    /\ pc[c] = "list" => AskedOf(c) =
          [phase |-> "asked", run |-> run[c], listed |-> {}, claimed |-> {}]
    /\ pc[c] \in {"partition", "notify", "link", "publish"} => AskedOf(c) =
          [phase |-> "listed", run |-> run[c], listed |-> due[c], claimed |-> {}]
    /\ pc[c] = "returned" => AskedOf(c) =
          [phase |-> "answered", run |-> run[c], listed |-> due[c], claimed |-> Accounted(c)]
    /\ InFlight(c) <=> AskedOf(c).phase \in {"asked", "listed"}

LEMMA StandsNow == ASSUME Typed, NEW c \in Callers PROVE Stands(c)
<1>1. pc[c] \in {"idle", "list", "partition", "notify", "link", "publish", "returned", "failed"}
  BY DEF Typed, TypeOK
<1> QED
  BY <1>1 DEF Stands, AskedOf, Phase, NoCall, InFlight

LEMMA StandsNext == ASSUME Typed', NEW c \in Callers PROVE Stands(c)'
<1>1. pc'[c] \in {"idle", "list", "partition", "notify", "link", "publish", "returned", "failed"}
  BY DEF Typed, TypeOK
<1> QED
  BY <1>1 DEF Stands, AskedOf, Phase, NoCall, InFlight

-----------------------------------------------------------------------------
(* Each step is a step of the promise or a stutter. *)

\* The call of c is lost, and left nothing in the closure and no notice.
LEMMA LoseStep ==
    ASSUME Typed, Typed', NEW c \in Callers, CallStep(c), pc'[c] = "failed",
           Closure' = Closure, Posted' = Posted, UNCHANGED events
    PROVE  Promise!GiveUp({c})
<1>1. AskedOf(c)' = NoCall
  BY StandsNext DEF Stands
<1>2. Asked' = [d \in Callers |-> IF d \in {c} THEN NoCall ELSE Asked[d]]
  BY <1>1, AskedMoves, AskedIs
<1> QED
  BY <1>2 DEF Promise!GiveUp, Promise!NoCall, NoCall

\* A call that goes on in its loops, past its listing, is the call it was.
LEMMA LoopStep ==
    ASSUME Typed, Typed', NEW c \in Callers, CallStep(c),
           pc[c] \in {"partition", "notify", "link", "publish"},
           pc'[c] \in {"partition", "notify", "link", "publish"},
           run'[c] = run[c], due'[c] = due[c]
    PROVE  Asked' = Asked
<1>1. AskedOf(c)' = AskedOf(c)
  BY StandsNow, StandsNext DEF Stands
<1> QED
  BY <1>1, AskedMoves, AskedIs

LEMMA BeginStep ==
    ASSUME Typed, Typed', NEW c \in Callers, NEW r \in Runs, Begin(c, r)
    PROVE  Promise!Ask(c, r)
<1>1. /\ pc'[c] = "list" /\ run'[c] = r /\ ~InFlight(c) /\ CallStep(c)
      /\ UNCHANGED <<store, events>>
  BY DEF Begin, Open, CallStep, Typed, TypeOK, bus
<1>2. AskedOf(c)' = [phase |-> "asked", run |-> r, listed |-> {}, claimed |-> {}]
  BY <1>1, StandsNext DEF Stands
<1>3. ~Promise!UnderWay(c)
  BY <1>1, StandsNow, AskedIs DEF Stands, Promise!UnderWay
<1>4. ASSUME Serial, NEW d \in Callers, Promise!UnderWay(d) PROVE Asked[d].run # r
  <2>1. InFlight(d) /\ Asked[d] = AskedOf(d)
    BY <1>4, StandsNow, AskedIs DEF Stands, Promise!UnderWay
  <2>2. AskedOf(d).run = run[d]
    BY <2>1, StandsNow DEF Stands, InFlight
  <2> QED
    BY <1>4, <2>1, <2>2 DEF Begin
<1> QED
  BY <1>1, <1>2, <1>3, <1>4, AskedMoves, StoreSame DEF Promise!Ask

\* What a call lists is the closure: a channel that holds a notification of a
\* run holds a user's message of it.
LEMMA ListStep ==
    ASSUME Inv, Typed', NEW c \in Callers, ListMessages(c)
    PROVE  run[c] \in Runs /\ Promise!List(c, run[c])
<1>0. Typed /\ OnlyClosureNotified
  BY DEF Inv, OnlyClosureInv
<1>1. /\ pc[c] = "list" /\ pc'[c] = "partition" /\ run'[c] = run[c] /\ CallStep(c)
      /\ due'[c] = {ch \in Channels : \E m \in Messages : Tagged(m, run[c]) /\ owner[m] = ch}
      /\ UNCHANGED <<store, events>> /\ run[c] \in Runs
  BY <1>0 DEF ListMessages, CallStep, Rollback, Typed, TypeOK, LocalsOK, InFlight, bus
<1>2. ASSUME NEW ch \in Channels
      PROVE  (\E m \in Messages : Tagged(m, run[c]) /\ owner[m] = ch) <=>
                (\E m \in Messages : Holds(ch, m, run[c]))
  <2>1. ASSUME NEW m \in Messages, Tagged(m, run[c]), owner[m] = ch
        PROVE  \E n \in Messages : Holds(ch, n, run[c])
    <3>1. CASE kind[m] = "user"
      BY <2>1, <3>1 DEF Tagged, Holds
    <3>2. CASE kind[m] = "notification"
      BY <1>0, <1>1, <2>1, <3>2 DEF Tagged, Notice, OnlyClosureNotified
    <3> QED
      BY <1>0, <2>1, <3>1, <3>2 DEF Tagged, Typed, TypeOK
  <2> QED
    BY <2>1 DEF Holds, Tagged
<1>3. due'[c] = Closure[run[c]]
  BY <1>1, <1>2 DEF Closure
<1>4. Asked[c].phase = "asked" /\ Asked[c].run = run[c]
  BY <1>0, <1>1, StandsNow, AskedIs DEF Stands
<1>5. AskedOf(c)' = [phase |-> "listed", run |-> run[c], listed |-> Closure[run[c]],
                     claimed |-> {}]
  BY <1>1, <1>3, StandsNext DEF Stands
<1> QED
  BY <1>0, <1>1, <1>4, <1>5, AskedMoves, StoreSame DEF Promise!List

\* A notification is linked by the call that created it.
LEMMA NotifyStep ==
    ASSUME Inv, Typed', NEW c \in Callers, CallStep(c), pc[c] = "link",
           Link(target[c], posting[c]), UNCHANGED events,
           \/ pc'[c] = "publish" /\ run'[c] = run[c] /\ due'[c] = due[c]
           \/ pc'[c] = "failed"
    PROVE  \E r \in Runs, ch \in Channels, m \in Messages : Promise!Notify(c, r, ch, m)
<1>0. Typed /\ Unlinked /\ TargetPending /\ OnlyClosureInv /\ (Serial => SerialInv)
  BY DEF Inv
<1> DEFINE q == run[c]
           x == target[c]
           n == posting[c]
<1>1. /\ q \in Runs /\ x \in Channels /\ n \in Messages
      /\ Notice(n, q, NoChannel)
  BY <1>0 DEF Typed, LocalsOK, InFlight, Unlinked
<1>2. Asked[c].phase = "listed" /\ Asked[c].run = q
  BY <1>0, StandsNow, AskedIs DEF Stands
<1>3. x \in Closure[q]
  BY <1>0, <1>1 DEF TargetPending, OnlyClosureInv, OrderHolds, Closure
<1>4. Serial => Posted[q][x] = {}
  BY <1>0, <1>1 DEF Posted, SerialInv, TargetPending, NoticesKnown, Knows, Notice
<1>5. /\ Closure' = Closure
      /\ \A r \in Runs, ch \in Channels : n \notin Posted[r][ch]
      /\ Posted' = [Posted EXCEPT ![q] = [Posted[q] EXCEPT ![x] = Posted[q][x] \cup {n}]]
  BY <1>0, <1>1, LinkPosts
<1>6. AskedOf(c)' = AskedOf(c) \/ AskedOf(c)' = NoCall
  BY <1>0, StandsNow, StandsNext DEF Stands
<1>7. Asked' = Asked \/ Asked' = [Asked EXCEPT ![c] = NoCall]
  BY <1>0, <1>6, AskedMoves, AskedIs
<1>8. Promise!Notify(c, q, x, n)
  <2> HIDE DEF q, x, n
  <2> QED
    BY <1>2, <1>3, <1>4, <1>5, <1>7 DEF Promise!Notify, Promise!NoCall, NoCall
<1> QED
  BY <1>1, <1>8

LEMMA ReturnStep ==
    ASSUME Inv, Typed', NEW c \in Callers, Return(c)
    PROVE  \E r \in Runs, claimed \in SUBSET Channels : Promise!Claim(c, r, claimed)
<1>0. Typed /\ AnswerOK(c) /\ ClosureOK(c)
  BY DEF Inv, AnswerInv, ClosureInv
<1>1. /\ pc[c] = "notify" /\ pc'[c] = "returned" /\ order[c] = {} /\ CallStep(c)
      /\ UNCHANGED <<run, due, answer, store, events>>
  BY <1>0 DEF Return, Finish, CallStep, Rollback, Typed, TypeOK, bus
<1>2. run[c] \in Runs /\ Accounted(c) \in SUBSET Channels
  BY <1>0, <1>1 DEF Typed, TypeOK, LocalsOK, InFlight, Accounted, Slice
<1>3. Asked[c] = [phase |-> "listed", run |-> run[c], listed |-> due[c], claimed |-> {}]
  BY <1>0, <1>1, StandsNow, AskedIs DEF Stands
<1>4. Accounted(c)' = Accounted(c)
  BY <1>1 DEF Accounted, answer
<1>5. AskedOf(c)' = [phase |-> "answered", run |-> run[c], listed |-> due[c],
                     claimed |-> Accounted(c)]
  BY <1>1, <1>4, StandsNext DEF Stands
<1>6. due[c] \subseteq Accounted(c)
  BY <1>0, <1>1 DEF ClosureOK
<1>7. ASSUME NEW ch \in Accounted(c) PROVE Posted[run[c]][ch] # {}
  <2>1. \E m \in Messages : Notice(m, run[c], ch)
    <3>1. CASE ch \in Slice(skippedChannelIDs[c])
      BY <1>0, <3>1 DEF AnswerOK, AnswerMatches
    <3>2. CASE ch \in Slice(notifiedChannelIDs[c])
      <4>1. PICK i \in 1..Len(notifiedChannelIDs[c]) : ch = notifiedChannelIDs[c][i]
        BY <3>2 DEF Slice
      <4>2. /\ Notice(notificationMessageIDs[c][i], run[c], ch)
            /\ Len(notificationMessageIDs[c]) = Len(notifiedChannelIDs[c])
            /\ notificationMessageIDs[c] \in Seq(Messages)
        BY <1>0, <4>1 DEF AnswerOK, AnswerMatches, Typed, TypeOK
      <4> QED
        BY <4>2
    <3> QED
      BY <3>1, <3>2 DEF Accounted
  <2> QED
    BY <1>2, <2>1 DEF Posted
<1>8. Promise!Claim(c, run[c], Accounted(c))
  BY <1>0, <1>1, <1>3, <1>5, <1>6, <1>7, AskedMoves, StoreSame DEF Promise!Claim
<1> QED
  BY <1>2, <1>8

\* An event is published for the notice its call has just linked.
LEMMA PublishStep ==
    ASSUME Inv, Typed', NEW c \in Callers, PublishRolledBack(c)
    PROVE  [Promise!Next]_(Promise!vars)
<1>0. Typed /\ Unlinked
  BY DEF Inv
<1>1. /\ pc[c] = "publish" /\ pc'[c] = "notify" /\ CallStep(c) /\ UNCHANGED store
      /\ run'[c] = run[c] /\ due'[c] = due[c]
  BY <1>0 DEF PublishRolledBack, CallStep, Rollback, Typed, TypeOK, partition
<1>2. Asked' = Asked /\ Closure' = Closure /\ Posted' = Posted
  BY <1>0, <1>1, LoopStep, StoreSame
<1>3. CASE events' = events
  BY <1>2, <1>3 DEF Promise!vars
<1>4. CASE events' = events \cup {[channel |-> target[c], message |-> posting[c], run |-> run[c]]}
  <2>1. /\ run[c] \in Runs /\ target[c] \in Channels /\ posting[c] \in Messages
        /\ Notice(posting[c], run[c], target[c])
    BY <1>0, <1>1 DEF Typed, LocalsOK, InFlight, Unlinked
  <2>2. posting[c] \in Posted[run[c]][target[c]]
    BY <2>1 DEF Posted
  <2>3. Promise!Announce(run[c], target[c], posting[c])
    BY <1>2, <1>4, <2>2 DEF Promise!Announce
  <2> QED
    BY <2>1, <2>3 DEF Promise!Next
<1> QED
  BY <1>3, <1>4 DEF PublishRolledBack

LEMMA RollbackStep ==
    ASSUME Inv, Typed', NEW c \in Callers, Rollback(c)
    PROVE  [Promise!Next]_(Promise!vars)
<1>0. Typed /\ CallStep(c)
  BY DEF Inv, CallStep
<1>1. ASSUME pc[c] \in {"partition", "notify"}, pc'[c] \in {"partition", "notify", "link"},
             run'[c] = run[c], due'[c] = due[c], UNCHANGED events,
             Closure' = Closure, Posted' = Posted
      PROVE  UNCHANGED Promise!vars
  BY <1>0, <1>1, LoopStep DEF Promise!vars
<1>2. CASE ListMessages(c)
  BY <1>2, ListStep DEF Promise!Next
<1>3. ASSUME NEW m \in Messages, ResolveOwningChannel(c, m) PROVE UNCHANGED Promise!vars
  BY <1>1, <1>3, StoreSame DEF ResolveOwningChannel, bus
<1>4. CASE StartNotifying(c)
  BY <1>0, <1>1, <1>4, StoreSame DEF StartNotifying, bus, partition, Typed, TypeOK
<1>5. ASSUME NEW ch \in Channels, SkipChannel(c, ch) PROVE UNCHANGED Promise!vars
  BY <1>1, <1>5, StoreSame DEF SkipChannel, bus
<1>6. ASSUME NEW ch \in Channels, NEW m \in Messages, CreateNotification(c, ch, m)
      PROVE  UNCHANGED Promise!vars
  BY <1>0, <1>1, <1>6, CreateSame DEF CreateNotification, bus, partition, Typed, TypeOK
<1>7. CASE LinkNotification(c)
  <2>1. /\ pc[c] = "link" /\ pc'[c] = "publish" /\ Link(target[c], posting[c])
        /\ UNCHANGED events /\ run'[c] = run[c] /\ due'[c] = due[c]
    BY <1>0, <1>7 DEF LinkNotification, bus, Typed, TypeOK
  <2> QED
    BY <1>0, <2>1, NotifyStep DEF Promise!Next
<1>8. CASE PublishRolledBack(c)
  BY <1>8, PublishStep
<1>9. CASE Return(c)
  BY <1>9, ReturnStep DEF Promise!Next
<1> QED
  BY <1>2, <1>3, <1>4, <1>5, <1>6, <1>7, <1>8, <1>9 DEF Rollback

LEMMA FailStep ==
    ASSUME Inv, Typed', NEW c \in Callers, FailRollback(c)
    PROVE  Promise!Next
<1>0. Typed /\ CallStep(c) /\ pc'[c] = "failed" /\ UNCHANGED events
  BY DEF Inv, CallStep, FailRollback, FailRead, FailCreateNotification, FailLinkNotification,
         Finish, Typed, TypeOK, bus
<1>1. ASSUME Closure' = Closure, Posted' = Posted PROVE Promise!Next
  BY <1>0, <1>1, LoseStep DEF Promise!Next
<1>2. CASE UNCHANGED store
  BY <1>1, <1>2, StoreSame
<1>3. ASSUME NEW m \in Messages, Create(m, "notification", run[c]) PROVE Promise!Next
  BY <1>0, <1>1, <1>3, CreateSame
<1>4. CASE pc[c] = "link" /\ Link(target[c], posting[c])
  BY <1>0, <1>4, NotifyStep DEF Promise!Next
<1> QED
  BY <1>2, <1>3, <1>4
  DEF FailRollback, FailRead, FailCreateNotification, FailLinkNotification

\* A sender only ever makes a channel join a closure.
LEMMA SendStep ==
    ASSUME Inv, NEW s \in Senders, SendMessage(s)
    PROVE  [Promise!Next]_(Promise!vars)
<1>0. Typed /\ Unlinked
  BY DEF Inv
<1>1. Asked' = Asked
  BY SendersApart, AskedStutters
<1>2. UNCHANGED events
  BY DEF SendMessage, CreateMessage, LinkMessage, PublishSent, FailCreateMessage,
         FailLinkMessage, bus
<1>3. ASSUME NEW m \in Messages, NEW r, Create(m, "user", r) PROVE UNCHANGED Promise!vars
  BY <1>0, <1>1, <1>2, <1>3, CreateSame DEF Promise!vars
<1>4. CASE UNCHANGED store
  BY <1>1, <1>2, <1>4, StoreSame DEF Promise!vars
<1>5. CASE sendPc[s] = "link" /\ Link(sendChannel[s], sending[s])
  <2>1. /\ sending[s] \in Messages /\ sendChannel[s] \in Channels
        /\ kind[sending[s]] = "user" /\ owner[sending[s]] = NoChannel
    BY <1>0, <1>5 DEF Unlinked, Typed, LocalsOK
  <2>2. /\ Posted' = Posted
        /\ \/ Closure' = Closure
           \/ \E q \in Runs : Closure' = [Closure EXCEPT ![q] = Closure[q] \cup {sendChannel[s]}]
    BY <1>0, <1>5, <2>1, LinkJoins
  <2>3. CASE Closure' = Closure
    BY <1>1, <1>2, <2>2, <2>3 DEF Promise!vars
  <2>4. ASSUME NEW q \in Runs, Closure' = [Closure EXCEPT ![q] = Closure[q] \cup {sendChannel[s]}]
        PROVE  Promise!Join(q, sendChannel[s])
    BY <1>1, <1>2, <2>2, <2>4 DEF Promise!Join
  <2> QED
    BY <2>1, <2>2, <2>3, <2>4 DEF Promise!Next
<1> QED
  BY <1>3, <1>4, <1>5
  DEF SendMessage, CreateMessage, LinkMessage, PublishSent, FailCreateMessage, FailLinkMessage

LEMMA CrashStep ==
    ASSUME Inv, Typed', Crash
    PROVE  \E lost \in SUBSET Callers : Promise!GiveUp(lost)
<1> DEFINE lost == {c \in Callers : InFlight(c)}
<1>0. Typed
  BY DEF Inv
<1>1. UNCHANGED <<store, events>>
  BY DEF Crash, bus
<1>2. ASSUME NEW c \in Callers
      PROVE  AskedOf(c)' = IF c \in lost THEN NoCall ELSE AskedOf(c)
  <2>1. pc'[c] = IF InFlight(c) THEN "failed" ELSE pc[c]
    BY DEF Crash
  <2>2. CASE InFlight(c)
    BY <2>1, <2>2, StandsNext DEF Stands
  <2>3. CASE ~InFlight(c)
    BY <2>1, <2>3 DEF Crash, AskedOf, Phase, Accounted, answer
  <2> QED
    BY <2>2, <2>3
<1>3. Asked' = [c \in Callers |-> AskedOf(c)']
  BY DEF Asked, AskedOf
<1>4. Asked' = [c \in Callers |-> IF c \in lost THEN NoCall ELSE Asked[c]]
  BY <1>2, <1>3, AskedIs
<1>5. Promise!GiveUp(lost)
  BY <1>1, <1>4, StoreSame DEF Promise!GiveUp, Promise!NoCall, NoCall
<1> QED
  BY <1>5

LEMMA PromiseStep ==
    ASSUME Inv, Inv', [Next]_vars
    PROVE  [Promise!Next]_(Promise!vars)
<1>0. Typed /\ Typed'
  BY DEF Inv
<1>1. ASSUME NEW c \in Callers, NEW r \in Runs, Begin(c, r) PROVE Promise!Next
  BY <1>0, <1>1, BeginStep DEF Promise!Next
<1>2. ASSUME NEW c \in Callers, RejectEmptyRun(c) PROVE Promise!Next
  <2>1. pc'[c] = "failed" /\ CallStep(c) /\ UNCHANGED <<store, events>>
    BY <1>0, <1>2 DEF RejectEmptyRun, Open, CallStep, Typed, TypeOK, bus
  <2> QED
    BY <1>0, <2>1, LoseStep, StoreSame DEF Promise!Next
<1>3. CASE Crash
  BY <1>0, <1>3, CrashStep DEF Promise!Next
<1>4. CASE UNCHANGED vars
  BY <1>4, SendersApart, AskedStutters, StoreSame DEF vars, bus, Promise!vars
<1> QED
  BY <1>0, <1>1, <1>2, <1>3, <1>4, RollbackStep, FailStep, SendStep DEF Next

\* For any callers, runs and channels and any number of errors and crashes, the
\* rollback leg does nothing RollbackPromise rules out; when callers wait for
\* their answers that includes a second notice of a run in a channel.
THEOREM RollbackKeepsPromise == Spec => ImplementsPromise
<1>1. Inv /\ Inv' /\ [Next]_vars => [Promise!Next]_(Promise!vars)
  BY PromiseStep
<1> QED
  BY <1>1, PromiseInit, Inductive, PTL DEF Spec, ImplementsPromise, Promise!Spec
=============================================================================
