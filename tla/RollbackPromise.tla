--------------------------- MODULE RollbackPromise ---------------------------
(***************************************************************************)
(* What the rollback leg promises its coordinator and its subscribers, with *)
(* no loops, no store calls and no failures but the loss of a call: the     *)
(* closure of a run only grows, a call under way tells a channel of the     *)
(* closure, an event announces a notice that is there, and an answer claims *)
(* channels whose notice is there, and all of the closure the call listed.  *)
(***************************************************************************)
CONSTANTS Callers, Channels, Runs, Messages, NoRun,
          OneAtATime   \* no call for a run is made while another is under way

VARIABLES
    closure,    \* for every run, the channels that hold a user's message of it
    notices,    \* for every run and channel, the notices posted
    announced,  \* the notices announced on the bus
    asked       \* what each caller asked, and what came of it

vars == <<closure, notices, announced, asked>>

NoCall == [phase |-> "none", run |-> NoRun, listed |-> {}, claimed |-> {}]

Init ==
    /\ closure = [r \in Runs |-> {}]
    /\ notices = [r \in Runs |-> [ch \in Channels |-> {}]]
    /\ announced = {}
    /\ asked = [c \in Callers |-> NoCall]

UnderWay(c) == asked[c].phase \in {"asked", "listed"}

Join(r, ch) ==
    /\ closure' = [closure EXCEPT ![r] = closure[r] \cup {ch}]
    /\ UNCHANGED <<notices, announced, asked>>

Ask(c, r) ==
    /\ ~UnderWay(c)
    /\ OneAtATime => \A d \in Callers : UnderWay(d) => asked[d].run # r
    /\ asked' = [asked EXCEPT ![c] =
          [phase |-> "asked", run |-> r, listed |-> {}, claimed |-> {}]]
    /\ UNCHANGED <<closure, notices, announced>>

List(c, r) ==
    /\ asked[c].phase = "asked" /\ asked[c].run = r
    /\ asked' = [asked EXCEPT ![c] =
          [phase |-> "listed", run |-> r, listed |-> closure[r], claimed |-> {}]]
    /\ UNCHANGED <<closure, notices, announced>>

\* The call of c posts a notice, and may be lost with that.
Notify(c, r, ch, m) ==
    /\ asked[c].phase = "listed" /\ asked[c].run = r
    /\ ch \in closure[r]
    /\ OneAtATime => notices[r][ch] = {}
    /\ \A q \in Runs, d \in Channels : m \notin notices[q][d]
    /\ notices' = [notices EXCEPT ![r] =
          [notices[r] EXCEPT ![ch] = notices[r][ch] \cup {m}]]
    /\ asked' = asked \/ asked' = [asked EXCEPT ![c] = NoCall]
    /\ UNCHANGED <<closure, announced>>

Announce(r, ch, m) ==
    /\ m \in notices[r][ch]
    /\ announced' = announced \cup {[channel |-> ch, message |-> m, run |-> r]}
    /\ UNCHANGED <<closure, notices, asked>>

Claim(c, r, claimed) ==
    /\ asked[c].phase = "listed" /\ asked[c].run = r
    /\ asked[c].listed \subseteq claimed
    /\ \A ch \in claimed : notices[r][ch] # {}
    /\ asked' = [asked EXCEPT ![c] =
          [phase |-> "answered", run |-> r, listed |-> asked[c].listed, claimed |-> claimed]]
    /\ UNCHANGED <<closure, notices, announced>>

\* Calls come to nothing, or their answers are forgotten.
GiveUp(lost) ==
    /\ asked' = [c \in Callers |-> IF c \in lost THEN NoCall ELSE asked[c]]
    /\ UNCHANGED <<closure, notices, announced>>

Next ==
    \/ \E r \in Runs, ch \in Channels : Join(r, ch)
    \/ \E c \in Callers, r \in Runs :
          \/ Ask(c, r)
          \/ List(c, r)
          \/ \E ch \in Channels, m \in Messages : Notify(c, r, ch, m)
          \/ \E claimed \in SUBSET Channels : Claim(c, r, claimed)
    \/ \E r \in Runs, ch \in Channels, m \in Messages : Announce(r, ch, m)
    \/ \E lost \in SUBSET Callers : GiveUp(lost)

Spec == Init /\ [][Next]_vars
=============================================================================
