-------------------------- MODULE MembershipPromise --------------------------
(***************************************************************************)
(* What the channel and participant endpoints promise their clients, with   *)
(* no order of store calls and no numbers of edges: nothing is stored that  *)
(* no request under way asks for, nothing stored is taken back, no try of a *)
(* request makes two channels, and the answer "ok" and an event both tell   *)
(* of what is so.  Edges lead to what is there if the store sees to it.     *)
(***************************************************************************)
CONSTANTS
    Clients, Users, Participants, Channels, Messages, Emojis,
    Unknown,     \* an id that nothing has
    NoUser, NoChannel, NoEmoji

VARIABLES
    checked,     \* the store refuses an edge from or to what is not there
    channelType, userOf, seen,
    related,     \* the edges there are
    announced,   \* the joins announced
    asked,       \* the request of every client; it names its channel once made
    status       \* what the client knows of it

store == <<channelType, userOf, seen, related>>
vars == <<checked, store, announced, asked, status>>

Requests ==
    [op : {"create", "dm", "join", "react", "read", "participant", "presence"},
     channel : Channels \cup {Unknown, NoChannel}, message : Messages \cup {Unknown},
     emoji : Emojis \cup {NoEmoji}, user : Users,
     first : Participants \cup {Unknown}, second : Participants \cup {Unknown}]

MakesChannel(r) == r.op \in {"create", "dm"}

Edges(r) ==
    CASE r.op \in {"dm", "join"} ->
            {<<"has_member", r.channel, p, NoEmoji>> : p \in {r.first, r.second}}
      [] r.op = "react" -> {<<"has_reaction", r.message, r.first, r.emoji>>}
      [] r.op = "read" -> {<<"read_by", r.message, r.first, NoEmoji>>}
      [] OTHER -> {}

Exists(ch) == ch \in Channels /\ channelType[ch] # "absent"

Present(p) == p \in Participants /\ userOf[p] # NoUser

\* All that a client asked for is so.
Holds(c) ==
    LET r == asked[c] IN
    /\ r.op \in {"create", "dm"} => Exists(r.channel)
    /\ r.op = "dm" => channelType[r.channel] = "direct"
    /\ Edges(r) \subseteq related
    /\ r.op = "participant" => \E p \in Participants : userOf[p] = r.user
    /\ r.op = "presence" => r.first \in seen

Init ==
    /\ checked \in BOOLEAN
    /\ channelType \in [Channels -> {"absent", "group"}]
    /\ userOf \in [Participants -> Users \cup {NoUser}]
    /\ seen = {}
    /\ related = {}
    /\ announced = {}
    /\ asked \in [Clients -> Requests]
    /\ status = [c \in Clients |-> "none"]

-----------------------------------------------------------------------------
(* One write of a request *)

MakeChannel(c, ch) ==
    /\ MakesChannel(asked[c]) /\ asked[c].channel = NoChannel
    /\ channelType[ch] = "absent"
    /\ channelType' = [channelType EXCEPT ![ch] =
          IF asked[c].op = "dm" THEN "direct" ELSE "group"]
    /\ UNCHANGED <<userOf, seen, related>>

MakeParticipant(c, p) ==
    /\ asked[c].op = "participant" /\ userOf[p] = NoUser
    /\ userOf' = [userOf EXCEPT ![p] = asked[c].user]
    /\ UNCHANGED <<channelType, seen, related>>

Relate(k) ==
    /\ checked =>
          /\ Present(k[3])
          /\ IF k[1] = "has_member" THEN Exists(k[2]) ELSE k[2] \in Messages
    /\ related' = related \cup {k}
    /\ UNCHANGED <<channelType, userOf, seen>>

Show(c) ==
    /\ asked[c].op = "presence" /\ Present(asked[c].first)
    /\ seen' = seen \cup {asked[c].first}
    /\ UNCHANGED <<channelType, userOf, related>>

\* At most one thing that was asked for is stored.
Write(c) ==
    \/ \E p \in Participants : MakeParticipant(c, p)
    \/ \E k \in Edges(asked[c]) : Relate(k)
    \/ Show(c)
    \/ UNCHANGED store

-----------------------------------------------------------------------------
(* Requests *)

\* The request goes on, or is answered when all of it is so.
Proceed(c, ch) ==
    /\ asked' = [asked EXCEPT ![c].channel = ch]
    /\ \/ UNCHANGED status
       \/ status' = [status EXCEPT ![c] = "ok"] /\ Holds(c)'

\* Requests fail: their clients learn of no channel that was made for them.
Fail(failed) ==
    /\ asked' = [c \in Clients |-> IF c \in failed /\ MakesChannel(asked[c])
                                   THEN [asked[c] EXCEPT !.channel = NoChannel] ELSE asked[c]]
    /\ status' = [c \in Clients |-> IF c \in failed THEN "error" ELSE status[c]]

\* A new request, or the same one again.
Ask(c) ==
    /\ status[c] # "open"
    /\ asked'[c] \in Requests
    /\ MakesChannel(asked'[c]) => asked'[c].channel = NoChannel
    /\ asked' = [asked EXCEPT ![c] = asked'[c]]
    /\ status' = [status EXCEPT ![c] = "open"]
    /\ UNCHANGED <<store, announced>>

Work(c) ==
    /\ status[c] = "open"
    /\ \/ \E ch \in Channels : MakeChannel(c, ch) /\ (Proceed(c, ch) \/ Fail({c}))
       \/ Write(c) /\ (Proceed(c, asked[c].channel) \/ Fail({c}))
    /\ UNCHANGED announced

AnnounceJoin(c) ==
    /\ status[c] = "open" /\ asked[c].op = "join"
    /\ Proceed(c, asked[c].channel)
    /\ announced' = announced \cup {<<asked[c].channel, asked[c].first>>}
    /\ <<"has_member", asked[c].channel, asked[c].first, NoEmoji>> \in related
    /\ UNCHANGED store

FailAll ==
    /\ Fail({c \in Clients : status[c] = "open"})
    /\ UNCHANGED <<store, announced>>

Next ==
    /\ \/ \E c \in Clients : Ask(c) \/ Work(c) \/ AnnounceJoin(c)
       \/ FailAll
    /\ UNCHANGED checked

Spec == Init /\ [][Next]_vars
=============================================================================
