----------------------- MODULE MembershipPromiseProofs -----------------------
(***************************************************************************)
(* The proof that the handlers keep the promise of MembershipPromise: every *)
(* step is a step of the promise or changes nothing in it, for any number   *)
(* of clients, requests, repetitions and faults.                            *)
(***************************************************************************)
EXTENDS MembershipProofs

USE DEF ToID, Joined, world, ChannelIds, MessageIds, ParticipantIds

\* No step takes back an entity, nor changes what it is.
StoreStays ==
    /\ EdgesStay
    /\ \A ch \in Channels : channelType[ch] # "absent" => channelType'[ch] = channelType[ch]
    /\ \A p \in Participants : userOf[p] # NoUser => userOf'[p] = userOf[p]
    /\ seen \subseteq seen'

\* The loop of createDM adds to a direct channel, and no other request names two
\* participants.
PairsOK == \A c \in Clients :
    /\ pc[c] \in {"first", "second"} => channelType[channel[c]] = "direct"
    /\ op[c] # "dm" => first[c] = second[c]

-----------------------------------------------------------------------------
(* The store of the promise *)

\* A try whose channel is not yet stored names none.
LEMMA AskedRecord ==
    ASSUME MembershipInv, NEW c \in Clients
    PROVE  /\ Asked(c) \in Promise!Requests
           /\ Asked(c).op = op[c] /\ Asked(c).message = message[c]
           /\ Asked(c).emoji = emoji[c] /\ Asked(c).user = user[c]
           /\ Asked(c).first = first[c] /\ Asked(c).second = second[c]
           /\ HasChannel(c) => Asked(c).channel = channel[c]
           /\ ~HasChannel(c) => Asked(c).channel = NoChannel
  BY DEF MembershipInv, Typed, TypeOK, Ops, Asked, Promise!Requests

LEMMA NewChannelIsPromised ==
    ASSUME MembershipInv, NEW c \in Clients, NEW ch \in Channels,
           pc[c] = "entity", NewChannel(c, ch)
    PROVE  Promise!MakeChannel(c, ch)
<1>1. ~HasChannel(c)
  BY DEF NewChannel, HasChannel, Status
<1> QED
  BY <1>1, AskedRecord DEF NewChannel, Promise!MakeChannel, Promise!MakesChannel

LEMMA NewParticipantIsPromised ==
    ASSUME MembershipInv, NEW c \in Clients, NEW p \in Participants, NewParticipant(c, p)
    PROVE  Promise!MakeParticipant(c, p)
  BY AskedRecord DEF NewParticipant, Promise!MakeParticipant

LEMMA SetPresenceIsPromised ==
    ASSUME MembershipInv, NEW c \in Clients, pc[c] = "update", SetPresence(first[c])
    PROVE  Promise!Show(c)
<1>1. op[c] = "presence"
  BY DEF MembershipInv, Typed, LocalsOK
<1> QED
  BY <1>1, AskedRecord DEF SetPresence, ParticipantThere, Promise!Show, Promise!Present

LEMMA NextEdgeIsAsked ==
    ASSUME MembershipInv, NEW c \in Clients, pc[c] \in {"first", "second", "edge"}
    PROVE  NextEdge(c) \in Promise!Edges(Asked(c))
<1>1. HasChannel(c)
  BY DEF MembershipInv, Typed, LocalsOK, HasChannel
<1>2. op[c] \in {"dm", "join", "react", "read"}
  BY DEF MembershipInv, Typed, LocalsOK
<1> QED
  BY <1>1, <1>2, AskedRecord
  DEF NextEdge, EdgeName, Promise!Edges, MembershipInv, Typed, LocalsOK

LEMMA CreateRelationshipIsPromised ==
    ASSUME MembershipInv, NEW c \in Clients, pc[c] \in {"first", "second", "edge"},
           CreateRelationship(NextEdge(c))
    PROVE  Promise!Relate(NextEdge(c))
<1> DEFINE k == NextEdge(c)
<1>1. k \in EdgeKeys /\ edges \in [EdgeKeys -> Nat]
  BY NextEdgeType DEF MembershipInv, Typed, TypeOK
<1>2. {e \in EdgeKeys : edges'[e] > 0} = {e \in EdgeKeys : edges[e] > 0} \cup {k}
  BY <1>1 DEF CreateRelationship
<1>3. checked => EndsThere(k)
  BY DEF CreateRelationship, Accepts
<1> QED
  BY <1>2, <1>3 DEF CreateRelationship, EndsThere, ChannelThere, ParticipantThere,
                    Promise!Relate, Promise!Exists, Promise!Present

-----------------------------------------------------------------------------
(* What is stored stays *)

LEMMA NextStays ==
    ASSUME Typed, [Next]_vars
    PROVE  StoreStays
<1> DEFINE Kept ==
        /\ \A ch \in Channels : channelType[ch] # "absent" => channelType'[ch] = channelType[ch]
        /\ \A p \in Participants : userOf[p] # NoUser => userOf'[p] = userOf[p]
        /\ seen \subseteq seen'
<1>a. /\ channelType \in [Channels -> {"absent", "group", "direct"}]
      /\ userOf \in [Participants -> Users \cup {NoUser}]
  BY DEF Typed, TypeOK
<1>1. ASSUME UNCHANGED <<channelType, userOf>>, seen \subseteq seen' PROVE Kept
  BY <1>1
<1>2. ASSUME NEW c \in Clients, NEW ch \in Channels, NewChannel(c, ch) PROVE Kept
  BY <1>2, <1>a DEF NewChannel
<1>3. ASSUME NEW c \in Clients, NEW p \in Participants, NewParticipant(c, p) PROVE Kept
  BY <1>3, <1>a DEF NewParticipant
<1>4. ASSUME NEW c \in Clients, Serve(c) \/ FailWrite(c) PROVE Kept
  <2>1. \/ UNCHANGED <<channelType, userOf, seen>>
        \/ SetPresence(first[c])
        \/ \E ch \in Channels : NewChannel(c, ch)
        \/ \E p \in Participants : NewParticipant(c, p)
    BY <1>4 DEF Serve, FailWrite, CreateChannel, CreateParticipant, AddFirstMember,
                AddSecondMember, JoinChannel, PublishJoined, AddReaction, MarkRead,
                UpdatePresence, Refuse, CreateRelationship, store
  <2> QED
    BY <2>1, <1>1, <1>2, <1>3 DEF SetPresence
<1>5. Kept
  BY <1>1, <1>4 DEF Next, Request, Retry, Crash, store, vars
<1>6. EdgesStay
  BY StoreStep
<1> QED
  BY <1>5, <1>6 DEF StoreStays

LEMMA EndsInit == Init => PairsOK
  BY DEF Init, PairsOK

LEMMA EndsStep == MembershipInv /\ PairsOK /\ [Next]_vars => PairsOK'
<1> SUFFICES ASSUME MembershipInv, PairsOK, [Next]_vars PROVE PairsOK'
  OBVIOUS
<1>a. StoreStays
  BY NextStays DEF MembershipInv
<1>b. /\ channelType \in [Channels -> {"absent", "group", "direct"}]
      /\ channel \in [Clients -> ChannelIds \cup {NoChannel}]
      /\ first \in [Clients -> ParticipantIds] /\ second \in [Clients -> ParticipantIds]
      /\ op \in [Clients -> Ops] 
      /\ pc \in [Clients -> {"idle", "entity", "first", "second", "edge", "update", "publish"}]
      /\ \A c \in Clients : pc[c] \in {"first", "second"} => channel[c] \in Channels
  BY DEF MembershipInv, Typed, TypeOK, LocalsOK
\* A request that keeps its arguments and makes no channel keeps its ends.
<1>c. ASSUME UNCHANGED request,
             \A c \in Clients : pc'[c] \in {"first", "second"} => pc[c] \in {"first", "second"}
      PROVE  PairsOK'
  BY <1>a, <1>b, <1>c DEF PairsOK, StoreStays, request
<1>d. ASSUME NEW c \in Clients, UNCHANGED request,
             \/ \E x : Answer(c, x)
             \/ pc[c] = "first" /\ Goto(c, "second")
             \/ Goto(c, "publish")
      PROVE  PairsOK'
  BY <1>b, <1>c, <1>d DEF Answer, Goto
<1>1. ASSUME NEW c \in Clients, NEW o \in Ops, NEW ch \in ChannelArgs(o),
             NEW m \in MessageArgs(o), NEW e \in EmojiArgs(o), NEW u \in Users,
             NEW p \in ParticipantArgs(o), NEW q \in ParticipantArgs(o),
             Request(c, o, ch, m, e, u, p, q)
      PROVE  PairsOK'
  <2>1. Entry(o) \in {"entity", "edge", "update"}
    BY DEF Entry
  <2>2. UNCHANGED channelType
    BY <1>1 DEF Request, store
  <2>3. o # "dm" => p = q
    BY <1>1 DEF Request
  <2>4. /\ pc' = [pc EXCEPT ![c] = Entry(o)] /\ op' = [op EXCEPT ![c] = o]
        /\ channel' = [channel EXCEPT ![c] = ch]
        /\ first' = [first EXCEPT ![c] = p] /\ second' = [second EXCEPT ![c] = q]
    BY <1>1 DEF Request
  <2> QED
    BY <1>b, <2>1, <2>2, <2>3, <2>4 DEF PairsOK
<1>2. ASSUME NEW c \in Clients, Retry(c) PROVE PairsOK'
  BY <1>2, <1>b, <1>c DEF Retry, Entry
<1>3. ASSUME NEW c \in Clients, NEW ch \in Channels, CreateChannel(c, ch) PROVE PairsOK'
  <2>1. /\ op[c] \in {"create", "dm"} /\ userOf' = userOf
        /\ channelType' = [channelType EXCEPT ![ch] = IF op[c] = "dm" THEN "direct" ELSE "group"]
        /\ channelType[ch] = "absent"
    BY <1>3 DEF CreateChannel, NewChannel
  <2>2. /\ channel' = [channel EXCEPT ![c] = ch] /\ UNCHANGED <<op, first, second>>
        /\ pc' = [pc EXCEPT ![c] = IF op[c] = "dm" THEN "first" ELSE "idle"]
    BY <1>3, <2>1 DEF CreateChannel, Goto, Answer
  <2> QED
    BY <1>b, <2>1, <2>2 DEF PairsOK
<1>4. ASSUME NEW c \in Clients, Serve(c) PROVE PairsOK'
  BY <1>4, <1>3, <1>d DEF Serve, CreateParticipant, AddFirstMember, AddSecondMember,
                JoinChannel, PublishJoined, AddReaction, MarkRead, UpdatePresence, Refuse
<1>5. ASSUME NEW c \in Clients, FailWrite(c) PROVE PairsOK'
  BY <1>5, <1>d DEF FailWrite
<1>6. CASE Crash
  BY <1>6, <1>c DEF Crash
<1>7. CASE UNCHANGED vars
  BY <1>7, <1>c DEF vars
<1> QED
  BY <1>1, <1>2, <1>4, <1>5, <1>6, <1>7 DEF Next

-----------------------------------------------------------------------------
(* Requests of the promise *)

OthersKept(c) == \A d \in Clients \ {c} :
    /\ pc'[d] = pc[d] /\ answer'[d] = answer[d]
    /\ op'[d] = op[d] /\ channel'[d] = channel[d] /\ message'[d] = message[d]
    /\ emoji'[d] = emoji[d] /\ user'[d] = user[d]
    /\ first'[d] = first[d] /\ second'[d] = second[d]

LEMMA OthersPromised ==
    ASSUME NEW c \in Clients, OthersKept(c)
    PROVE  \A d \in Clients \ {c} : Asked(d)' = Asked(d) /\ Status(d)' = Status(d)
  BY DEF OthersKept, Asked, Status, HasChannel

\* The request is the same, with or without its channel.
SameRequest(c) ==
    /\ op'[c] = op[c] /\ message'[c] = message[c] /\ emoji'[c] = emoji[c]
    /\ user'[c] = user[c] /\ first'[c] = first[c] /\ second'[c] = second[c]

LEMMA ProceedIsPromised ==
    ASSUME NEW c \in Clients, OthersKept(c), SameRequest(c),
           NEW ch, ch = (IF HasChannel(c)' THEN channel'[c] ELSE NoChannel),
           \/ Status(c)' = Status(c)
           \/ Status(c)' = "ok" /\ Promise!Holds(c)'
    PROVE  Promise!Proceed(c, ch)
<1> DEFINE asked == [d \in Clients |-> Asked(d)]
           status == [d \in Clients |-> Status(d)]
<1>1. asked' = [asked EXCEPT ![c].channel = ch]
  <2>1. Asked(c)' = [Asked(c) EXCEPT !.channel = ch]
    BY DEF Asked, SameRequest
  <2> QED
    BY <2>1, OthersPromised
<1>2. status' = [status EXCEPT ![c] = Status(c)']
  BY OthersPromised
<1>3. status' = status \/ (status' = [status EXCEPT ![c] = "ok"] /\ Promise!Holds(c)')
  BY <1>2
<1> QED
  BY <1>1, <1>3 DEF Promise!Proceed

LEMMA FailIsPromised ==
    ASSUME NEW failed \in SUBSET Clients, UNCHANGED request,
           \A c \in Clients : c \in failed => pc'[c] = "idle" /\ answer'[c] = "error",
           \A c \in Clients : c \notin failed => pc'[c] = pc[c] /\ answer'[c] = answer[c]
    PROVE  Promise!Fail(failed)
<1>1. ASSUME NEW c \in Clients, c \in failed
      PROVE  /\ Status(c)' = "error"
             /\ Asked(c)' = IF Promise!MakesChannel(Asked(c))
                            THEN [Asked(c) EXCEPT !.channel = NoChannel] ELSE Asked(c)
  BY <1>1 DEF Asked, Status, HasChannel, request, Promise!MakesChannel
<1>2. ASSUME NEW c \in Clients, c \notin failed
      PROVE  Status(c)' = Status(c) /\ Asked(c)' = Asked(c)
  BY <1>2 DEF Asked, Status, HasChannel, request
<1> QED
  BY <1>1, <1>2 DEF Promise!Fail

\* The step of a handler leaves the other requests alone.
LEMMA OneRequest ==
    ASSUME MembershipInv, NEW c \in Clients, UNCHANGED request,
           (\E a : Answer(c, a)) \/ (\E s : Goto(c, s))
    PROVE  OthersKept(c) /\ SameRequest(c)
  BY DEF MembershipInv, Typed, TypeOK, request, Answer, Goto, OthersKept, SameRequest

LEMMA SuccessIsPromised ==
    ASSUME MembershipInv, NEW c \in Clients, UNCHANGED request, HasChannel(c),
           Answer(c, "ok"), Promise!Holds(c)'
    PROVE  Promise!Proceed(c, Asked(c).channel)
<1>1. OthersKept(c) /\ SameRequest(c)
  BY OneRequest
<1>2. Status(c)' = "ok" /\ HasChannel(c)' /\ channel'[c] = channel[c]
  BY DEF MembershipInv, Typed, TypeOK, Answer, Status, HasChannel, request
<1>3. Asked(c).channel = channel[c]
  BY AskedRecord
<1> QED
  BY <1>1, <1>2, <1>3, ProceedIsPromised

LEMMA ErrorIsPromised ==
    ASSUME MembershipInv, NEW c \in Clients, UNCHANGED request, Answer(c, "error")
    PROVE  Promise!Fail({c})
<1>1. /\ pc' = [pc EXCEPT ![c] = "idle"] /\ answer' = [answer EXCEPT ![c] = "error"]
      /\ pc \in [Clients -> {"idle", "entity", "first", "second", "edge", "update", "publish"}]
      /\ answer \in [Clients -> {"none", "ok", "error"}]
  BY DEF MembershipInv, Typed, TypeOK, Answer
<1>2. {c} \in SUBSET Clients
  OBVIOUS
<1>3. \A d \in Clients : d \in {c} => pc'[d] = "idle" /\ answer'[d] = "error"
  BY <1>1
<1>4. \A d \in Clients : d \notin {c} => pc'[d] = pc[d] /\ answer'[d] = answer[d]
  BY <1>1
<1> QED
  BY <1>2, <1>3, <1>4, FailIsPromised

LEMMA GotoIsPromised ==
    ASSUME MembershipInv, NEW c \in Clients, UNCHANGED request, HasChannel(c),
           pc[c] # "idle", NEW s \in {"second", "publish"}, Goto(c, s),
           s = "publish" => op[c] = "join"
    PROVE  Promise!Proceed(c, Asked(c).channel)
<1>1. OthersKept(c) /\ SameRequest(c)
  BY OneRequest
<1>2. Status(c)' = Status(c) /\ HasChannel(c)' /\ channel'[c] = channel[c]
  BY DEF MembershipInv, Typed, TypeOK, Goto, Status, HasChannel, request
<1>3. Asked(c).channel = channel[c]
  BY AskedRecord
<1> QED
  BY <1>1, <1>2, <1>3, ProceedIsPromised

-----------------------------------------------------------------------------
(* What is answered is so *)

LEMMA EdgeHolds ==
    ASSUME MembershipInv, MembershipInv', PairsOK', NEW c \in Clients, UNCHANGED request,
           op[c] \in {"join", "react", "read"}, pc[c] # "second", NextEdge(c) \in EdgeKeys,
           edges'[NextEdge(c)] > 0
    PROVE  Promise!Holds(c)'
<1>1. /\ Asked(c)'.op = op[c] /\ Asked(c)'.channel = channel[c]
      /\ Asked(c)'.message = message[c] /\ Asked(c)'.emoji = emoji[c]
      /\ Asked(c)'.first = first[c] /\ Asked(c)'.second = second[c]
  BY DEF Asked, HasChannel, request
<1>2. /\ op[c] = "react" => emoji[c] \in Emojis
      /\ op[c] # "react" => emoji[c] = NoEmoji
  BY DEF MembershipInv, Typed, LocalsOK
<1>3. first[c] = second[c]
  BY DEF PairsOK, request
<1>4. Promise!Edges(Asked(c)') = {NextEdge(c)}
  <2>1. CASE op[c] = "join"
    BY <2>1, <1>1, <1>2, <1>3 DEF Promise!Edges, NextEdge, EdgeName
  <2>2. CASE op[c] = "react"
    BY <2>2, <1>1, <1>2, <1>3 DEF Promise!Edges, NextEdge, EdgeName
  <2>3. CASE op[c] = "read"
    BY <2>3, <1>1, <1>2, <1>3 DEF Promise!Edges, NextEdge, EdgeName
  <2> QED
    BY <2>1, <2>2, <2>3
<1> QED
  BY <1>1, <1>4 DEF Promise!Holds, Promise!Exists

LEMMA DirectHolds ==
    ASSUME MembershipInv, MembershipInv', PairsOK, NEW c \in Clients, pc[c] = "second",
           CreateRelationship(NextEdge(c)), Answer(c, "ok"), UNCHANGED request
    PROVE  Promise!Holds(c)'
<1> DEFINE k == <<"has_member", channel[c], first[c], NoEmoji>>
           l == <<"has_member", channel[c], second[c], NoEmoji>>
<1>1. op[c] = "dm" /\ channel[c] \in Channels /\ channelType[channel[c]] = "direct"
  BY DEF PairsOK, MembershipInv, Typed, LocalsOK
<1>2. HasChannel(c)'
  BY DEF MembershipInv, Typed, TypeOK, Answer, HasChannel, Status
<1>3. /\ Asked(c)'.op = op[c] /\ Asked(c)'.channel = channel[c]
      /\ Asked(c)'.first = first[c] /\ Asked(c)'.second = second[c]
  BY <1>2 DEF Asked, request
<1>4. k \in EdgeKeys /\ l \in EdgeKeys /\ NextEdge(c) = l
  <2>1. /\ first[c] \in ParticipantIds /\ second[c] \in ParticipantIds
        /\ emoji[c] = NoEmoji
    BY <1>1 DEF MembershipInv, Typed, TypeOK, LocalsOK
  <2>2. k \in EdgeKeys /\ l \in EdgeKeys
    BY <1>1, <2>1 DEF EdgeKeys
  <2> QED
    BY <1>1, <2>1, <2>2 DEF NextEdge, EdgeName
<1>5. edges[k] > 0
  BY DEF MembershipInv, MembersOK, HasFirst
<1>6. edges'[k] > 0 /\ edges'[l] > 0 /\ channelType' = channelType
  BY <1>4, <1>5, CreateRelationshipType DEF MembershipInv
<1>7. Promise!Edges(Asked(c)') = {k, l}
  BY <1>1, <1>3 DEF Promise!Edges
<1> QED
  BY <1>1, <1>3, <1>4, <1>6, <1>7 DEF Promise!Holds, Promise!Exists

-----------------------------------------------------------------------------
(* Every step is promised *)

LEMMA WriteIsPromised ==
    ASSUME MembershipInv, PairsOK, NEW c \in Clients,
           \/ UNCHANGED store
           \/ \E p \in Participants : NewParticipant(c, p)
           \/ pc[c] \in {"first", "second", "edge"} /\ CreateRelationship(NextEdge(c))
           \/ pc[c] = "update" /\ SetPresence(first[c])
    PROVE  Promise!Write(c)
<1>1. CASE UNCHANGED store
  BY <1>1 DEF store, Promise!Write, Promise!store
<1>2. CASE \E p \in Participants : NewParticipant(c, p)
  BY <1>2, NewParticipantIsPromised DEF Promise!Write
<1>3. CASE pc[c] \in {"first", "second", "edge"} /\ CreateRelationship(NextEdge(c))
  <2>1. NextEdge(c) \in Promise!Edges(Asked(c)) /\ Promise!Relate(NextEdge(c))
    BY <1>3, NextEdgeIsAsked, CreateRelationshipIsPromised
  <2>2. [d \in Clients |-> Asked(d)][c] = Asked(c)
    OBVIOUS
  <2>3. \E k \in Promise!Edges([d \in Clients |-> Asked(d)][c]) : Promise!Relate(k)
    BY <2>1, <2>2 DEF Promise!Relate
  <2> QED
    BY <2>3 DEF Promise!Write
<1>4. CASE pc[c] = "update" /\ SetPresence(first[c])
  BY <1>4, SetPresenceIsPromised DEF Promise!Write
<1> QED
  BY <1>1, <1>2, <1>3, <1>4

LEMMA WorkIsPromised ==
    ASSUME MembershipInv, NEW c \in Clients, pc[c] # "idle", UNCHANGED joined, Promise!Write(c),
           Promise!Proceed(c, Asked(c).channel) \/ Promise!Fail({c})
    PROVE  Promise!Work(c)
<1>1. Status(c) = "open"
  BY DEF Status
<1> QED
  BY <1>1 DEF Promise!Work

LEMMA ServeIsPromised ==
    ASSUME MembershipInv, MembershipInv', PairsOK, PairsOK', NEW c \in Clients, Serve(c)
    PROVE  Promise!Work(c) \/ Promise!AnnounceJoin(c)
<1>a. MembershipInv => Typed
  BY DEF MembershipInv
<1>1. ASSUME NEW ch \in Channels, CreateChannel(c, ch) PROVE Promise!Work(c)
  <2>1. /\ pc[c] = "entity" /\ op[c] \in {"create", "dm"} /\ UNCHANGED joined
        /\ NewChannel(c, ch) /\ channel' = [channel EXCEPT ![c] = ch]
        /\ UNCHANGED <<op, message, emoji, user, first, second>>
        /\ IF op[c] = "dm" THEN Goto(c, "first") ELSE Answer(c, "ok")
    BY <1>1 DEF CreateChannel, NewChannel
  <2>2. OthersKept(c) /\ SameRequest(c) /\ channel'[c] = ch
    BY <2>1 DEF MembershipInv, Typed, TypeOK, Answer, Goto, OthersKept, SameRequest
  <2>3. HasChannel(c)'
    BY <2>1 DEF MembershipInv, Typed, TypeOK, Answer, Goto, HasChannel, Status
  <2>4. Promise!MakeChannel(c, ch)
    BY <2>1, NewChannelIsPromised
  <2>5. CASE op[c] = "dm"
    <3>1. Status(c)' = Status(c)
      BY <2>1, <2>5 DEF MembershipInv, Typed, TypeOK, Goto, Status
    <3> QED
      BY <2>1, <2>2, <2>3, <2>4, <3>1, ProceedIsPromised DEF Promise!Work, Status
  <2>6. CASE op[c] = "create"
    <3>1. Status(c)' = "ok"
      BY <2>1, <2>6 DEF MembershipInv, Typed, TypeOK, Answer, Status
    <3>2. channelType'[ch] = "group"
      BY <2>1, <2>6 DEF NewChannel, MembershipInv, Typed, TypeOK
    <3>3. Asked(c)'.op = "create" /\ Asked(c)'.channel = ch
      BY <2>1, <2>2, <2>3, <2>6 DEF Asked
    <3>4. Promise!Holds(c)'
      BY <3>2, <3>3 DEF Promise!Holds, Promise!Exists, Promise!Edges
    <3> QED
      BY <2>1, <2>2, <2>3, <2>4, <3>1, <3>4, ProceedIsPromised DEF Promise!Work, Status
  <2> QED
    BY <2>1, <2>5, <2>6
<1>2. ASSUME NEW p \in Participants, CreateParticipant(c, p) PROVE Promise!Work(c)
  <2>1. /\ pc[c] = "entity" /\ op[c] = "participant" /\ UNCHANGED joined
        /\ NewParticipant(c, p) /\ Answer(c, "ok") /\ UNCHANGED request
    BY <1>2 DEF CreateParticipant, NewParticipant
  <2>2. userOf'[p] = user[c]
    BY <2>1 DEF NewParticipant, MembershipInv, Typed, TypeOK
  <2>3. Asked(c)'.op = "participant" /\ Asked(c)'.user = user[c]
    BY <2>1 DEF Asked, request
  <2>4. Promise!Holds(c)'
    BY <2>2, <2>3 DEF Promise!Holds, Promise!Edges
  <2>5. Promise!Proceed(c, Asked(c).channel)
    BY <2>1, <2>4, SuccessIsPromised DEF HasChannel
  <2> QED
    BY <2>1, <2>5, WriteIsPromised, WorkIsPromised
\* The edge is refused: the request fails, unless it is for a receipt there is.
<1>b. ASSUME pc[c] \in {"first", "second", "edge"}, Refuse(c), UNCHANGED <<joined, request>>
      PROVE  Promise!Work(c)
  <2>1. Promise!Write(c)
    BY <1>b, WriteIsPromised DEF Refuse
  <2>2. CASE op[c] # "read"
    BY <1>b, <2>1, <2>2, ErrorIsPromised, WorkIsPromised DEF Refuse, RefusedAnswer
  <2>3. CASE op[c] = "read"
    <3>1. NextEdge(c) \in EdgeKeys /\ edges[NextEdge(c)] \in Nat /\ edges' = edges
      BY <1>b, NextEdgeType DEF Refuse, MembershipInv, Typed, TypeOK, store
    <3>2. CASE Taken(NextEdge(c))
      <4>1. edges'[NextEdge(c)] > 0
        BY <2>3, <3>1, <3>2 DEF Taken, NextEdge, EdgeName, EdgeKeys
      <4>2. pc[c] = "edge"
        BY <1>b, <2>3 DEF MembershipInv, Typed, LocalsOK
      <4>3. Promise!Holds(c)'
        BY <1>b, <2>3, <3>1, <4>1, <4>2, EdgeHolds
      <4>4. Promise!Proceed(c, Asked(c).channel)
        BY <1>b, <2>3, <3>2, <4>3, SuccessIsPromised DEF Refuse, RefusedAnswer, HasChannel
      <4> QED
        BY <1>b, <2>1, <4>4, WorkIsPromised
    <3>3. CASE ~Taken(NextEdge(c))
      BY <1>b, <2>1, <3>3, ErrorIsPromised, WorkIsPromised DEF Refuse, RefusedAnswer
    <3> QED
      BY <3>2, <3>3
  <2> QED
    BY <2>2, <2>3
<1>3. CASE AddFirstMember(c)
  <2>1. CASE Refuse(c)
    BY <1>3, <2>1, <1>b DEF AddFirstMember
  <2>2. CASE CreateRelationship(NextEdge(c)) /\ Goto(c, "second")
    <3>1. HasChannel(c)
      BY <1>3 DEF AddFirstMember, HasChannel
    <3>2. Promise!Proceed(c, Asked(c).channel)
      BY <1>3, <2>2, <3>1, GotoIsPromised DEF AddFirstMember
    <3> QED
      BY <1>3, <2>2, <3>2, WriteIsPromised, WorkIsPromised DEF AddFirstMember
  <2> QED
    BY <1>3, <2>1, <2>2 DEF AddFirstMember
<1>4. CASE AddSecondMember(c)
  <2>1. CASE Refuse(c)
    BY <1>4, <2>1, <1>b DEF AddSecondMember
  <2>2. CASE CreateRelationship(NextEdge(c)) /\ Answer(c, "ok")
    <3>1. HasChannel(c)
      BY <1>4 DEF AddSecondMember, HasChannel
    <3>2. Promise!Holds(c)'
      BY <1>4, <2>2, DirectHolds DEF AddSecondMember
    <3>3. Promise!Proceed(c, Asked(c).channel)
      BY <1>4, <2>2, <3>1, <3>2, SuccessIsPromised DEF AddSecondMember
    <3> QED
      BY <1>4, <2>2, <3>3, WriteIsPromised, WorkIsPromised DEF AddSecondMember
  <2> QED
    BY <1>4, <2>1, <2>2 DEF AddSecondMember
<1>5. CASE JoinChannel(c)
  <2>1. CASE Refuse(c)
    BY <1>5, <2>1, <1>b DEF JoinChannel
  <2>2. CASE CreateRelationship(NextEdge(c)) /\ Goto(c, "publish")
    <3>1. HasChannel(c)
      BY <1>5 DEF JoinChannel, HasChannel
    <3>2. Promise!Proceed(c, Asked(c).channel)
      BY <1>5, <2>2, <3>1, GotoIsPromised DEF JoinChannel
    <3> QED
      BY <1>5, <2>2, <3>2, WriteIsPromised, WorkIsPromised DEF JoinChannel
  <2> QED
    BY <1>5, <2>1, <2>2 DEF JoinChannel
<1>6. CASE PublishJoined(c)
  <2>1. /\ pc[c] = "publish" /\ op[c] = "join" /\ UNCHANGED <<store, request>> /\ Answer(c, "ok")
        /\ channel[c] \in ChannelIds /\ first[c] \in ParticipantIds
        /\ emoji[c] = NoEmoji
        /\ joined' = joined \/ joined' = joined \cup {<<channel[c], first[c]>>}
    BY <1>6 DEF PublishJoined, MembershipInv, Typed, TypeOK, LocalsOK
  <2>2. NextEdge(c) = <<"has_member", channel[c], first[c], NoEmoji>> /\ NextEdge(c) \in EdgeKeys
    BY <2>1 DEF NextEdge, EdgeName, EdgeKeys
  <2>3. edges[NextEdge(c)] > 0 /\ edges' = edges
    BY <2>1, <2>2 DEF MembershipInv, MembersOK, HasFirst, store
  <2>4. HasChannel(c)
    BY <2>1 DEF HasChannel
  <2>5. Promise!Proceed(c, Asked(c).channel)
    BY <2>1, <2>2, <2>3, <2>4, EdgeHolds, SuccessIsPromised
  <2>6. CASE joined' = joined
    BY <2>1, <2>5, <2>6, WriteIsPromised, WorkIsPromised
  <2>7. CASE joined' = joined \cup {<<channel[c], first[c]>>}
    <3>1. Asked(c).op = "join" /\ Asked(c).channel = channel[c] /\ Asked(c).first = first[c]
      BY <2>1, <2>4, AskedRecord
    <3>2. Status(c) = "open"
      BY <2>1 DEF Status
    <3>3. UNCHANGED Promise!store
      BY <2>1 DEF Promise!store, store
    <3> QED
      BY <2>2, <2>3, <2>5, <2>7, <3>1, <3>2, <3>3 DEF Promise!AnnounceJoin
  <2> QED
    BY <2>1, <2>6, <2>7
<1>7. CASE AddReaction(c) \/ MarkRead(c)
  <2>1. pc[c] = "edge" /\ op[c] \in {"react", "read"} /\ UNCHANGED <<joined, request>>
    BY <1>7 DEF AddReaction, MarkRead
  <2>2. CASE Refuse(c)
    BY <2>1, <2>2, <1>b
  <2>3. CASE CreateRelationship(NextEdge(c)) /\ Answer(c, "ok")
    <3>1. NextEdge(c) \in EdgeKeys /\ edges'[NextEdge(c)] > 0
      BY <1>a, <2>1, <2>3, NextEdgeType, CreateRelationshipType
    <3>2. Promise!Holds(c)'
      BY <2>1, <3>1, EdgeHolds
    <3>3. Promise!Proceed(c, Asked(c).channel)
      BY <2>1, <2>3, <3>2, SuccessIsPromised DEF HasChannel
    <3> QED
      BY <2>1, <2>3, <3>3, WriteIsPromised, WorkIsPromised
  <2> QED
    BY <1>7, <2>2, <2>3 DEF AddReaction, MarkRead
<1>8. CASE UpdatePresence(c)
  <2>1. pc[c] = "update" /\ op[c] = "presence" /\ UNCHANGED <<joined, request>>
    BY <1>8 DEF UpdatePresence, MembershipInv, Typed, LocalsOK
  <2>2. CASE SetPresence(first[c]) /\ Answer(c, "ok")
    <3>1. Asked(c)'.op = "presence" /\ Asked(c)'.first = first[c]
      BY <2>1 DEF Asked, request
    <3>2. Promise!Holds(c)'
      BY <2>2, <3>1 DEF SetPresence, Promise!Holds, Promise!Edges
    <3>3. Promise!Proceed(c, Asked(c).channel)
      BY <2>1, <2>2, <3>2, SuccessIsPromised DEF HasChannel
    <3> QED
      BY <2>1, <2>2, <3>3, WriteIsPromised, WorkIsPromised
  <2>3. CASE Answer(c, "error") /\ UNCHANGED store
    BY <2>1, <2>3, ErrorIsPromised, WriteIsPromised, WorkIsPromised
  <2> QED
    BY <1>8, <2>2, <2>3 DEF UpdatePresence
<1> QED
  BY <1>1, <1>2, <1>3, <1>4, <1>5, <1>6, <1>7, <1>8 DEF Serve

LEMMA AskIsPromised ==
    ASSUME MembershipInv, MembershipInv', NEW c \in Clients, pc[c] = "idle", OthersKept(c),
           pc'[c] # "idle", pc'[c] \notin {"first", "second"}, UNCHANGED <<store, joined>>
    PROVE  Promise!Ask(c)
<1> DEFINE asked == [d \in Clients |-> Asked(d)]
           status == [d \in Clients |-> Status(d)]
<1>1. Status(c) # "open" /\ Status(c)' = "open"
  BY DEF Status, MembershipInv, Typed, TypeOK
<1>2. Asked(c)' \in Promise!Requests
  BY DEF MembershipInv, Typed, TypeOK, Ops, Asked, Promise!Requests
<1>3. Promise!MakesChannel(Asked(c)') => Asked(c)'.channel = NoChannel
  BY <1>1 DEF Asked, HasChannel, Promise!MakesChannel
<1>4. asked' = [asked EXCEPT ![c] = Asked(c)'] /\ status' = [status EXCEPT ![c] = "open"]
  BY <1>1, OthersPromised
<1>5. UNCHANGED Promise!store
  BY DEF store, Promise!store
<1> QED
  BY <1>1, <1>2, <1>3, <1>4, <1>5 DEF Promise!Ask

LEMMA FailWriteIsPromised ==
    ASSUME MembershipInv, PairsOK, NEW c \in Clients, FailWrite(c)
    PROVE  Promise!Work(c)
<1>1. UNCHANGED <<joined, request>> /\ Answer(c, "error")
  BY DEF FailWrite
<1>2. Promise!Fail({c})
  BY <1>1, ErrorIsPromised
<1>3. CASE pc[c] = "entity" /\ \E ch \in Channels : NewChannel(c, ch)
  BY <1>1, <1>2, <1>3, NewChannelIsPromised DEF Promise!Work, Status
<1>4. CASE \/ pc[c] \notin {"idle", "publish"} /\ UNCHANGED store
           \/ pc[c] = "entity" /\ \E p \in Participants : NewParticipant(c, p)
           \/ pc[c] \in {"first", "second", "edge"} /\ CreateRelationship(NextEdge(c))
           \/ pc[c] = "update" /\ SetPresence(first[c])
  <2>1. Promise!Write(c) /\ pc[c] # "idle"
    BY <1>4, WriteIsPromised
  <2> QED
    BY <1>1, <1>2, <2>1, WorkIsPromised
<1> QED
  BY <1>3, <1>4 DEF FailWrite

LEMMA CrashIsPromised ==
    ASSUME MembershipInv, Crash
    PROVE  Promise!FailAll
<1> DEFINE failed == {c \in Clients : Status(c) = "open"}
<1>1. \A c \in Clients : Status(c) = "open" <=> pc[c] # "idle"
  BY DEF Status, MembershipInv, Typed, TypeOK
<1>2. /\ UNCHANGED request
      /\ \A c \in Clients : c \in failed => pc'[c] = "idle" /\ answer'[c] = "error"
      /\ \A c \in Clients : c \notin failed => pc'[c] = pc[c] /\ answer'[c] = answer[c]
  BY <1>1 DEF Crash
<1>3. failed \in SUBSET Clients
  OBVIOUS
<1>4. Promise!Fail(failed)
  BY <1>2, <1>3, FailIsPromised
<1>5. failed = {c \in Clients : [d \in Clients |-> Status(d)][c] = "open"}
  OBVIOUS
<1>6. UNCHANGED <<Promise!store, joined>>
  BY DEF Crash, store, Promise!store
<1> QED
  BY <1>4, <1>5, <1>6 DEF Promise!FailAll

LEMMA PromisedInit == Init => Promise!Init
<1> SUFFICES ASSUME Init PROVE Promise!Init
  OBVIOUS
<1>1. {k \in EdgeKeys : edges[k] > 0} = {}
  BY DEF Init
<1>2. [c \in Clients |-> Status(c)] = [c \in Clients |-> "none"]
  BY DEF Init, Status
<1>3. MembershipInv
  BY TypedInit, MembersInit DEF MembershipInv
<1>4. [c \in Clients |-> Asked(c)] \in [Clients -> Promise!Requests]
  BY <1>3, AskedRecord
<1> QED
  BY <1>1, <1>2, <1>4 DEF Init, Promise!Init

LEMMA PromisedStep ==
    ASSUME MembershipInv, MembershipInv', PairsOK, PairsOK', [Next]_vars
    PROVE  [Promise!Next]_Promise!vars
<1>a. checked' = checked
  BY DEF Next, Request, Retry, Serve, FailWrite, Crash, CreateChannel, CreateParticipant,
         AddFirstMember, AddSecondMember, JoinChannel, PublishJoined, AddReaction, MarkRead,
         UpdatePresence, vars
<1>1. ASSUME NEW c \in Clients, NEW o \in Ops, NEW ch \in ChannelArgs(o),
             NEW m \in MessageArgs(o), NEW e \in EmojiArgs(o), NEW u \in Users,
             NEW p \in ParticipantArgs(o), NEW q \in ParticipantArgs(o),
             Request(c, o, ch, m, e, u, p, q)
      PROVE  Promise!Ask(c)
  <2>1. Entry(o) \in {"entity", "edge", "update"}
    BY DEF Entry
  <2>2. pc[c] = "idle" /\ pc'[c] = Entry(o) /\ OthersKept(c) /\ UNCHANGED <<store, joined>>
    BY <1>1 DEF Request, OthersKept, MembershipInv, Typed, TypeOK
  <2> QED
    BY <2>1, <2>2, AskIsPromised
<1>2. ASSUME NEW c \in Clients, Retry(c) PROVE Promise!Ask(c)
  <2>1. Entry(op[c]) \in {"entity", "edge", "update"}
    BY DEF Entry
  <2>2. pc[c] = "idle" /\ pc'[c] = Entry(op[c]) /\ OthersKept(c) /\ UNCHANGED <<store, joined>>
    BY <1>2 DEF Retry, OthersKept, request, MembershipInv, Typed, TypeOK
  <2> QED
    BY <2>1, <2>2, AskIsPromised
<1>3. ASSUME NEW c \in Clients, Serve(c) \/ FailWrite(c)
      PROVE  Promise!Work(c) \/ Promise!AnnounceJoin(c)
  BY <1>3, ServeIsPromised, FailWriteIsPromised
<1>4. CASE Crash
  BY <1>4, <1>a, CrashIsPromised DEF Promise!Next
<1>5. CASE UNCHANGED vars
  <2>1. \A c \in Clients : Asked(c)' = Asked(c) /\ Status(c)' = Status(c)
    BY <1>5 DEF vars, request, Asked, Status, HasChannel
  <2> QED
    BY <1>5, <2>1 DEF vars, store, Promise!vars, Promise!store
<1> QED
  BY <1>a, <1>1, <1>2, <1>3, <1>4, <1>5 DEF Next, Promise!Next

-----------------------------------------------------------------------------
(* What is promised stays so *)

LEMMA HoldsStays ==
    ASSUME Typed, Typed', StoreStays, NEW c \in Clients,
           Promise!Holds(c), Asked(c)' = Asked(c)
    PROVE  Promise!Holds(c)'
<1>1. Asked(c).user # NoUser
  BY MembershipAssumption DEF Typed, TypeOK, Asked
<1>2. {k \in EdgeKeys : edges[k] > 0} \subseteq {k \in EdgeKeys : edges'[k] > 0}
  BY DEF StoreStays, EdgesStay, Typed, TypeOK
<1> QED
  BY <1>1, <1>2 DEF StoreStays, Promise!Holds, Promise!Exists

\* A client is told of success only by a step that finds all there.
LEMMA SuccessIsEarned ==
    ASSUME [Promise!Next]_Promise!vars, NEW c \in Clients, Status(c)' = "ok"
    PROVE  (Status(c) = "ok" /\ Asked(c)' = Asked(c)) \/ Promise!Holds(c)'
<1> DEFINE asked == [d \in Clients |-> Asked(d)]
           status == [d \in Clients |-> Status(d)]
           Same == Status(c) = "ok" /\ Asked(c)' = Asked(c)
<1>a. asked[c] = Asked(c) /\ status[c] = Status(c)
  OBVIOUS
<1>b. asked'[c] = Asked(c)' /\ status'[c] = Status(c)'
  OBVIOUS
<1>1. ASSUME NEW d \in Clients, Promise!Ask(d) PROVE Same
  <2>1. /\ status' = [status EXCEPT ![d] = "open"]
        /\ \E r : asked' = [asked EXCEPT ![d] = r]
    BY <1>1 DEF Promise!Ask
  <2> QED
    BY <2>1, <1>a, <1>b
<1>2. ASSUME NEW d \in Clients, NEW ch, status[d] = "open", Promise!Proceed(d, ch)
      PROVE  Same \/ Promise!Holds(c)'
  <2>1. /\ asked' = [asked EXCEPT ![d].channel = ch]
        /\ status' = status \/ (status' = [status EXCEPT ![d] = "ok"] /\ Promise!Holds(d)')
    BY <1>2 DEF Promise!Proceed
  <2>2. CASE d = c
    BY <1>2, <2>1, <2>2, <1>a, <1>b
  <2>3. CASE d # c
    BY <2>1, <2>3, <1>a, <1>b
  <2> QED
    BY <2>2, <2>3
<1>3. ASSUME NEW failed, Promise!Fail(failed) PROVE Same
  <2>1. /\ asked'[c] = IF c \in failed /\ Promise!MakesChannel(asked[c])
                       THEN [asked[c] EXCEPT !.channel = NoChannel] ELSE asked[c]
        /\ status'[c] = IF c \in failed THEN "error" ELSE status[c]
    BY <1>3 DEF Promise!Fail
  <2> QED
    BY <2>1, <1>a, <1>b
<1>4. ASSUME NEW d \in Clients, Promise!Work(d) PROVE Same \/ Promise!Holds(c)'
  <2>1. status[d] = "open" /\ ((\E ch : Promise!Proceed(d, ch)) \/ Promise!Fail({d}))
    BY <1>4 DEF Promise!Work
  <2> QED
    BY <2>1, <1>2, <1>3
<1>5. ASSUME NEW d \in Clients, Promise!AnnounceJoin(d) PROVE Same \/ Promise!Holds(c)'
  <2>1. status[d] = "open" /\ \E ch : Promise!Proceed(d, ch)
    BY <1>5 DEF Promise!AnnounceJoin
  <2> QED
    BY <2>1, <1>2
<1>6. CASE Promise!FailAll
  <2>1. \E failed : Promise!Fail(failed)
    BY <1>6 DEF Promise!FailAll
  <2> QED
    BY <2>1, <1>3
<1>7. CASE UNCHANGED Promise!vars
  BY <1>7, <1>a, <1>b DEF Promise!vars
<1> QED
  BY <1>1, <1>4, <1>5, <1>6, <1>7 DEF Promise!Next

-----------------------------------------------------------------------------
(* Theorems *)

LEMMA EndsInvariant == Spec => [](MembershipInv /\ PairsOK)
<1>1. Init => PairsOK
  BY EndsInit
<1>2. MembershipInv /\ PairsOK /\ [Next]_vars => PairsOK'
  BY EndsStep
<1> QED
  BY <1>1, <1>2, MembershipInvariant, PTL DEF Spec

\* An answer of success, of any of the seven handlers, and comm.member.joined
\* come only once all that was asked for is stored; nothing else is stored; a try
\* makes at most one channel.  The handlers pass on any id they are given: that
\* edges lead to what is there is the store's doing, where it does so.
THEOREM MembershipKeepsPromise == Spec => ImplementsPromise
<1>1. Init => Promise!Init
  BY PromisedInit
<1>2. MembershipInv /\ MembershipInv' /\ PairsOK /\ PairsOK' /\ [Next]_vars
         => [Promise!Next]_Promise!vars
  BY PromisedStep
<1> QED
  BY <1>1, <1>2, EndsInvariant, PTL DEF Spec, ImplementsPromise, Promise!Spec

\* What a client was told of success stays true: no later request, of anybody,
\* and no failure takes it back.
THEOREM SuccessLasts == Spec => []SuccessIsTrue
<1>1. Init => SuccessIsTrue
  BY DEF Init, SuccessIsTrue, Status
<1>2. MembershipInv /\ MembershipInv' /\ PairsOK /\ PairsOK' /\ SuccessIsTrue /\ [Next]_vars
         => SuccessIsTrue'
  <2> SUFFICES ASSUME MembershipInv, MembershipInv', PairsOK, PairsOK', SuccessIsTrue,
                      [Next]_vars, NEW c \in Clients, Status(c)' = "ok"
               PROVE  Promise!Holds(c)'
    BY DEF SuccessIsTrue
  <2>1. (Status(c) = "ok" /\ Asked(c)' = Asked(c)) \/ Promise!Holds(c)'
    BY PromisedStep, SuccessIsEarned
  <2>2. Typed /\ Typed' /\ StoreStays
    BY NextStays DEF MembershipInv
  <2> QED
    BY <2>1, <2>2, HoldsStays DEF SuccessIsTrue
<1> QED
  BY <1>1, <1>2, EndsInvariant, PTL DEF Spec
=============================================================================
