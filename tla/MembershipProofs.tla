--------------------------- MODULE MembershipProofs ---------------------------
(***************************************************************************)
(* Proofs about Membership for any clients, participants, channels,        *)
(* messages, emojis, number of requests and number of faults, and for both *)
(* answers of the store to an edge it has and to one that leads nowhere.   *)
(***************************************************************************)
EXTENDS Membership, TLAPS

USE DEF ToID, Joined, world, ChannelIds, MessageIds, ParticipantIds

(* A request under way is at a step of its own handler and knows its channel. *)
LocalsOK == \A c \in Clients :
    /\ pc[c] = "entity" => op[c] \in {"create", "dm", "participant"}
    /\ pc[c] \in {"first", "second"} => op[c] = "dm" /\ channel[c] \in Channels
    /\ pc[c] = "edge" => op[c] \in {"join", "react", "read"}
    /\ pc[c] = "update" => op[c] = "presence"
    /\ pc[c] = "publish" => op[c] = "join"
    /\ op[c] = "join" => channel[c] \in ChannelIds
    /\ op[c] = "react" => emoji[c] \in Emojis
    /\ op[c] # "react" => emoji[c] = NoEmoji

Typed == TypeOK /\ LocalsOK

LEMMA TypedInit == Init => Typed
  BY MembershipAssumption DEF Init, Typed, TypeOK, LocalsOK, Ops

LEMMA NextEdgeType ==
    ASSUME Typed, NEW c \in Clients, pc[c] \in {"first", "second", "edge"}
    PROVE  NextEdge(c) \in EdgeKeys
  BY DEF Typed, TypeOK, LocalsOK, NextEdge, EdgeName, EdgeKeys, Ops

LEMMA CreateRelationshipType ==
    ASSUME Typed, NEW c \in Clients, pc[c] \in {"first", "second", "edge"},
           CreateRelationship(NextEdge(c))
    PROVE  /\ edges' \in [EdgeKeys -> Nat] /\ UNCHANGED <<channelType, userOf, seen>>
           /\ edges'[NextEdge(c)] > 0
           /\ \A k \in EdgeKeys : edges[k] > 0 => edges'[k] > 0
<1>1. NextEdge(c) \in EdgeKeys
  BY NextEdgeType
<1>2. edges \in [EdgeKeys -> Nat]
  BY DEF Typed, TypeOK
<1> QED
  BY <1>1, <1>2 DEF CreateRelationship

\* No step takes an edge away.
EdgesStay == \A k \in EdgeKeys : edges[k] > 0 => edges'[k] > 0

StoreType ==
    /\ edges \in [EdgeKeys -> Nat]
    /\ channelType \in [Channels -> {"absent", "group", "direct"}]
    /\ userOf \in [Participants -> Users \cup {NoUser}]
    /\ seen \subseteq Participants

\* What a step does to the store.
LEMMA StoreStep ==
    ASSUME Typed, [Next]_vars
    PROVE  StoreType' /\ EdgesStay
<1> DEFINE Goal == StoreType' /\ EdgesStay
<1> USE DEF vars, store, request
<1>a. StoreType
  BY DEF Typed, TypeOK, StoreType
<1>1. CASE UNCHANGED store
  BY <1>1, <1>a DEF StoreType, EdgesStay
<1>2. ASSUME NEW c \in Clients, NEW ch \in Channels, NewChannel(c, ch) PROVE Goal
  BY <1>2, <1>a DEF NewChannel, StoreType, EdgesStay
<1>3. ASSUME NEW c \in Clients, pc[c] \in {"first", "second", "edge"},
             CreateRelationship(NextEdge(c))
      PROVE  Goal
  BY <1>3, <1>a, CreateRelationshipType DEF StoreType, EdgesStay
<1>4. ASSUME NEW c \in Clients, NEW p \in Participants, NewParticipant(c, p) PROVE Goal
  <2>1. user[c] \in Users
    BY DEF Typed, TypeOK
  <2> QED
    BY <1>4, <1>a, <2>1 DEF NewParticipant, StoreType, EdgesStay
<1>5. ASSUME NEW p, SetPresence(p) PROVE Goal
  BY <1>5, <1>a DEF SetPresence, ParticipantThere, StoreType, EdgesStay
<1>6. ASSUME NEW c \in Clients, Serve(c) \/ FailWrite(c) PROVE Goal
  <2>1. \/ UNCHANGED store
        \/ \E ch \in Channels : NewChannel(c, ch)
        \/ \E p \in Participants : NewParticipant(c, p)
        \/ SetPresence(first[c])
        \/ pc[c] \in {"first", "second", "edge"} /\ CreateRelationship(NextEdge(c))
    <3>1. CASE Serve(c)
      BY <3>1 DEF Serve, CreateChannel, CreateParticipant, AddFirstMember, AddSecondMember,
                  JoinChannel, PublishJoined, AddReaction, MarkRead, UpdatePresence, Refuse
    <3>2. CASE FailWrite(c)
      BY <3>2 DEF FailWrite
    <3> QED
      BY <1>6, <3>1, <3>2
  <2>2. CASE SetPresence(first[c])
    BY <2>2, <1>5
  <2> QED
    BY <2>1, <2>2, <1>1, <1>2, <1>3, <1>4
<1> QED
  BY <1>1, <1>6 DEF Next, Request, Retry, Crash

LEMMA TypedStep == Typed /\ [Next]_vars => Typed'
<1> SUFFICES ASSUME Typed, [Next]_vars PROVE Typed'
  OBVIOUS
<1>a. StoreType'
  BY StoreStep
<1> USE DEF vars, request
<1>1. ASSUME NEW c \in Clients, NEW o \in Ops, NEW ch \in ChannelArgs(o),
             NEW m \in MessageArgs(o), NEW e \in EmojiArgs(o), NEW u \in Users,
             NEW p \in ParticipantArgs(o), NEW q \in ParticipantArgs(o),
             Request(c, o, ch, m, e, u, p, q)
      PROVE  Typed'
  <2>1. /\ Entry(o) \in {"entity", "edge", "update"}
        /\ Entry(o) = "entity" <=> o \in {"create", "dm", "participant"}
        /\ Entry(o) = "update" <=> o = "presence"
    BY DEF Entry
  <2>2. /\ ch \in ChannelIds \cup {NoChannel} /\ m \in MessageIds /\ e \in Emojis \cup {NoEmoji}
        /\ p \in ParticipantIds /\ q \in ParticipantIds
        /\ o = "join" => ch \in ChannelIds
        /\ o = "react" => e \in Emojis
        /\ o # "react" => e = NoEmoji
    BY DEF ChannelArgs, MessageArgs, EmojiArgs, ParticipantArgs
  <2>3. TypeOK'
    BY <1>1, <1>a, <2>1, <2>2 DEF StoreType, Request, Typed, TypeOK
  <2>4. LocalsOK'
    BY <1>1, <2>1, <2>2 DEF Request, Typed, TypeOK, LocalsOK, Ops
  <2> QED
    BY <2>3, <2>4 DEF Typed
<1>2. ASSUME NEW c \in Clients, Retry(c) PROVE Typed'
  <2>1. TypeOK'
    BY <1>2, <1>a DEF StoreType, Retry, Entry, Typed, TypeOK
  <2>2. LocalsOK'
    BY <1>2 DEF Retry, Entry, Typed, TypeOK, LocalsOK, Ops
  <2> QED
    BY <2>1, <2>2 DEF Typed
<1>3. ASSUME NEW c \in Clients, NEW ch \in Channels, CreateChannel(c, ch) PROVE Typed'
  <2>1. TypeOK'
    BY <1>3, <1>a DEF StoreType, CreateChannel, Goto, Answer, Typed, TypeOK
  <2>2. LocalsOK'
    BY <1>3 DEF CreateChannel, Goto, Answer, Typed, TypeOK, LocalsOK, Ops
  <2> QED
    BY <2>1, <2>2 DEF Typed
\* A step of a handler that keeps its arguments.
<1>b. ASSUME NEW c \in Clients, UNCHANGED <<world, request, requests>>,
             joined' \subseteq ChannelIds \X ParticipantIds, confirmed' \subseteq Direct,
             faults' \in Nat,
             \/ \E a \in {"ok", "error"} : Answer(c, a)
             \/ pc[c] = "first" /\ Goto(c, "second")
             \/ op[c] = "join" /\ Goto(c, "publish")
      PROVE  Typed'
  <2>1. TypeOK'
    BY <1>b, <1>a DEF StoreType, Goto, Answer, Typed, TypeOK
  <2>2. LocalsOK'
    BY <1>b DEF Goto, Answer, Typed, TypeOK, LocalsOK
  <2> QED
    BY <2>1, <2>2 DEF Typed
<1>c. /\ joined \subseteq ChannelIds \X ParticipantIds
      /\ confirmed \subseteq Direct
      /\ faults \in Nat
  BY DEF Typed, TypeOK
<1>d. \A o : RefusedAnswer(o) \in {"ok", "error"}
  BY DEF RefusedAnswer
<1>4. ASSUME NEW c \in Clients, AddFirstMember(c) PROVE Typed'
  BY <1>4, <1>b, <1>c, <1>d DEF AddFirstMember, Refuse
<1>5. ASSUME NEW c \in Clients, AddSecondMember(c) PROVE Typed'
  <2>1. [channel |-> channel[c], first |-> first[c], second |-> second[c]] \in Direct
    BY <1>5 DEF AddSecondMember, Typed, TypeOK, LocalsOK, Direct
  <2> QED
    BY <1>5, <2>1, <1>b, <1>c, <1>d DEF AddSecondMember, Refuse
<1>6. ASSUME NEW c \in Clients, JoinChannel(c) PROVE Typed'
  BY <1>6, <1>b, <1>c, <1>d DEF JoinChannel, Refuse
<1>7. ASSUME NEW c \in Clients, PublishJoined(c) PROVE Typed'
  <2>1. <<channel[c], first[c]>> \in ChannelIds \X ParticipantIds
    BY <1>7 DEF PublishJoined, Typed, TypeOK, LocalsOK
  <2> QED
    BY <1>7, <2>1, <1>b, <1>c DEF PublishJoined
<1>8. ASSUME NEW c \in Clients, AddReaction(c) \/ MarkRead(c) PROVE Typed'
  BY <1>8, <1>b, <1>c, <1>d DEF AddReaction, MarkRead, Refuse
<1>9. ASSUME NEW c \in Clients, FailWrite(c) PROVE Typed'
  BY <1>9, <1>b, <1>c DEF FailWrite, Fault
<1>12. ASSUME NEW c \in Clients, NEW p \in Participants, CreateParticipant(c, p) PROVE Typed'
  BY <1>12, <1>b, <1>c DEF CreateParticipant
<1>13. ASSUME NEW c \in Clients, UpdatePresence(c) PROVE Typed'
  BY <1>13, <1>b, <1>c DEF UpdatePresence
<1>10. CASE Crash
  <2>1. TypeOK'
    BY <1>10, <1>a DEF StoreType, Crash, Fault, Typed, TypeOK
  <2>2. LocalsOK'
    BY <1>10 DEF Crash, Typed, LocalsOK
  <2> QED
    BY <2>1, <2>2 DEF Typed
<1>11. CASE UNCHANGED vars
  BY <1>11 DEF store, Typed, TypeOK, LocalsOK
<1> QED
  BY <1>1, <1>2, <1>3, <1>4, <1>5, <1>6, <1>7, <1>8, <1>9, <1>10, <1>11, <1>12, <1>13 DEF Next, Serve

-----------------------------------------------------------------------------
(* A request has its member in the channel before it answers or announces    *)
(* it, and no step takes a member out of a channel.                          *)

HasFirst(c) == edges[<<"has_member", channel[c], first[c], NoEmoji>>] > 0

MembersOK ==
    /\ AnsweredDMComplete
    /\ EventsFollowMembers
    /\ \A c \in Clients : pc[c] \in {"second", "publish"} => HasFirst(c)

LEMMA MembersInit == Init => MembersOK
  BY DEF Init, MembersOK, AnsweredDMComplete, EventsFollowMembers

LEMMA MembersStay ==
    ASSUME Typed, EdgesStay, NEW ch \in ChannelIds
    PROVE  Members(ch) \subseteq Members(ch)'
  BY DEF EdgesStay, Members, EdgeKeys

LEMMA MembersStep == Typed /\ Typed' /\ MembersOK /\ [Next]_vars => MembersOK'
<1> SUFFICES ASSUME Typed, Typed', MembersOK, [Next]_vars PROVE MembersOK'
  OBVIOUS
<1>a. EdgesStay
  BY StoreStep
<1>b. \A ch \in ChannelIds : Members(ch) \subseteq Members(ch)'
  BY <1>a, MembersStay
<1>c. /\ joined \subseteq ChannelIds \X ParticipantIds /\ confirmed \subseteq Direct
      /\ \A c \in Clients : pc[c] \in {"second", "publish"} => channel[c] \in ChannelIds
      /\ pc \in [Clients -> {"idle", "entity", "first", "second", "edge", "update", "publish"}]
      /\ first \in [Clients -> ParticipantIds]
  BY DEF Typed, TypeOK, LocalsOK
<1> USE DEF vars, request
<1>d. confirmed' = confirmed => AnsweredDMComplete'
  BY <1>b, <1>c DEF MembersOK, AnsweredDMComplete, Direct
<1>e. joined' = joined => EventsFollowMembers'
  BY <1>b, <1>c DEF MembersOK, EventsFollowMembers
\* A request that stays where it is keeps its first member.
<1>f. ASSUME NEW c \in Clients, pc[c] \in {"second", "publish"},
             channel'[c] = channel[c], first'[c] = first[c]
      PROVE  HasFirst(c)'
  BY <1>a, <1>c, <1>f DEF MembersOK, HasFirst, EdgesStay, EdgeKeys
<1>g. ASSUME UNCHANGED <<confirmed, joined>>,
             \A c \in Clients : pc'[c] \in {"second", "publish"} =>
                /\ pc[c] \in {"second", "publish"}
                /\ channel'[c] = channel[c] /\ first'[c] = first[c]
      PROVE  MembersOK'
  BY <1>d, <1>e, <1>f, <1>g DEF MembersOK
<1>1. ASSUME NEW c \in Clients, NEW o \in Ops, NEW ch \in ChannelArgs(o),
             NEW m \in MessageArgs(o), NEW e \in EmojiArgs(o), NEW u \in Users,
             NEW p \in ParticipantArgs(o), NEW q \in ParticipantArgs(o),
             Request(c, o, ch, m, e, u, p, q)
      PROVE  MembersOK'
  BY <1>1, <1>c, <1>g DEF Request, Entry, Typed, TypeOK
<1>2. ASSUME NEW c \in Clients, Retry(c) PROVE MembersOK'
  BY <1>2, <1>c, <1>g DEF Retry, Entry
<1>3. ASSUME NEW c \in Clients, NEW ch \in Channels, CreateChannel(c, ch) PROVE MembersOK'
  BY <1>3, <1>c, <1>g DEF CreateChannel, Goto, Answer, Typed, TypeOK
\* The edge of a member is there once it is created.
<1>h. ASSUME NEW c \in Clients, CreateRelationship(NextEdge(c)), UNCHANGED <<channel, first>>,
             pc[c] = "first" \/ (pc[c] = "edge" /\ op[c] = "join")
      PROVE  HasFirst(c)'
  <2>1. NextEdge(c) = <<"has_member", channel[c], first[c], NoEmoji>>
    BY <1>h DEF NextEdge, EdgeName, Typed, LocalsOK
  <2>2. edges'[NextEdge(c)] > 0
    BY <1>h, CreateRelationshipType
  <2> QED
    BY <1>h, <2>1, <2>2 DEF HasFirst
<1>i. ASSUME NEW c \in Clients, NEW s \in {"second", "publish"}, Goto(c, s), HasFirst(c)',
             UNCHANGED <<confirmed, joined, channel, first>>
      PROVE  MembersOK'
  BY <1>c, <1>d, <1>e, <1>f, <1>i DEF Goto, MembersOK
<1>j. ASSUME NEW c \in Clients, NEW a, Answer(c, a), UNCHANGED <<confirmed, joined, channel, first>>
      PROVE  MembersOK'
  BY <1>c, <1>g, <1>j DEF Answer
<1>4. ASSUME NEW c \in Clients, AddFirstMember(c) PROVE MembersOK'
  BY <1>4, <1>h, <1>i, <1>j DEF AddFirstMember, Refuse
<1>5. ASSUME NEW c \in Clients, AddSecondMember(c) PROVE MembersOK'
  <2>1. CASE Refuse(c) /\ UNCHANGED confirmed
    BY <1>5, <2>1, <1>j DEF AddSecondMember, Refuse
  <2>2. CASE /\ CreateRelationship(NextEdge(c))
             /\ Answer(c, "ok")
             /\ confirmed' = confirmed \cup
                   {[channel |-> channel[c], first |-> first[c], second |-> second[c]]}
    <3>1. NextEdge(c) = <<"has_member", channel[c], second[c], NoEmoji>> /\ edges'[NextEdge(c)] > 0
      BY <1>5, <2>2, CreateRelationshipType DEF AddSecondMember, NextEdge, EdgeName, Typed, LocalsOK
    <3>2. second[c] \in Members(channel[c])'
      BY <1>5, <3>1 DEF AddSecondMember, Members, Typed, TypeOK
    <3>3. first[c] \in Members(channel[c])'
      BY <1>5, <1>c, <1>f DEF AddSecondMember, HasFirst, Members
    <3>4. channel' = channel
      BY <1>5 DEF AddSecondMember
    <3>5. AnsweredDMComplete'
      BY <2>2, <3>2, <3>3, <3>4, <1>b, <1>c DEF MembersOK, AnsweredDMComplete, Direct
    <3>6. EventsFollowMembers'
      BY <1>5, <1>e DEF AddSecondMember
    <3>7. ASSUME NEW d \in Clients, pc'[d] \in {"second", "publish"} PROVE HasFirst(d)'
      BY <1>5, <2>2, <3>7, <1>c, <1>f DEF AddSecondMember, Answer
    <3> QED
      BY <3>5, <3>6, <3>7 DEF MembersOK
  <2> QED
    BY <1>5, <2>1, <2>2 DEF AddSecondMember
<1>6. ASSUME NEW c \in Clients, JoinChannel(c) PROVE MembersOK'
  BY <1>6, <1>h, <1>i, <1>j DEF JoinChannel, Refuse
<1>7. ASSUME NEW c \in Clients, PublishJoined(c) PROVE MembersOK'
  <2>1. first[c] \in Members(channel[c])' /\ channel' = channel
    BY <1>7, <1>c, <1>f DEF PublishJoined, HasFirst, Members
  <2>2. EventsFollowMembers'
    BY <1>7, <2>1, <1>b, <1>c DEF PublishJoined, MembersOK, EventsFollowMembers
  <2>3. ASSUME NEW d \in Clients, pc'[d] \in {"second", "publish"} PROVE HasFirst(d)'
    BY <1>7, <2>3, <1>c, <1>f DEF PublishJoined, Answer
  <2> QED
    BY <1>7, <2>2, <2>3, <1>d DEF PublishJoined, MembersOK
<1>8. ASSUME NEW c \in Clients, AddReaction(c) \/ MarkRead(c) PROVE MembersOK'
  BY <1>8, <1>j DEF AddReaction, MarkRead, Refuse
<1>9. ASSUME NEW c \in Clients, FailWrite(c) PROVE MembersOK'
  BY <1>9, <1>j DEF FailWrite
<1>12. ASSUME NEW c \in Clients, NEW p \in Participants, CreateParticipant(c, p) PROVE MembersOK'
  BY <1>12, <1>j DEF CreateParticipant
<1>13. ASSUME NEW c \in Clients, UpdatePresence(c) PROVE MembersOK'
  BY <1>13, <1>j DEF UpdatePresence
<1>10. CASE Crash
  BY <1>10, <1>g DEF Crash
<1>11. CASE UNCHANGED vars
  BY <1>11, <1>g
<1> QED
  BY <1>1, <1>2, <1>3, <1>4, <1>5, <1>6, <1>7, <1>8, <1>9, <1>10, <1>11, <1>12, <1>13 DEF Next, Serve

-----------------------------------------------------------------------------
(* Theorems *)

MembershipInv == Typed /\ MembersOK

LEMMA MembershipInvariant == Spec => []MembershipInv
<1>1. Init => MembershipInv
  BY TypedInit, MembersInit DEF MembershipInv
<1>2. MembershipInv /\ [Next]_vars => MembershipInv'
  BY TypedStep, MembersStep DEF MembershipInv
<1> QED
  BY <1>1, <1>2, PTL DEF Spec

\* The types are those of the stored entities and edges and of the handlers'
\* arguments, whatever the clients repeat.
THEOREM TypeCorrect == Spec => []TypeOK
  BY MembershipInvariant, PTL DEF MembershipInv, Typed

\* createDM answers 201 only after both edges are stored, and no handler
\* removes one.
THEOREM ConfirmedDMIsComplete == Spec => []AnsweredDMComplete
<1>1. MembershipInv => AnsweredDMComplete
  BY DEF MembershipInv, MembersOK
<1> QED
  BY <1>1, MembershipInvariant, PTL

\* joinChannel publishes comm.member.joined only after the edge it announces.
THEOREM JoinsAreReal == Spec => []EventsFollowMembers
<1>1. MembershipInv => EventsFollowMembers
  BY DEF MembershipInv, MembersOK
<1> QED
  BY <1>1, MembershipInvariant, PTL
=============================================================================
