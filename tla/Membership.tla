------------------------------ MODULE Membership ------------------------------
(***************************************************************************)
(* Channels, participants, members, reactions and read receipts            *)
(* (src/internal/httphandler/handler_channels.go, handler_participants.go) *)
(* and the clients that repeat a request they got no good answer to.       *)
(*                                                                         *)
(* No handler looks before it writes: createDM does not search for the     *)
(* direct channel of the pair, createParticipant not for the user's,       *)
(* joinChannel not for the member, and none whether the ids it is given    *)
(* are of anything.  What the store says of an edge it has already, and of *)
(* one to what is not there, decides what becomes of a request.            *)
(***************************************************************************)
EXTENDS Naturals, FiniteSets

CONSTANTS
    Clients,
    Users,         \* user_ids a Participant may stand for
    Participants,  \* ids the entity store can hand out for Participant entities
    Channels,      \* and for Channel entities
    Messages,      \* ids of the messages there are
    Emojis,
    Unknown,       \* an id that a client may name and nothing has
    NoUser, NoChannel, NoEmoji,
    MaxRequests,   \* bound: requests started
    MaxFaults      \* bound: store errors and crashes

ASSUME MembershipAssumption ==
    /\ Unknown \notin Channels \cup Participants \cup Messages
    /\ NoChannel \notin Channels \cup {Unknown}
    /\ NoUser \notin Users /\ Users # {}
    /\ NoEmoji \notin Emojis
    /\ MaxRequests \in Nat
    /\ MaxFaults \in Nat

VARIABLES         \* what the store refuses, always or never
    unique,       \* a second edge of one name between two ends, whatever the
                  \* emoji it carries (ErrEntityAlreadyExists)
    checked       \* an edge from or to what is not there

VARIABLES
    channelType,  \* of every Channel id: not created, a group's, a direct one
    userOf,       \* the user_id of every Participant; NoUser: not created
    seen,         \* Participants whose presence and last_seen_at are set
    edges,        \* how many edges there are of every name, pair of ends and emoji
    joined,       \* comm.member.joined events delivered
    confirmed,    \* history variable: direct channels answered with 201
    faults,
    requests

VARIABLES  \* the request of every client
    pc,        \* the store call or publish that comes next
    op, channel, message, emoji, user, first, second,
    answer

world == <<unique, checked>>
store == <<channelType, userOf, seen, edges>>
request == <<op, channel, message, emoji, user, first, second>>
vars == <<world, store, joined, confirmed, faults, requests, pc, request, answer>>

Ops == {"create", "dm", "join", "react", "read", "participant", "presence"}

\* The ids that may stand in a request.
ChannelIds == Channels \cup {Unknown}
MessageIds == Messages \cup {Unknown}
ParticipantIds == Participants \cup {Unknown}

EdgeKeys ==
    ({"has_member"} \X ChannelIds \X ParticipantIds \X {NoEmoji})
        \cup ({"has_reaction"} \X MessageIds \X ParticipantIds \X Emojis)
        \cup ({"read_by"} \X MessageIds \X ParticipantIds \X {NoEmoji})

Direct == [channel : Channels, first : ParticipantIds, second : ParticipantIds]

TypeOK ==
    /\ unique \in BOOLEAN /\ checked \in BOOLEAN
    /\ channelType \in [Channels -> {"absent", "group", "direct"}]
    /\ userOf \in [Participants -> Users \cup {NoUser}]
    /\ seen \subseteq Participants
    /\ edges \in [EdgeKeys -> Nat]
    /\ joined \subseteq ChannelIds \X ParticipantIds
    /\ confirmed \subseteq Direct
    /\ faults \in Nat
    /\ requests \in Nat
    /\ pc \in [Clients -> {"idle", "entity", "first", "second", "edge", "update", "publish"}]
    /\ op \in [Clients -> Ops]
    /\ channel \in [Clients -> ChannelIds \cup {NoChannel}]
    /\ message \in [Clients -> MessageIds]
    /\ emoji \in [Clients -> Emojis \cup {NoEmoji}]
    /\ user \in [Clients -> Users]
    /\ first \in [Clients -> ParticipantIds]
    /\ second \in [Clients -> ParticipantIds]
    /\ answer \in [Clients -> {"none", "ok", "error"}]

\* There may be channels and participants already.
Init ==
    /\ unique \in BOOLEAN /\ checked \in BOOLEAN
    /\ channelType \in [Channels -> {"absent", "group"}]
    /\ userOf \in [Participants -> Users \cup {NoUser}]
    /\ seen = {}
    /\ edges = [k \in EdgeKeys |-> 0]
    /\ joined = {}
    /\ confirmed = {}
    /\ faults = 0
    /\ requests = 0
    /\ pc = [c \in Clients |-> "idle"]
    /\ op = [c \in Clients |-> "create"]
    /\ channel = [c \in Clients |-> NoChannel]
    /\ message = [c \in Clients |-> Unknown]
    /\ emoji = [c \in Clients |-> NoEmoji]
    /\ user = [c \in Clients |-> CHOOSE u \in Users : TRUE]
    /\ first = [c \in Clients |-> Unknown]
    /\ second = [c \in Clients |-> Unknown]
    /\ answer = [c \in Clients |-> "none"]

-----------------------------------------------------------------------------
(* The store.  A definition called faulty is used by no step: it is a bug in   *)
(* place of the one that follows it.                                           *)

ChannelThere(ch) == ch \in Channels /\ channelType[ch] # "absent"

ParticipantThere(p) == p \in Participants /\ userOf[p] # NoUser

Members(ch) == {p \in ParticipantIds : edges[<<"has_member", ch, p, NoEmoji>>] > 0}

EdgeName == [dm |-> "has_member", join |-> "has_member",
             react |-> "has_reaction", read |-> "read_by"]

\* Faulty: the loop of createDM adds its first participant twice.
AlwaysFirst(c) == first[c]

ToID(c) == IF pc[c] = "second" THEN second[c] ELSE first[c]

\* The edge the handler creates next.
NextEdge(c) ==
    <<EdgeName[op[c]], IF op[c] \in {"react", "read"} THEN message[c] ELSE channel[c],
      ToID(c), emoji[c]>>

EndsThere(k) ==
    /\ IF k[1] = "has_member" THEN ChannelThere(k[2]) ELSE k[2] \in Messages
    /\ ParticipantThere(k[3])

\* An edge of the same name between the same ends is there and stands in the way.
Taken(k) ==
    unique /\ \E e \in Emojis \cup {NoEmoji} :
        LET other == <<k[1], k[2], k[3], e>> IN other \in EdgeKeys /\ edges[other] > 0

Accepts(k) == ~Taken(k) /\ (checked => EndsThere(k))

\* Faulty: an error of CreateRelationship is ignored.
CreateOrNot(k) ==
    /\ edges' \in {edges, [edges EXCEPT ![k] = @ + 1]}
    /\ UNCHANGED <<channelType, userOf, seen>>

CreateRelationship(k) ==
    /\ Accepts(k)
    /\ edges' = [edges EXCEPT ![k] = @ + 1]
    /\ UNCHANGED <<channelType, userOf, seen>>

NewChannel(c, ch) ==
    /\ op[c] \in {"create", "dm"} /\ channelType[ch] = "absent"
    /\ channelType' = [channelType EXCEPT ![ch] = IF op[c] = "dm" THEN "direct" ELSE "group"]
    /\ UNCHANGED <<userOf, seen, edges>>

NewParticipant(c, p) ==
    /\ op[c] = "participant" /\ userOf[p] = NoUser
    /\ userOf' = [userOf EXCEPT ![p] = user[c]]
    /\ UNCHANGED <<channelType, seen, edges>>

\* Faulty: the update makes the participant it does not find.
UpsertPresence(p) ==
    /\ seen' = seen \cup {p}
    /\ UNCHANGED <<channelType, userOf, edges>>

SetPresence(p) ==
    /\ ParticipantThere(p)
    /\ seen' = seen \cup {p}
    /\ UNCHANGED <<channelType, userOf, edges>>

Goto(c, step) == pc' = [pc EXCEPT ![c] = step] /\ UNCHANGED answer

Answer(c, a) ==
    /\ pc' = [pc EXCEPT ![c] = "idle"]
    /\ answer' = [answer EXCEPT ![c] = a]

\* The first store call of the handler of an operation.
Entry(o) ==
    CASE o \in {"create", "dm", "participant"} -> "entity"
      [] o = "presence" -> "update"
      [] OTHER -> "edge"

Fault ==
    /\ faults < MaxFaults
    /\ faults' = faults + 1

-----------------------------------------------------------------------------
(* Clients *)

\* The ids a request may name are those of what there is, and Unknown: a client
\* cannot name an id that is handed out later.
ChannelArgs(o) ==
    IF o = "join" THEN {ch \in Channels : ChannelThere(ch)} \cup {Unknown} ELSE {NoChannel}

MessageArgs(o) == IF o \in {"react", "read"} THEN MessageIds ELSE {Unknown}

EmojiArgs(o) == IF o = "react" THEN Emojis ELSE {NoEmoji}

ParticipantArgs(o) ==
    {Unknown} \cup IF o \in {"create", "participant"} THEN {}
                   ELSE {p \in Participants : ParticipantThere(p)}

\* A new request.
Request(c, o, ch, m, e, u, p, q) ==
    /\ pc[c] = "idle" /\ answer[c] # "error"
    /\ requests < MaxRequests
    /\ o # "dm" => p = q
    /\ requests' = requests + 1
    /\ pc' = [pc EXCEPT ![c] = Entry(o)]
    /\ op' = [op EXCEPT ![c] = o]
    /\ channel' = [channel EXCEPT ![c] = ch]
    /\ message' = [message EXCEPT ![c] = m]
    /\ emoji' = [emoji EXCEPT ![c] = e]
    /\ user' = [user EXCEPT ![c] = u]
    /\ first' = [first EXCEPT ![c] = p]
    /\ second' = [second EXCEPT ![c] = q]
    /\ answer' = [answer EXCEPT ![c] = "none"]
    /\ UNCHANGED <<world, store, joined, confirmed, faults>>

\* The same request again, after an error or a lost answer.
Retry(c) ==
    /\ pc[c] = "idle" /\ answer[c] = "error"
    /\ pc' = [pc EXCEPT ![c] = Entry(op[c])]
    /\ answer' = [answer EXCEPT ![c] = "none"]
    /\ UNCHANGED <<world, store, joined, confirmed, faults, requests, request>>

-----------------------------------------------------------------------------
(* Handlers: one store call, or one publish, at a time. *)

\* Faulty: read already is an error like any other.
AlwaysError(c) == "error"

\* What a handler makes of an edge refused: only markRead tells
\* ErrEntityAlreadyExists from other errors.
RefusedAnswer(c) == IF op[c] = "read" /\ Taken(NextEdge(c)) THEN "ok" ELSE "error"

Refuse(c) ==
    ~Accepts(NextEdge(c)) /\ Answer(c, RefusedAnswer(c)) /\ UNCHANGED store

\* createChannel ends here; createDM goes on to its members.
CreateChannel(c, ch) ==
    /\ pc[c] = "entity"
    /\ NewChannel(c, ch)
    /\ channel' = [channel EXCEPT ![c] = ch]
    /\ IF op[c] = "dm" THEN Goto(c, "first") ELSE Answer(c, "ok")
    /\ UNCHANGED <<world, joined, confirmed, faults, requests, op, message, emoji, user,
                   first, second>>

\* The loop of createDM over the two participants: an error ends it.
AddFirstMember(c) ==
    /\ pc[c] = "first"
    /\ (CreateRelationship(NextEdge(c)) /\ Goto(c, "second")) \/ Refuse(c)
    /\ UNCHANGED <<world, joined, confirmed, faults, requests, request>>

AddSecondMember(c) ==
    /\ pc[c] = "second"
    /\ \/ /\ CreateRelationship(NextEdge(c))
          /\ Answer(c, "ok")
          /\ confirmed' = confirmed \cup
                {[channel |-> channel[c], first |-> first[c], second |-> second[c]]}
       \/ Refuse(c) /\ UNCHANGED confirmed
    /\ UNCHANGED <<world, joined, faults, requests, request>>

JoinChannel(c) ==
    /\ pc[c] = "edge" /\ op[c] = "join"
    /\ (CreateRelationship(NextEdge(c)) /\ Goto(c, "publish")) \/ Refuse(c)
    /\ UNCHANGED <<world, joined, confirmed, faults, requests, request>>

\* Faulty: the payload has its two ids the wrong way round.
SwappedIds(c) == <<first[c], channel[c]>>

\* The payload of comm.member.joined.
Joined(c) == <<channel[c], first[c]>>

PublishJoined(c) ==
    /\ pc[c] = "publish"
    /\ joined' \in {joined, joined \cup {Joined(c)}}
    /\ Answer(c, "ok")
    /\ UNCHANGED <<world, store, confirmed, faults, requests, request>>

AddReaction(c) ==
    /\ pc[c] = "edge" /\ op[c] = "react"
    /\ (CreateRelationship(NextEdge(c)) /\ Answer(c, "ok")) \/ Refuse(c)
    /\ UNCHANGED <<world, joined, confirmed, faults, requests, request>>

MarkRead(c) ==
    /\ pc[c] = "edge" /\ op[c] = "read"
    /\ (CreateRelationship(NextEdge(c)) /\ Answer(c, "ok")) \/ Refuse(c)
    /\ UNCHANGED <<world, joined, confirmed, faults, requests, request>>

CreateParticipant(c, p) ==
    /\ pc[c] = "entity"
    /\ NewParticipant(c, p)
    /\ Answer(c, "ok")
    /\ UNCHANGED <<world, joined, confirmed, faults, requests, request>>

\* 404 for a participant there is not.
UpdatePresence(c) ==
    /\ pc[c] = "update"
    /\ \/ SetPresence(first[c]) /\ Answer(c, "ok")
       \/ ~ParticipantThere(first[c]) /\ Answer(c, "error") /\ UNCHANGED store
    /\ UNCHANGED <<world, joined, confirmed, faults, requests, request>>

\* A store error: 500.  The write may have taken effect.
FailWrite(c) ==
    /\ Fault
    /\ \/ pc[c] \notin {"idle", "publish"} /\ UNCHANGED store
       \/ pc[c] = "entity" /\ \E ch \in Channels : NewChannel(c, ch)
       \/ pc[c] = "entity" /\ \E p \in Participants : NewParticipant(c, p)
       \/ pc[c] \in {"first", "second", "edge"} /\ CreateRelationship(NextEdge(c))
       \/ pc[c] = "update" /\ SetPresence(first[c])
    /\ Answer(c, "error")
    /\ UNCHANGED <<world, joined, confirmed, requests, request>>

\* Every connection breaks: who waits for an answer gets none.
Crash ==
    /\ Fault
    /\ pc' = [c \in Clients |-> "idle"]
    /\ answer' = [c \in Clients |-> IF pc[c] = "idle" THEN answer[c] ELSE "error"]
    /\ UNCHANGED <<world, store, joined, confirmed, requests, request>>

Serve(c) ==
    \/ \E ch \in Channels : CreateChannel(c, ch)
    \/ \E p \in Participants : CreateParticipant(c, p)
    \/ AddFirstMember(c)
    \/ AddSecondMember(c)
    \/ JoinChannel(c)
    \/ PublishJoined(c)
    \/ AddReaction(c)
    \/ MarkRead(c)
    \/ UpdatePresence(c)

Next ==
    \/ \E c \in Clients, o \in Ops :
          \E ch \in ChannelArgs(o), m \in MessageArgs(o), e \in EmojiArgs(o), u \in Users,
             p, q \in ParticipantArgs(o) : Request(c, o, ch, m, e, u, p, q)
    \/ \E c \in Clients : Retry(c) \/ Serve(c) \/ FailWrite(c)
    \/ Crash

Spec == Init /\ [][Next]_vars

\* A handler that started keeps running; a client repeats a failed request.
FairSpec == Spec /\ \A c \in Clients : WF_vars(Serve(c)) /\ WF_vars(Retry(c))

-----------------------------------------------------------------------------
(* Properties *)

\* A direct channel answered with 201 has both participants as members,
\* whatever failed and was repeated before (createDM's loop stops at an error).
AnsweredDMComplete ==
    \A d \in confirmed : {d.first, d.second} \subseteq Members(d.channel)

\* Who receives comm.member.joined finds the member in the channel.
EventsFollowMembers == \A j \in joined : j[2] \in Members(j[1])

\* "Exactly two has_member edges exist" of every direct channel that no
\* request is still working on.
DMHasTwoMembers ==
    \A ch \in Channels :
        /\ channelType[ch] = "direct"
        /\ \A c \in Clients : channel[c] = ch => pc[c] = "idle"
        => Cardinality(Members(ch)) = 2

\* A direct channel that exists between two participants is returned, not made
\* again: whoever is told of one is told of the same one.
OneDMPerPair ==
    \A d, e \in confirmed : {d.first, d.second} = {e.first, e.second} => d.channel = e.channel

\* markRead is idempotent: a client that repeats it after an error or a lost
\* answer gets its 200, even if an earlier try has stored the receipt.  (An id
\* that nothing has is refused for ever by a store that checks the ends.)
ReadsSucceed ==
    \A c \in Clients :
        (op[c] = "read" /\ pc[c] # "idle" /\ (checked => EndsThere(NextEdge(c))))
            ~> (op[c] = "read" /\ answer[c] = "ok")

\* The ids a request names are of something.
NamesExist(c) ==
    /\ op[c] \in {"dm", "join", "react", "read", "presence"} =>
          ParticipantThere(first[c]) /\ ParticipantThere(second[c])
    /\ op[c] = "join" => ChannelThere(channel[c])
    /\ op[c] \in {"react", "read"} => message[c] \in Messages

TookEffect(c) ==
    CASE op[c] = "dm" -> channel[c] # NoChannel /\ {first[c], second[c]} \subseteq Members(channel[c])
      [] op[c] = "create" -> channel[c] # NoChannel
      [] op[c] \in {"join", "react", "read"} -> edges[NextEdge(c)] > 0
      [] op[c] = "participant" -> \E p \in Participants : userOf[p] = user[c]
      [] op[c] = "presence" -> first[c] \in seen

\* Where the store refuses a duplicate, joinChannel answers 500 as long as the
\* member is there, and addReaction as long as any reaction of the participant
\* to the message is.
RefusedForEver(c) == op[c] \in {"join", "react"} /\ Taken(NextEdge(c))

\* The bound on ids has been reached.
OutOfIds(c) ==
    \/ op[c] \in {"create", "dm"} /\ \A ch \in Channels : channelType[ch] # "absent"
    \/ op[c] = "participant" /\ \A p \in Participants : userOf[p] # NoUser

\* A request repeated until it succeeds is answered with success in the end, and
\* takes effect, whatever its earlier tries left in the store: a half-made direct
\* channel stands in the way of none.  Only what is refused as a duplicate may be
\* answered with 500 for ever; then the member is there, or a reaction of the
\* participant, not always the one asked for.
RetriesTakeEffect ==
    \A c \in Clients :
        (pc[c] # "idle" /\ (checked \/ op[c] = "presence" => NamesExist(c)))
            ~> \/ answer[c] = "ok" /\ TookEffect(c)
               \/ RefusedForEver(c) /\ (op[c] = "join" => TookEffect(c))
               \/ OutOfIds(c)

-----------------------------------------------------------------------------
(* What the endpoints promise, and how these handlers keep it. *)

Status(c) == IF pc[c] = "idle" THEN answer[c] ELSE "open"

\* A channel is the request's once its entity is stored, and the client's once
\* the client is told of it.
HasChannel(c) ==
    op[c] \notin {"create", "dm"} \/ pc[c] \in {"first", "second"} \/ Status(c) = "ok"

Asked(c) ==
    [op |-> op[c], channel |-> IF HasChannel(c) THEN channel[c] ELSE NoChannel,
     message |-> message[c], emoji |-> emoji[c], user |-> user[c],
     first |-> first[c], second |-> second[c]]

Promise == INSTANCE MembershipPromise WITH
    related <- {k \in EdgeKeys : edges[k] > 0},
    announced <- joined,
    asked <- [c \in Clients |-> Asked(c)],
    status <- [c \in Clients |-> Status(c)]

\* Whatever calls fail, whatever answers are lost and however often a request
\* is repeated: an answer of 200 or 201, of any of the seven handlers, and a
\* comm.member.joined come only once all that was asked for is stored, nothing
\* is stored but what a request under way asks for, and a try makes at most one
\* channel.  That edges lead to what is there is promised only where the store
\* checks it: the handlers pass on any id.
ImplementsPromise == Promise!Spec

\* A client that was told of success, by any of the seven handlers, finds the
\* entity or the edges it asked for, then and later, whatever other requests
\* did in between.
SuccessIsTrue == \A c \in Clients : Status(c) = "ok" => Promise!Holds(c)
=============================================================================
