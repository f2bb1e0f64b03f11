----------------------------- MODULE MCMembership -----------------------------
(* Small instances of Membership: two participants, two clients.  Clients,    *)
(* participant ids, channel ids and emojis are numbers.                       *)
EXTENDS Membership, Functions

\* Nothing tells one client, participant, channel id or emoji from another: the
\* first client asks first, ids are handed out in order and the first emoji is
\* used first.  One representative of every behaviour up to renaming.
Asks(c) == pc[c] # "idle" \/ answer[c] # "none"

Given(e) ==
    \/ \E c \in Clients : emoji[c] = e
    \/ \E k \in EdgeKeys : k[4] = e /\ edges[k] > 0

HandedOutInOrder ==
    /\ \A x, y \in Channels : x < y /\ channelType[x] = "absent" => channelType[y] = "absent"
    /\ \A p, q \in Participants : p < q /\ userOf[p] = NoUser => userOf[q] = NoUser
    /\ \A c, d \in Clients : c < d /\ Asks(d) => Asks(c)
    /\ \A d, e \in Emojis : d < e /\ Given(e) => Given(d)

\* Bound: one thing at a time goes wrong, a fault or an id named that nothing has.
Strays(c) ==
    (IF op[c] = "join" /\ channel[c] = Unknown THEN 1 ELSE 0)
    + (IF op[c] \in {"react", "read"} /\ message[c] = Unknown THEN 1 ELSE 0)
    + (IF op[c] \in {"dm", "join", "react", "read", "presence"} /\ first[c] = Unknown THEN 1 ELSE 0)
    + (IF op[c] = "dm" /\ second[c] = Unknown THEN 1 ELSE 0)

OneTrouble == FoldFunction(+, faults, [c \in Clients |-> Strays(c)]) <= 1

\* Bound: what there is before the first request.
SmallStart ==
    requests = 0 => /\ Cardinality({ch \in Channels : ChannelThere(ch)}) <= 1
                    /\ \E p \in Participants : ParticipantThere(p)
=============================================================================
