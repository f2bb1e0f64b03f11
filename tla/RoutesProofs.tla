----------------------------- MODULE RoutesProofs -----------------------------
(* Whatever the agency is called and whatever ids the store hands out, a path *)
(* is taken for the operation it stands for, and for no other.                *)
EXTENDS Routes, SequenceTheorems, TLAPS

\* Method, length, first and third segment tell the operations apart.
OpOf(method, len, first, third) ==
    IF len = 1 THEN
        IF first = "channels" THEN "create_channel"
        ELSE IF first = "messages" THEN "list_messages_by_workflow_run"
        ELSE IF first = "participants" THEN "create_participant"
        ELSE "create_dm"
    ELSE IF len = 2 THEN
        IF first = "messages" THEN "edit_message" ELSE "update_presence"
    ELSE IF first = "channels" THEN
        IF third = "members" THEN "join_channel"
        ELSE IF method = "GET" THEN "list_messages"
        ELSE "send_message"
    ELSE IF third = "promote" THEN "promote_to_thread"
    ELSE IF third = "reactions" THEN "add_reaction"
    ELSE "mark_read"

Third(shape) == IF Len(shape) = 3 THEN shape[3] ELSE ""

\* What the cases of the switch have in common, and what keeps them apart.
LEMMA FlowShapes ==
    ASSUME NEW f \in Flows
    PROVE  /\ Len(f.shape) \in 1..3
           /\ f.shape[1] # Id
           /\ Len(f.shape) >= 2 => f.shape[2] = Id
           /\ Len(f.shape) = 3 => f.shape[3] # Id
           /\ f.op = OpOf(f.method, Len(f.shape), f.shape[1], Third(f.shape))
  <1>a. CASE f = Row("POST", <<"channels">>, "create_channel")
    <2>1. f.method = "POST" /\ f.shape = <<"channels">> /\ f.op = "create_channel"
      BY <1>a DEF Row
    <2>2. Len(f.shape) = 1 /\ f.shape[1] = "channels"
      BY <2>1
    <2>3. f.op = OpOf(f.method, Len(f.shape), f.shape[1], Third(f.shape))
      BY <2>1, <2>2 DEF OpOf, Third
    <2> QED
      BY <2>2, <2>3 DEF Id
  <1>b. CASE f = Row("POST", <<"channels", Id, "messages">>, "send_message")
    <2>1. f.method = "POST" /\ f.shape = <<"channels", Id, "messages">> /\ f.op = "send_message"
      BY <1>b DEF Row
    <2>2. Len(f.shape) = 3 /\ f.shape[1] = "channels" /\ f.shape[2] = Id /\ f.shape[3] = "messages"
      BY <2>1
    <2>3. f.op = OpOf(f.method, Len(f.shape), f.shape[1], Third(f.shape))
      BY <2>1, <2>2 DEF OpOf, Third
    <2> QED
      BY <2>2, <2>3 DEF Id
  <1>c. CASE f = Row("GET",  <<"channels", Id, "messages">>, "list_messages")
    <2>1. f.method = "GET" /\ f.shape = <<"channels", Id, "messages">> /\ f.op = "list_messages"
      BY <1>c DEF Row
    <2>2. Len(f.shape) = 3 /\ f.shape[1] = "channels" /\ f.shape[2] = Id /\ f.shape[3] = "messages"
      BY <2>1
    <2>3. f.op = OpOf(f.method, Len(f.shape), f.shape[1], Third(f.shape))
      BY <2>1, <2>2 DEF OpOf, Third
    <2> QED
      BY <2>2, <2>3 DEF Id
  <1>d. CASE f = Row("GET",  <<"messages">>, "list_messages_by_workflow_run")
    <2>1. f.method = "GET" /\ f.shape = <<"messages">> /\ f.op = "list_messages_by_workflow_run"
      BY <1>d DEF Row
    <2>2. Len(f.shape) = 1 /\ f.shape[1] = "messages"
      BY <2>1
    <2>3. f.op = OpOf(f.method, Len(f.shape), f.shape[1], Third(f.shape))
      BY <2>1, <2>2 DEF OpOf, Third
    <2> QED
      BY <2>2, <2>3 DEF Id
  <1>e. CASE f = Row("POST", <<"channels", Id, "members">>, "join_channel")
    <2>1. f.method = "POST" /\ f.shape = <<"channels", Id, "members">> /\ f.op = "join_channel"
      BY <1>e DEF Row
    <2>2. Len(f.shape) = 3 /\ f.shape[1] = "channels" /\ f.shape[2] = Id /\ f.shape[3] = "members"
      BY <2>1
    <2>3. f.op = OpOf(f.method, Len(f.shape), f.shape[1], Third(f.shape))
      BY <2>1, <2>2 DEF OpOf, Third
    <2> QED
      BY <2>2, <2>3 DEF Id
  <1>f. CASE f = Row("PUT",  <<"messages", Id, "promote">>, "promote_to_thread")
    <2>1. f.method = "PUT" /\ f.shape = <<"messages", Id, "promote">> /\ f.op = "promote_to_thread"
      BY <1>f DEF Row
    <2>2. Len(f.shape) = 3 /\ f.shape[1] = "messages" /\ f.shape[2] = Id /\ f.shape[3] = "promote"
      BY <2>1
    <2>3. f.op = OpOf(f.method, Len(f.shape), f.shape[1], Third(f.shape))
      BY <2>1, <2>2 DEF OpOf, Third
    <2> QED
      BY <2>2, <2>3 DEF Id
  <1>g. CASE f = Row("PUT",  <<"messages", Id>>, "edit_message")
    <2>1. f.method = "PUT" /\ f.shape = <<"messages", Id>> /\ f.op = "edit_message"
      BY <1>g DEF Row
    <2>2. Len(f.shape) = 2 /\ f.shape[1] = "messages" /\ f.shape[2] = Id
      BY <2>1
    <2>3. f.op = OpOf(f.method, Len(f.shape), f.shape[1], Third(f.shape))
      BY <2>1, <2>2 DEF OpOf, Third
    <2> QED
      BY <2>2, <2>3 DEF Id
  <1>h. CASE f = Row("POST", <<"messages", Id, "reactions">>, "add_reaction")
    <2>1. f.method = "POST" /\ f.shape = <<"messages", Id, "reactions">> /\ f.op = "add_reaction"
      BY <1>h DEF Row
    <2>2. Len(f.shape) = 3 /\ f.shape[1] = "messages" /\ f.shape[2] = Id /\ f.shape[3] = "reactions"
      BY <2>1
    <2>3. f.op = OpOf(f.method, Len(f.shape), f.shape[1], Third(f.shape))
      BY <2>1, <2>2 DEF OpOf, Third
    <2> QED
      BY <2>2, <2>3 DEF Id
  <1>i. CASE f = Row("POST", <<"messages", Id, "read">>, "mark_read")
    <2>1. f.method = "POST" /\ f.shape = <<"messages", Id, "read">> /\ f.op = "mark_read"
      BY <1>i DEF Row
    <2>2. Len(f.shape) = 3 /\ f.shape[1] = "messages" /\ f.shape[2] = Id /\ f.shape[3] = "read"
      BY <2>1
    <2>3. f.op = OpOf(f.method, Len(f.shape), f.shape[1], Third(f.shape))
      BY <2>1, <2>2 DEF OpOf, Third
    <2> QED
      BY <2>2, <2>3 DEF Id
  <1>j. CASE f = Row("PUT",  <<"participants", Id>>, "update_presence")
    <2>1. f.method = "PUT" /\ f.shape = <<"participants", Id>> /\ f.op = "update_presence"
      BY <1>j DEF Row
    <2>2. Len(f.shape) = 2 /\ f.shape[1] = "participants" /\ f.shape[2] = Id
      BY <2>1
    <2>3. f.op = OpOf(f.method, Len(f.shape), f.shape[1], Third(f.shape))
      BY <2>1, <2>2 DEF OpOf, Third
    <2> QED
      BY <2>2, <2>3 DEF Id
  <1>k. CASE f = Row("POST", <<"participants">>, "create_participant")
    <2>1. f.method = "POST" /\ f.shape = <<"participants">> /\ f.op = "create_participant"
      BY <1>k DEF Row
    <2>2. Len(f.shape) = 1 /\ f.shape[1] = "participants"
      BY <2>1
    <2>3. f.op = OpOf(f.method, Len(f.shape), f.shape[1], Third(f.shape))
      BY <2>1, <2>2 DEF OpOf, Third
    <2> QED
      BY <2>2, <2>3 DEF Id
  <1>l. CASE f = Row("POST", <<"direct">>, "create_dm")
    <2>1. f.method = "POST" /\ f.shape = <<"direct">> /\ f.op = "create_dm"
      BY <1>l DEF Row
    <2>2. Len(f.shape) = 1 /\ f.shape[1] = "direct"
      BY <2>1
    <2>3. f.op = OpOf(f.method, Len(f.shape), f.shape[1], Third(f.shape))
      BY <2>1, <2>2 DEF OpOf, Third
    <2> QED
      BY <2>2, <2>3 DEF Id
  <1> QED
    BY <1>a, <1>b, <1>c, <1>d, <1>e, <1>f, <1>g, <1>h, <1>i, <1>j, <1>k, <1>l DEF Flows

Segments(row, id) == {Path(row, id)[i] : i \in 1..Len(row.shape)}

\* The path made from a row has its length and its literal segments.
LEMMA PathShape ==
    ASSUME NEW row \in Flows, NEW id
    PROVE  /\ Path(row, id) \in Seq(Segments(row, id))
           /\ Len(Path(row, id)) = Len(row.shape)
           /\ \A i \in 1..Len(row.shape) :
                 Path(row, id)[i] = IF row.shape[i] = Id THEN id ELSE row.shape[i]
  <1> DEFINE n == Len(row.shape)
             path == Path(row, id)
             S == Segments(row, id)
  <1>1. n \in 1..3
    BY FlowShapes
  <1>2. path = [i \in 1..n |-> IF row.shape[i] = Id THEN id ELSE row.shape[i]]
    BY DEF Path
  <1>3. S = {path[i] : i \in 1..n}
    BY DEF Segments
  <1> HIDE DEF path, n, S
  <1>4. path \in [1..n -> S]
    BY <1>2, <1>3
  <1>5. path \in Seq(S)
    BY <1>1, <1>4
  <1>6. Len(path) = n
    BY <1>1, <1>4, <1>5, LenProperties
  <1> QED
    BY <1>2, <1>5, <1>6 DEF path, n, S

\* A row fits the paths made from it, and no row of another operation does.
LEMMA OwnPathOnly ==
    ASSUME NEW row \in Flows, NEW id, NEW url, Resource(url) = Path(row, id)
    PROVE  Handlers(row.method, url) = {row.op}
  <1> DEFINE path == Path(row, id)
  <1>1. /\ Len(path) = Len(row.shape)
        /\ \A i \in 1..Len(row.shape) :
              path[i] = IF row.shape[i] = Id THEN id ELSE row.shape[i]
    BY PathShape
  <1> HIDE DEF path
  <1>2. Fits(path, row.shape)
    BY <1>1 DEF Fits
  <1>3. ASSUME NEW g \in Flows, g.method = row.method, Fits(path, g.shape)
        PROVE  g.op = row.op
    <2>1. /\ Len(g.shape) = Len(row.shape)
          /\ \A i \in 1..Len(g.shape) : g.shape[i] \in {Id, path[i]}
      BY <1>3, <1>1 DEF Fits
    <2>2. g.shape[1] = row.shape[1]
      BY <2>1, <1>1, FlowShapes
    <2>3. Third(g.shape) = Third(row.shape)
      BY <2>1, <1>1, FlowShapes DEF Third
    <2> QED
      BY <2>1, <2>2, <2>3, <1>3, FlowShapes
  <1> DEFINE fitting == {f \in Flows : f.method = row.method /\ Fits(Resource(url), f.shape)}
  <1>0. Resource(url) = path
    BY DEF path
  <1>4. row \in fitting
    BY <1>0, <1>2
  <1>5. \A g \in fitting : g.op = row.op
    BY <1>0, <1>3
  <1> HIDE DEF fitting
  <1>6. {flow.op : flow \in fitting} = {row.op}
    BY <1>4, <1>5
  <1> QED
    BY <1>6 DEF Handlers, fitting

\* A path that Cross forwards loses its prefix and nothing else.
LEMMA PrefixStripped ==
    ASSUME NEW row \in Flows, NEW agency, NEW id
    PROVE  /\ FromCross(Forwarded(row, agency, id))
           /\ Forwarded(row, agency, id)[1] = agency
           /\ Resource(Forwarded(row, agency, id)) = Path(row, id)
  <1> DEFINE S == {agency, "comm"} \cup Segments(row, id)
             path == Path(row, id)
             url == <<agency, "comm">> \o path
             rest == SubSeq(url, 3, Len(url))
  <1>1. path \in Seq(S) /\ Len(path) \in 1..3
    <2>1. path \in Seq(Segments(row, id)) /\ Len(path) \in 1..3
      BY PathShape, FlowShapes
    <2> QED
      BY <2>1
  <1>2. <<agency, "comm">> \in Seq(S) /\ Len(<<agency, "comm">>) = 2
    OBVIOUS
  <1> HIDE DEF path, S
  <1>3. /\ url \in Seq(S) /\ Len(url) = 2 + Len(path)
        /\ url[1] = agency /\ url[2] = "comm"
        /\ \A i \in 1..Len(path) : url[i + 2] = path[i]
    BY <1>1, <1>2, ConcatProperties, Z3
  <1> HIDE DEF url
  <1>4. Len(rest) = Len(path) /\ rest \in Seq(S)
    BY <1>1, <1>3, SubSeqProperties
  <1>5. \A i \in 1..Len(path) : rest[i] = path[i]
    BY <1>1, <1>3, SubSeqProperties
  <1>6. rest = path
    BY <1>1, <1>4, <1>5, SeqEqual
  <1>7. FromCross(url) /\ Resource(url) = rest
    BY <1>1, <1>3 DEF FromCross, Resource
  <1>8. Forwarded(row, agency, id) = url
    BY DEF Forwarded, url, path
  <1> QED
    BY <1>3, <1>6, <1>7, <1>8 DEF path

\* Called directly, a path is taken as it is: no id is called "comm".
LEMMA DirectUntouched ==
    ASSUME NEW row \in Flows, NEW id, id # "comm"
    PROVE  ~FromCross(Path(row, id)) /\ Resource(Path(row, id)) = Path(row, id)
  <1>1. Len(Path(row, id)) = Len(row.shape) /\ Len(row.shape) \in 1..3
    BY PathShape, FlowShapes
  <1>2. ASSUME Len(row.shape) >= 2 PROVE Path(row, id)[2] = id
    <2>1. 2 \in 1..Len(row.shape) /\ row.shape[2] = Id
      BY <1>1, <1>2, FlowShapes
    <2> QED
      BY <2>1, PathShape
  <1>3. ~FromCross(Path(row, id))
    BY <1>1, <1>2 DEF FromCross
  <1> QED
    BY <1>3 DEF Resource

\* Every URL of a route or a flow reaches the handler it is meant for, with the
\* agency and the entity it names (ServeHTTP and convenienceRoutes agree).
THEOREM PathsServed ==
    ASSUME NEW row \in Flows, NEW agency, NEW id
    PROVE  /\ LET url == Forwarded(row, agency, id) IN
              /\ Handlers(row.method, url) = {row.op}
              /\ Resource(url) = Path(row, id)
              /\ \A header : AgencyOf(url, header) = agency
           /\ id # "comm" =>
              LET url == Path(row, id) IN
              /\ Handlers(row.method, url) = {row.op}
              /\ Resource(url) = Path(row, id)
              /\ \A header : AgencyOf(url, header) = header
  <1>1. LET url == Forwarded(row, agency, id) IN
        /\ Handlers(row.method, url) = {row.op}
        /\ Resource(url) = Path(row, id)
        /\ \A header : AgencyOf(url, header) = agency
    <2> DEFINE url == Forwarded(row, agency, id)
    <2>1. FromCross(url) /\ url[1] = agency /\ Resource(url) = Path(row, id)
      BY PrefixStripped
    <2> HIDE DEF url
    <2>2. Handlers(row.method, url) = {row.op}
      BY <2>1, OwnPathOnly
    <2>3. \A header : AgencyOf(url, header) = agency
      BY <2>1 DEF AgencyOf
    <2> QED
      BY <2>1, <2>2, <2>3 DEF url
  <1>2. ASSUME id # "comm"
        PROVE  LET url == Path(row, id) IN
               /\ Handlers(row.method, url) = {row.op}
               /\ Resource(url) = Path(row, id)
               /\ \A header : AgencyOf(url, header) = header
    <2> DEFINE url == Path(row, id)
    <2>1. ~FromCross(url) /\ Resource(url) = url
      BY <1>2, DirectUntouched
    <2>2. Handlers(row.method, url) = {row.op}
      BY <2>1, OwnPathOnly
    <2> QED
      BY <2>1, <2>2 DEF AgencyOf
  <1> QED
    BY <1>1, <1>2

\* No route is registered with Cross that the process would not serve, and the
\* only thing it serves that Cross does not forward to it changes nothing.
THEOREM RoutesAreFlows ==
    /\ ConvenienceRoutes \subseteq Flows
    /\ \A row \in Flows \ ConvenienceRoutes : row.method = "GET"
  <1> DEFINE query == Row("GET", <<"messages">>, "list_messages_by_workflow_run")
  <1>1. ConvenienceRoutes \subseteq Flows
    BY Zenon DEF ConvenienceRoutes, Flows
  <1>2. Flows \subseteq ConvenienceRoutes \cup {query}
    BY Zenon DEF ConvenienceRoutes, Flows
  <1>3. query.method = "GET"
    BY DEF Row
  <1> QED
    BY <1>1, <1>2, <1>3
================================================================================
