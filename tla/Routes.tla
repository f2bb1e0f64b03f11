-------------------------------- MODULE Routes --------------------------------
(***************************************************************************)
(* Which handler answers a URL.                                            *)
(*                                                                         *)
(* Two tables have to agree: the routes the service registers with Cross   *)
(* (src/internal/registrar/registrar.go, convenienceRoutes), which Cross   *)
(* forwards with their whole path, and the cases of ServeHTTP              *)
(* (src/internal/httphandler/handler.go), which sees that path or, called  *)
(* directly, only what follows {agencyId}/comm.  A row is a method, the    *)
(* segments of a path and the operation it stands for; a path is a         *)
(* sequence of segments.                                                   *)
(***************************************************************************)
EXTENDS Naturals, Sequences

Id == "Id"   \* the segment of a pattern that takes any entity id

Row(method, shape, op) == [method |-> method, shape |-> shape, op |-> op]

\* The cases of the switch in ServeHTTP.
Flows ==
    { Row("POST", <<"channels">>, "create_channel"),
      Row("POST", <<"channels", Id, "messages">>, "send_message"),
      Row("GET",  <<"channels", Id, "messages">>, "list_messages"),
      Row("GET",  <<"messages">>, "list_messages_by_workflow_run"),
      Row("POST", <<"channels", Id, "members">>, "join_channel"),
      Row("PUT",  <<"messages", Id, "promote">>, "promote_to_thread"),
      Row("PUT",  <<"messages", Id>>, "edit_message"),
      Row("POST", <<"messages", Id, "reactions">>, "add_reaction"),
      Row("POST", <<"messages", Id, "read">>, "mark_read"),
      Row("PUT",  <<"participants", Id>>, "update_presence"),
      Row("POST", <<"participants">>, "create_participant"),
      Row("POST", <<"direct">>, "create_dm") }

\* The patterns registered with Cross, each below /{agencyId}/comm.
ConvenienceRoutes ==
    { Row("POST", <<"participants">>, "create_participant"),
      Row("PUT",  <<"participants", Id>>, "update_presence"),
      Row("POST", <<"channels">>, "create_channel"),
      Row("POST", <<"channels", Id, "members">>, "join_channel"),
      Row("POST", <<"channels", Id, "messages">>, "send_message"),
      Row("GET",  <<"channels", Id, "messages">>, "list_messages"),
      Row("PUT",  <<"messages", Id>>, "edit_message"),
      Row("PUT",  <<"messages", Id, "promote">>, "promote_to_thread"),
      Row("POST", <<"messages", Id, "reactions">>, "add_reaction"),
      Row("POST", <<"messages", Id, "read">>, "mark_read"),
      Row("POST", <<"direct">>, "create_dm") }

\* The path of a row for one entity id, and as Cross forwards it.
Path(row, id) ==
    [i \in 1..Len(row.shape) |-> IF row.shape[i] = Id THEN id ELSE row.shape[i]]

Forwarded(row, agency, id) == <<agency, "comm">> \o Path(row, id)

-----------------------------------------------------------------------------
(* ServeHTTP *)

\* Faulty: only a short path is taken for one that Cross forwarded.
FromCrossIfShort(url) == Len(url) \in 2..4 /\ url[2] = "comm"

FromCross(url) == Len(url) >= 2 /\ url[2] = "comm"

\* What is left of the path once {agencyId}/comm is gone.
Resource(url) == IF FromCross(url) THEN SubSeq(url, 3, Len(url)) ELSE url

\* X-Agency-Id as the handler reads it: from the path, or as the client set it.
AgencyOf(url, header) == IF FromCross(url) THEN url[1] ELSE header

Fits(parts, shape) ==
    /\ Len(parts) = Len(shape)
    /\ \A i \in 1..Len(shape) : shape[i] \in {Id, parts[i]}

\* The cases a request satisfies.
Handlers(method, url) ==
    {flow.op : flow \in {f \in Flows : f.method = method /\ Fits(Resource(url), f.shape)}}
=============================================================================
