# CodeValdComm: specifications, model checking and proofs

TLA+ specifications of CodeValdComm, the channel-and-message service of the
CodeVald platform, with the TLC configurations that check them on small
instances and the TLAPS proofs of what holds for every instance.
Paths are relative to the repository; "the store" is the entity graph behind
`entitygraph.DataManager`, "the bus" is CodeValdCross behind
`eventbus.Publisher`.

1. [The system](#1-the-system)
2. [The modules](#2-the-modules)
3. [The runs](#3-the-runs)
4. [Bounds, symmetry, deadlock](#4-bounds-symmetry-deadlock)
5. [Fairness](#5-fairness)
6. [What is proved](#6-what-is-proved)
7. [Where code and documents disagree](#7-where-code-and-documents-disagree)
8. [What is not modelled](#8-what-is-not-modelled)
9. [Plan](#9-plan)

## 1. The system

The service keeps no state of its own. Every handler is a goroutine that makes
a few calls to the store, answers, and may publish one event; nothing is locked
between two calls and no two calls form a transaction. All of the difficulty is
there: two requests interleave at every call, a call fails after the earlier
ones took effect, a failed write may have taken effect all the same, the process
dies between two calls, a client that got no answer asks again, and an event
is published at most once and only after the write it announces.

| Component | Source (`src/`) | State it uses | Operations | What makes it correct |
|---|---|---|---|---|
| Rollback leg | `workflow_run_rollback.go`; RPC in `internal/server/server.go:59-73` | Messages with `workflow_run_id` and `rollback_notification`, `has_message` edges; slices of the answer | `RollbackByWorkflowRun` | one notification per run and channel; every channel of the closure in one slice of the answer; an answer, also the partial one of a failed call, that agrees with the store; events that follow their edges |
| SendMessage | `internal/httphandler/handler_messages.go:20-72` | Message, then its `has_message` edge | `sendMessage` | the event follows the edge; an orphan (no edge) harms nobody |
| Editing and threads | `handler_messages.go:76-253` | `body`, `edited`, `edit_count`, `is_thread_root`; EditHistory and `has_edit`; `edit_window_seconds` of the owning Channel | `editMessage`, `checkEditWindow`, `promoteToThread` | no body lost, no edit uncounted, no edit after the window, no promotion undone |
| Channels, members, receipts | `handler_channels.go`, `handler_participants.go` | Channel, Participant; `has_member`, `has_reaction`, `read_by` | `createChannel`, `createDM`, `joinChannel`, `addReaction`, `markRead`, `createParticipant`, `updatePresence` | a direct channel answered with 201 has its two members; joins are announced only when real; receipts can be repeated; what is refused for ever is a duplicate |
| Message queries | `handler_messages.go:257-313` | reads only | `listMessages`, `listMessagesByWorkflowRun` | filters by edge, by run |
| HTTP dispatch, registration | `internal/httphandler/handler.go`, `internal/registrar/registrar.go` | route table | `ServeHTTP`, `convenienceRoutes`, `New`, `Run`, `Publish`, `Close` | a route Cross forwards is one the handler serves, for the agency and entity it names; publishing never fails a request |
| gRPC server | `internal/server/` | none | `RollbackByWorkflowRun`, `GetSchema`, the EntityService of the shared library | every domain error has its status code |
| Process lifecycle | `internal/app/app.go`, `cmd/` | phase of `Run`, context, registrar, one listener for HTTP and gRPC | start-up seed, registration, serve, signal, the two drains, exit | the schema is there before it is asked for; nobody is cut off but who outstays the time limit; a signal ends the process |
| Schema, configuration, storage adapter, generated code | `schema.go`, `internal/config`, `storage/arangodb`, `gen/` | none at run time | | |

How they interact: the HTTP handlers, the gRPC server and the rollback leg share
the store and nothing else. `sendMessage` and the rollback leg are the two
writers of `has_message` edges, and the rollback leg reads what `sendMessage`
writes while it is being written; that is why they are one module.
`editMessage` and `promoteToThread` write the same Message and are one module.
The handlers of channels and receipts create edges with other names and read
none of the above; they are a third. Events leave through one `Publisher`
(`nil` when Cross is not configured), whose errors are swallowed.
The process around them all is a fourth module: it decides which requests reach a handler,
by which path, and what becomes of those under way when it stops; it sees a handler
work, publish and answer, and not its store calls.
Editing and the rollback leg both touch Messages, but different properties of
them (`UpdateEntity` merges; the leg reads `workflow_run_id` and
`rollback_notification`, which no edit writes), so they need no common module.

## 2. The modules

| Module | Models |
|---|---|
| `WorkflowRunRollback` | the rollback leg beside `sendMessage` |
| `RollbackPromise` | what the rollback leg promises, without loops and store calls |
| `WorkflowRunRollbackProofs` | the theorems on the rollback leg |
| `RollbackPromiseProofs` | that the rollback leg implements its promise |
| `MessageEditing` | `editMessage` with `checkEditWindow`, and `promoteToThread` |
| `EditPromise` | what editing and promoting promise, without reads, clock and failed calls |
| `MessageEditingProofs` | the theorems on editing |
| `EditPromiseProofs` | that editing implements its promise |
| `Membership` | channels, direct channels, participants and their presence, members, reactions, read receipts, and clients that ask again |
| `MembershipPromise` | what those endpoints promise, without an order of store calls |
| `MembershipProofs` | the theorems on members and receipts |
| `MembershipPromiseProofs` | that the handlers implement their promise, and that a success stays true |
| `Routes` | the two route tables and what `ServeHTTP` makes of a path |
| `RoutesProofs` | its theorems |
| `Service` | the process from start to exit and restart, with the requests under way; extends `Routes` |
| `ServicePromise` | what the process promises, without paths, drains and events |
| `ServiceProofs` | the theorems on the process, and that it implements its promise |
| `MC*` | for each specification, the definitions its configurations use |

In the first three specifications **every store call is a step of its own**, with
the code's early returns as guards; computations between two calls belong to the
step of the call before or after them. `pc` of a request is the call that comes
next, the other per-request variables are the handler's local variables, and
`Fault` steps spend a bounded number of store errors and crashes. A failing write
either left the store alone or took effect and lost its answer. `Crash` forgets
every request under way and keeps the store. A definition whose comment begins
with "Faulty" is used by no step: it is a plausible bug in place of the definition
that follows it, and makes a property of a run fail when it is put there.

### WorkflowRunRollback

| TLA+ | Code |
|---|---|
| `kind`, `workflowRunID`, `owner` | the Message entities: user's or `rollback_notification`, their run, the source of their `has_message` edge |
| `events`, `sent` | `comm.pipeline.rolled_back` and `comm.message.sent` delivered |
| `unresolved` | the listed messages the first loop has not reached |
| `order`, `alreadyNotified` | the variables of that name; `order` is a set, since the store promises no listing order and the order is used for nothing else, and the set is drained as the second loop goes |
| `target`, `posting` | the channel being notified and the id `postRollbackNotification` got from the store |
| `notifiedChannelIDs`, `notificationMessageIDs`, `skippedChannelIDs` | the slices of `RollbackResult`, returned with an error too |
| `due` | history variable: the closure at the moment it was listed |
| `Begin`, `RejectEmptyRun` | entry, with its `ErrWorkflowRunIDRequired` |
| `ListMessages`, `ResolveOwningChannel`, `StartNotifying` | lines 62-104: list, then one `resolveOwningChannel` per message |
| `SkipChannel`, `CreateNotification`, `LinkNotification`, `PublishRolledBack`, `Return` | lines 106-129: the second loop, with `postRollbackNotification` as its two calls |
| `Fail*`, `Crash` | the error returns; the process dies |

`Serial` says whether a caller waits for its answer before anybody asks for the
same run again. The code does not enforce it; it is the reading under which the
doc comment's "safe to call repeatedly" is true. `ReliableBus` says whether
`SafePublish` ever loses an event.

`RollbackPromise` has four variables: the closure of every run, the notices of every
run and channel, the announcements, and what each caller asked and was answered. The
closure and the notices only grow; a call under way tells a channel of the closure, and
the first one to tell it is the only one if `OneAtATime`; an announcement names a
notice that is there; an answer claims only channels that have theirs, and all of the
closure its call listed. A call may be lost at any moment, also with the notice it
posts. The mapping is `Closure` and `Posted` (what `Holds` and `Notice` find in the
store), `events`, and `Asked`: the two loops and the three calls per channel are one
phase, `due` is what was listed, `Accounted` what is claimed, and `OneAtATime` is `Serial`.

### MessageEditing

| TLA+ | Code |
|---|---|
| `editWindow` | for each message, `edit_window_seconds` of the channel its `has_message` edge comes from (`handler_messages.go:55-60`); `Unset` if no edge or property is there. It never changes in the model: no handler of the service writes it |
| `InverseEdges` | constant: whether the store makes a `belongs_to_channel` edge for every `has_message` edge. The check (lines 143-147) follows the former, `sendMessage` makes the latter only, and `schema.go:76` and `:138` declare them inverses |
| `JsonNumbers` | constant: whether the store reads a number back as a float64, the only type line 198 takes for `edit_count` |
| `body`, `edited`, `editCount`, `isThreadRoot` | the Message properties |
| `previousBody`, `messageID`, `hasEdit` | the EditHistory entities and the `has_edit` edges to them |
| `readBody`, `readCount` | the message as `GetEntity` returned it at line 133, from which `previous_body` and `edit_count` are computed three calls later |
| `startedAt`, `now` | history variable: when the request read the message; seconds since `created_at` |
| `GetMessage`, `CheckEditWindow`, `CreateEditHistory`, `LinkEditHistory`, `UpdateMessage`, `PublishEdited` | the handler in order |
| `SkipWindowCheck` | lines 153-165: an error reading the channel skips the check. (An error reading the edge is answered with 500, lines 148-151, which is in `FailEdit`) |
| `GetToPromote`, `SetThreadRoot`, `PublishPromoted` | `promoteToThread` |

`UpdateEntity` merges the keys of the request into the entity, so `Overwrite`
leaves `isThreadRoot` alone. The two calls that read the owning channel change
nothing, and are one step. `serial` and `readable` are chosen in `Init` and never
change: whether clients see to it that no two edits of one message overlap, and
whether reading the owning channel can fail. A property that needs one of them
says so; the documents' claims (`FullEditTrail`, `NoEditOutOfWindow`) need neither
and fail. `InverseEdges` and `JsonNumbers` are assumptions on the store, which is not in
the repository. The configurations take both for true; the theorems are for both
values, and the properties name the one they need. If `InverseEdges` is false no edit
is ever refused, whatever the window (section 7), and if `JsonNumbers` is false every
edit writes the count 1.

In `EditPromise` a request takes effect once and in one step (`Land`), after it has put
one body on record (`Record`); it never counts more edits than are on record, records
stay, promotions stay, events tell of what is so. For requests that do not overlap
(`serial`) the body on record is the body overwritten and the count is one more. The
mapping: `Requested` is the message and body a handler works for and whether its
EditHistory is linked, and no request once it has written or failed; `Recorded` is the
bodies of the linked EditHistories of each message.

### Membership

`pc`, `op`, `channel`, `message`, `emoji`, `user`, `first`, `second` and `answer` are one
request and its answer; `edges` counts the edges of each name, pair of ends and emoji
(of `has_reaction` only, `schema.go:154-163`).
What the store makes of an edge is not in the repository, so `Init` chooses, once for
all: `unique`, whether it answers `ErrEntityAlreadyExists` to a second edge of one name
between two ends, as `markRead` expects (an edge is told by its name and ends, so another
emoji is no other edge); `checked`, whether it refuses an edge from or to what is not there.
`createDM` is the step `CreateChannel` and one step per turn of its loop. The two
members may be the same participant, as nothing in the handler forbids it.
`userOf` and `seen` are the Participants (`CreateParticipant`, `UpdatePresence`
with its 404); `confirmed` is a history variable. `Request` and `Retry` are the
clients. A request names any channel, message and participant there is, or `Unknown`, an
id of nothing: no handler looks (`handler_channels.go:79-84`, `:130-135`,
`handler_participants.go:32`, `:75`). A client that was answered with an error, or lost
its connection, sends the same request again. `RefusedAnswer` is the one place where the
handlers differ: only `markRead` takes "there already" for success.

`MembershipPromise` knows no order of store calls and no numbers of edges: one write at
a time, and only what a request under way asks for; a try makes at most one channel; "ok"
is answered when all that was asked for `Holds`, and a
join is announced when it is stored. That an edge leads to what is there is
promised only if the store is `checked`: it is the store's merit, not the handlers'.
`Status` maps a request under way to "open";
`Asked` gives a request of `createChannel` or `createDM` its channel once that is stored, and takes it
back when the try fails, for then its client never learns of it.

### Routes

A row is a method, the segments of a pattern and an operation; a path is a sequence
of segments. `Flows` are the cases of the switch in `ServeHTTP`, `ConvenienceRoutes`
the table registered with Cross. `FromCross`, `Resource` and `AgencyOf` are the
rewriting of a forwarded path (its second segment is `comm`), `Handlers` the
cases a request satisfies: never two, which is why their order is left out.
The limit of four segments in `SplitN` changes nothing, as no case asks for more
than three.

### Service

| TLA+ | Code |
|---|---|
| `phase` | where `Run` is (`app.go:50-150`); `StopListening`, `GracefulStop`, `Shutdown` / `ShutdownTimeout` are lines 139-148 in their order |
| `cancelled` | the context of line 38; `Signal` is the goroutine of lines 44-48, at any time, also while the schema is being seeded |
| `publisher` | `pub`: nil, the registrar, or the registrar after `defer reg.Close()` |
| `served`, `crossSet` | the two settings that change what `Run` does |
| `seeded`, `registered` | what the store and Cross keep over restarts |
| `Heartbeat` | the goroutine of line 87, which may register the routes before line 109 listens |
| `Send`, `Reachable` | a request gets through while the process serves; over an open HTTP connection also while `GracefulStop` waits for the gRPC calls |
| `Operation`, `Url` | `ServeHTTP` of `Routes`, or the gRPC service |
| `Outcomes`, `toGRPCError`, `Work`, `Publish` | how an operation may end, the table of `errors.go`, the handler and its event |
| `Die` | the end of the process, by `Exit` or `Kill`: who waited has lost its answer |

In `ServicePromise` a process starts, serves, stops, is stopped and is down; a request is
a record of operation and agency, taken for what it is or refused; nobody is taken
before the schema of the configured agency is stored or has failed to be; `GetSchema` finds
exactly the schemas that are stored; a stop needs a signal, or a start that failed,
and leaves no gRPC call behind, and HTTP requests only as `overdue`. `Life` collapses the four
steps of the start and the two drains, `Taken` is operation and agency as the handler
gets them out of the path, `Answer` hides the event behind the answer.

## 3. The runs

| Run | Checks | Shows |
|---|---|---|
| `rollback_serial` | `TypeOK`, `AtMostOneNotification`, `AnswerMatchesStore`, `ClosureAccountedFor`, `OnlyClosureNotified`, `EventsFollowLinks`, `NamedNotificationsAnnounced`, `ImplementsPromise` | two callers, two runs that must be kept apart, retries after an error or a crash at any point, beside a sender; and that all of it implements `RollbackPromise` |
| `rollback_liveness` | `AtMostOneNotification`, `AnswerMatchesStore`, `ClosureAccountedFor`, `EventsFollowLinks`, `CallsEnd`, `ClosureEventuallyNotified` | two channels, two faults and a bus that loses events: the same safety across the channels of one call; no call stays in flight; a caller that retries what failed, and only that, reaches every channel that was in the closure when a call was asked for or failed |
| `rollback_retry_overlap` | `AtMostOneNotification` (violated) | two overlapping calls for one run |
| `rollback_lost_event` | `NotifiedChannelsAnnounced` (violated) | a call that ends between an edge and its event |
| `rollback_late_message` | `EveryHolderInASlice` (violated) | a message linked while a call is under way |
| `edits` | `TypeOK`, `EditCountRecorded`, `EventsFollowWrites`, `EditTrailComplete`, `EditCountIncremented`, `EditsRespectWindow`, `PromotionSticks`, `SpareSnapshotsExplained`, `ImplementsPromise` | two editors and a promoter of one message, an error or a crash, and the clock, with and without overlap, with and without an unreadable channel; and that all of it implements `EditPromise` |
| `edit_lost_body` | `FullEditTrail` (violated) | two overlapping edits |
| `edit_fail_open` | `NoEditOutOfWindow` (violated) | an unreadable channel |
| `members` | `TypeOK`, `AnsweredDMComplete`, `EventsFollowMembers`, `SuccessIsTrue`, `ImplementsPromise`, `ReadsSucceed`, `RetriesTakeEffect` | requests of all seven kinds, repeated after an error or a crash until they succeed, with ids of what is there and of nothing, on a store that refuses an edge it has, one that refuses an edge that leads nowhere, one that does both and one that does neither |
| `members_half_dm` | `DMHasTwoMembers` (violated) | a `createDM` that fails once its channel is stored |
| `members_two_dms` | `OneDMPerPair` (violated) | two requests for the direct channel of one pair |
| `service` | `TypeOK`, `ServedAsAsked`, `NothingCutOff`, `NotFoundMeansUnseeded`, `ImplementsPromise`, `SignalStops`, `RetriesAnswered` | a process that is started, signalled or killed at any point and started again, an HTTP client that comes through Cross or directly, and a gRPC client |

In `edits`, four properties say under which condition they hold:
`EditTrailComplete` if `serial`, `EditCountIncremented` and `SpareSnapshotsExplained` if
`serial` and `JsonNumbers`, `EditsRespectWindow` if `readable` and `InverseEdges`. Without it, `edit_lost_body` and `edit_fail_open` show what happens; the
counter goes wrong in the interleaving of `edit_lost_body` too (`edit_count` is
read at line 198 from the message fetched at line 133), and only the inequality
`EditCountRecorded` is left. `SpareSnapshotsExplained` is its counterpart: an EditHistory
without an edit is one of the edit about to be written, or is the trace of a store error
or a crash. `NamedNotificationsAnnounced` is what is true of the claim that
`rollback_lost_event` refutes: on a bus that loses nothing, the notifications an answer
names as its own have been announced; those it skipped need not be. `ClosureEventuallyNotified`
is about the channels of the closure when a call is asked for, and when it has failed, for a
failed call is retried. A channel that joins behind the listing of a call that succeeds
is told only if somebody happens to ask again (`rollback_late_message`).

`RetriesTakeEffect` says which requests are answered with success in the end, and what
becomes of the others: where the store refuses duplicates, a `joinChannel` whose member is
there and an `addReaction` beside any reaction of the same participant are answered with
500 for ever (`RefusedForEver`). The member is then the one asked for; the reaction may be
another one, and the one asked for is never stored. A `createDM` of a participant
with himself makes a channel at each try in such a store, until the ids of the instance
end (`OutOfIds`). Requests that name an id of nothing are left out where the store, or
`updatePresence`, refuses them for good.

## 4. Bounds, symmetry, deadlock

* Rollback. What can go wrong is between calls for one run, between runs, or
  between the channels of one call. `rollback_serial` has two callers, a sender who
  sends twice, two runs and one channel; five message ids leave room for two
  messages, a notification of each run and the orphan a fault can leave.
  `rollback_liveness` has one caller, one run and two channels (a message in each,
  or two in one and none in the other), two faults in a row before a call returns,
  and six ids. Ids never run out, so deadlock is checked. The violated runs have
  two callers or two channels as their question asks.
* Editing. Two editors, a promoter and one message: every clash is about one
  message. Windows -1, 0, 1 and `Unset` are the four cases of `checkEditWindow`;
  with time up to 2, a window of 1 can be open, at its last second, and closed.
  Two EditHistory ids allow two edits, overlapping, one after the other, or one of
  them cut short. One fault is enough to cut an edit short at any call; the theorems of
  section 6 are for any number.
* Membership. Two clients and two requests, each repeated as often as it fails,
  three channel ids, two participants, one user, one message, two emojis. At the start
  there is a group or none, and one participant or both (`SmallStart`). One thing goes
  wrong at a time (`OneTrouble`): a fault, or one id of nothing among those the requests
  name. One fault suffices to leave a request half done; two requests are enough for one to find
  what the other left; three channels are a group, or the wreck of a failed `createDM`,
  the channel of its next try and one of the other client. The theorems have none of
  these bounds.
* Service. One client of each kind, as requests meet in the process only: a drain
  waits for all of one kind, and the proofs are for any number. The
  agency of the instance is called `comm`, the one name that `ServeHTTP` could
  mistake. Two starts: anything may disturb the first one (an error, a signal, a
  kill), nothing the last, so that what must happen in the end has a
  process to happen in.
* `MaxFaults`, `MaxSends`, `MaxTime`, `MaxRequests`, `MaxStarts` are bounds in the guards
  of the actions they bound; `OneTrouble` and `SmallStart` are constraints of the members
  runs. There are no others.
* Entity ids the store hands out are numbers. The constraint `HandedOutInOrder`
  keeps one representative of the states that differ in the names of ids only;
  the actions and properties compare ids for equality only, so nothing is lost. In the
  members runs it does the same for clients and emojis.
  Callers, channels, editors and bodies are symmetric for the same reason;
  the liveness runs use no symmetry.
* `edits` and `members` do not check deadlock: the bounded ids
  and requests run out there, which says nothing about the service.

## 5. Fairness

`CallsEnd` and `ClosureEventuallyNotified` assume that a started call keeps running
(`WF` on `Rollback(c)`: its goroutine is scheduled and every store call
returns, if only with an error) and that a caller whose call failed, or died with the
process, asks again for the same run (`WF` on `Retry(c)`: the coordinator's
"retry-after-`rollback_failed`",
`documentation/3-SofwareDevelopment/mvp-details/FEAT-20260602-004_workflow_run_rollback_comm_leg.md:117`). Nobody is assumed to ask
again after a success. The number of faults is bounded, so a call that meets none comes
at last.
`ReadsSucceed` and `RetriesTakeEffect` assume that handlers run (`WF` on `Serve(c)`)
and that clients repeat a request that failed (`WF` on `Retry(c)`).
`SignalStops` and `RetriesAnswered` assume that `Run` goes on (`WF_vars(Run)`, which
includes that the 30 seconds of `Shutdown` pass), that whoever runs the service starts
it again (a container with a restart policy), that a gRPC call ends (the rollback
leg makes finitely many store calls, and each returns) and that its client
repeats it. The handlers of HTTP requests get no fairness at all: `SignalStops`
holds even if one of them hangs, thanks to the time limit. It does rest on the end
of gRPC calls, because `GracefulStop` (`app.go:142`) has no limit: without that
fairness the property fails.
Nothing assumes that a failing or crashing step is taken, that senders send or
that events arrive, except `ReliableBus` where a run says so.

## 6. What is proved

For every value of the constants, that is for any number of callers, channels, runs,
messages, editors, edits and faults:

| Theorem | Module | Statement |
|---|---|---|
| `TypeCorrect` | in the proof module of each of the four specifications | `Spec => []TypeOK` |
| `AnswerSound` | `WorkflowRunRollbackProofs` | `Spec => []AnswerMatchesStore` |
| `ClosureComplete` | | `Spec => []ClosureAccountedFor` |
| `NoStrayNotification` | | `Spec => []OnlyClosureNotified` |
| `EventsSound` | | `Spec => []EventsFollowLinks` |
| `SingleNotification` | | `Spec => []AtMostOneNotification`, if `Serial` |
| `AnnouncedBeforeAnswered` | | `Spec => []NamedNotificationsAnnounced` |
| `RollbackKeepsPromise` | `RollbackPromiseProofs` | `Spec => ImplementsPromise` |
| `EveryCountIsRecorded` | `MessageEditingProofs` | `Spec => []EditCountRecorded` |
| `EventsFollow` | | `Spec => []EventsFollowWrites` |
| `PromotionIsFinal` | | `Spec => PromotionSticks` |
| `TrailKept`, `EveryEditCounts` | | `Spec => EditTrailComplete`, `Spec => EditCountIncremented` |
| `WindowRespected` | | `Spec => EditsRespectWindow` |
| `SparesExplained` | | `Spec => []SpareSnapshotsExplained` |
| `EditingKeepsPromise` | `EditPromiseProofs` | `Spec => ImplementsPromise` |
| `ConfirmedDMIsComplete` | `MembershipProofs` | `Spec => []AnsweredDMComplete` |
| `JoinsAreReal` | | `Spec => []EventsFollowMembers` |
| `MembershipKeepsPromise` | `MembershipPromiseProofs` | `Spec => ImplementsPromise` |
| `SuccessLasts` | | `Spec => []SuccessIsTrue` |
| `PathsServed` | `RoutesProofs` | a flow, forwarded by Cross for any agency and entity id, or called directly for any entity id but `comm`, satisfies one case of the switch, its own, with its own path and agency |
| `RoutesAreFlows` | | every route registered with Cross is a case of `ServeHTTP`; the case Cross does not know only reads |
| `RequestsServedAsAsked` | `ServiceProofs` | `Spec => []ServedAsAsked` |
| `NobodyCutOff` | | `Spec => []NothingCutOff` |
| `SchemaBeforeService` | | `Spec => []NotFoundMeansUnseeded` |
| `ServiceKeepsPromise` | | `Spec => ImplementsPromise` |

The assumptions are those of the modules (`ConstantsAssumption`,
`EditingAssumption`, `MembershipAssumption`, `ServiceAssumption`): the null values
are not ids, the bounds are numbers, EditHistory ids are finitely many (a cardinality
is taken), there is a participant, a user, a message, an agency and an entity to name in a
request, HTTP and gRPC clients are different, and the store hands out no entity id that reads `comm`. `Serial`
is a hypothesis of `SingleNotification` only; `serial`, `readable`, `ReliableBus`,
`InverseEdges` and `JsonNumbers` are in the properties themselves. Violated runs show that the
first three are needed; without `InverseEdges` the window is not checked at all, without
`JsonNumbers` the count is not kept, as section 2 says. The four
refinements have no hypothesis: where a promise is stronger for requests that do
not overlap, it says so itself.

The argument, in each module:

* `Typed` adds to `TypeOK` that a request under way knows its arguments; without it
  the types of what a step writes do not follow.
* **Rollback.** `Unlinked`: a message somebody is about to link has no owner, and
  nobody else is about to link it. With it the store only grows (`StoreGrows`:
  a notice or a held message stays one), which is what makes an answer stay
  true and an event stay backed. `AnswerInv` is `AnswerMatchesStore` with the channel
  under way apart from those accounted for; `ClosureInv` follows the closure
  through the two loops (unresolved, then in `order`, then in a slice);
  `OnlyClosureInv` adds that each channel in `order` holds a user's message of the run.
  `SerialInv` is the reason for "at most one": one call per run in flight
  (`OneCallPerRun`), and no notification of the run that this call, once it has
  listed, does not know of (`NoticesKnown`): its message is still unresolved, its channel
  is in `alreadyNotified`, or its channel is done with. The channel about to
  be linked is neither (`TargetPending`), so it holds none.
  `AnnouncedInv` is `NamedNotificationsAnnounced` for calls under way: all notifications
  named so far have had their event but the last one, whose event comes next.
* **Rollback, refinement.** What a step does to the store the promise sees: creating a
  message, which has no owner yet, changes nothing (`CreateSame`), linking one lets a channel join the closure
  (`LinkJoins`) or posts a notice (`LinkPosts`; `m` is in no other channel, since it had
  no owner). What it does to the calls: `AskedMoves` for the call that steps,
  `AskedStutters` and `LoopStep` for the inner steps of the two loops. That a channel
  notified is of the closure is `OnlyClosureInv`; that it had no notice, if calls do
  not overlap, `SerialInv`; that the answer claims what has its notice, and all that
  was listed, `AnswerInv` and `ClosureInv`. An error that comes after a write is `Notify` or
  `Join` with the call lost, a crash is `GiveUp`.
* **Editing.** `SnapshotsOK`: the EditHistory of a request is its own, holds what the
  request read, and is linked once the request is about to update. Linked
  EditHistories never leave (`LinkedGrows`), so their number grows (`EditsGrow`) and the request
  that links one adds one (`LinkCounts`): `readCount + 1` is covered before
  `UpdateMessage` writes it (`CountOK`). This needs no assumption on overlap.
  `SerialOK` adds, if `serial`, that what a request read is still so.
  `WindowOK`: a request past the check was in time when it came in, as the clock
  only runs on. `SpareOK` is `SpareSnapshotsExplained`, and needs `SerialOK`: a link
  adds one EditHistory and moves its edit to the update (`LinkAdds`; no other edit
  of the message is there), the update raises the count that the link made room for, and
  whatever ends an edit in between spends a fault.
* **Editing, refinement.** Linking is `Record` (`RecordedGrows`; the id is in no other
  trail, as an EditHistory belongs to one message), `UpdateMessage` is `Land`
  (`LandStep`: the count written is between 1 and the number on record by `CountOK`; if
  `serial`, it is one more and the body overwritten is on record by `SerialOK`), every
  error before a write is `Drop`, and the rest stutters.
* **Membership.** No step removes an edge (`EdgesStay`), and a request at its second
  member, or at its event, has its first edge (`HasFirst`).
* **Membership, refinement.** `PairsOK`: the loop of `createDM` adds to a direct channel,
  and no other request names two participants. Nothing is assumed of the ids a request
  names; an edge is written if the store accepts it, which is what the promise asks. An answer of success is `Proceed` with `Holds`
  (`EdgeHolds` for one edge, `DirectHolds` for the two of a direct channel, and for
  `markRead` also when the edge is refused as a duplicate, for then it is there). `SuccessLasts` uses the
  refinement: only `Proceed` answers "ok" (`SuccessIsEarned`), and what holds goes on
  holding (`HoldsStays`).
* **Routes.** The patterns of the flows are taken one by one (`FlowShapes`, `PathShape`):
  no two of one method fit the same path (`OwnPathOnly`), prefixing a path with an
  agency and `comm` is undone by `Resource` (`PrefixStripped`), and a direct path
  is never mistaken for a forwarded one, as its second segment is an id
  (`DirectUntouched`).
* **Service.** `DrainInv` says who can still be under way in each phase: no gRPC call
  after `GracefulStop`, no HTTP request after `Shutdown` unless it timed out, since
  nobody gets in once `phase` has left what `Reachable` asks for. `SchemaInv`: past the
  seed, a configured agency has its schema or a seed has failed.
  `ConfigStep` and `RequestStep` carry the answers over restarts: `served` never changes,
  and that a seed failed is never forgotten. `ServedAsAsked` is `PathsServed` at the moment a request gets through.
* **Service, refinement.** Taking a request is `Ask` with the record its sender meant
  (`OperationAsked` and `PathAsked`, so all of the path rewriting is in this one step);
  the last step of a request is `Reply` (`AnswerIsPromised`); the end of the drains is `Stopped`
  by `DrainInv`, and `overdue` is true to who is left because of `LateInv`: nobody has timed out before
  `Shutdown` did, and only successes are announced.

Only model-checked: `CallsEnd`, `ClosureEventuallyNotified`, `ReadsSucceed`,
`RetriesTakeEffect`, `SignalStops` and `RetriesAnswered`, because liveness under
fairness is beyond the proof system; and all violations, which are
counterexamples and need no proof. There is no recursive operator in the modules.

## 7. Where code and documents disagree

Seven runs find behaviours that a comment or document of the repository rules out.
Each is an interleaving or a partial failure of ordinary calls.

1. `rollback_retry_overlap`: overlapping calls for a run post two notifications
   into a channel (`workflow_run_rollback.go:43-45` and `comm.proto:19` promise one).
2. `rollback_lost_event`: a notification whose event was not published by the call
   that linked it never gets one (`events.go:20`).
3. `rollback_late_message`: a channel can be in neither slice
   (`comm.proto:61`), if its message was linked after it was looked up.
4. `edit_lost_body`: overlapping edits lose a body from the audit trail
   (`architecture.md:21`).
5. `edit_fail_open`: the window check is skipped if the channel cannot be read
   (`schema.go:55`).
6. `members_half_dm`: a direct channel may have fewer than two members
   (`architecture-storage.md:91`).
7. `members_two_dms`: a pair may have two direct channels
   (`architecture-flows.md:247-249` describes a search the handler does not make).

Others were seen while modelling and have no run of their own, because the
documents describe another design rather than a promise about this code:

* **The edit window needs an edge this service never writes.** `editMessage` looks for
  the channel by `belongs_to_channel` from the message (`handler_messages.go:143-147`).
  No code under `src/` makes that edge: `sendMessage` makes `has_message` only
  (lines 55-60), and the test of the window puts the edge there itself
  (`handler_test.go:235`). `architecture-flows.md:89` resolves the channel by the inbound
  `has_message` edge, and `architecture-domain.md:90` and `mvp.md:27` allow edits in the channel's
  window only. `schema.go:76` and `:138` declare the two edges inverses, so the store may
  make one of the other; if it does not, every message may be edited for ever. This is
  the constant `InverseEdges`, and `EditsRespectWindow` is stated for stores that do;
* **The edit count needs a store that reads numbers back as float64.** Line 198 takes
  `edit_count` for a float64 and for 0 otherwise, though `checkEditWindow` (lines 223-231)
  is ready for `int` and `int64` too. In a store that keeps integers every edit
  writes 1. This is the constant `JsonNumbers`;
* **Ids are not checked.** `joinChannel` and `createDM` (`handler_channels.go:79-84`,
  `:130-135`), `addReaction` and `markRead` (`handler_participants.go:32`, `:75`) make edges of
  the ids they are given. `architecture-flows.md:147-150`, `:177-178` and `:271-274` have
  `GetEntity` answer `ErrEntityNotFound` first, and `:246` forbids a direct channel of a
  participant with himself. If the store does not check the ends (`checked` is
  FALSE), members, reactions and receipts of nothing are stored and answered with 201 or
  200, and `comm.member.joined` is published of them;
* **One reaction per participant and message**, in a store that refuses a second edge
  between two ends: another emoji, or the same one again, is answered with 500 for ever
  (`handler_participants.go:32-46`; `RetriesTakeEffect` says when), while
  `architecture-flows.md:151-158` has no such limit;
* a repeated `joinChannel` answers 500 for ever when the store refuses the edge
  (`architecture-flows.md:275` calls it idempotent); that the member is there all the same
  is in `RetriesTakeEffect`;
* nothing keeps a user from having two Participants (`architecture-storage.md:134`);
  the handler leaves it to the store;
* `architecture-flows.md` publishes an event when a presence changes, the handler does not;
* the registrar subscribes to `agency.published` "for schema seeding"
  (`registrar.go:2-3`, `:54`), and `architecture-flows.md:221` seeds on
  `agency.created`, but nothing in the service receives either: only the agency of
  `CODEVALDCOMM_AGENCY_ID` is seeded, at start-up. An instance for all agencies
  seeds none, which `NotFoundMeansUnseeded` allows for (`served` is `"none"`);
* `architecture-service.md` maps an `ErrInvalidRelationship` to `InvalidArgument`; the
  table of `errors.go` has no such error.

## 8. What is not modelled

* The store and the bus themselves: external, each call atomic. A listing is
  one moment in time; a store that listed page by page would be weaker.
* The EntityService, through which a client of the platform may create, update or
  delete any entity behind the handlers' backs, including notifications. The
  properties are about the service's own operations.
* Agencies: every request and every entity has one, and no operation crosses two.
* Request decoding, validation answers (400), wording, timestamps' format.
  A zero or absent `edit_window_seconds` and an empty run id are modelled, as
  they change what happens.
* `listMessages` and `listMessagesByWorkflowRun`: reads that change nothing.
  `listMessages` leaves out a message it cannot read and answers 200 all the
  same; no document says it must not.
* The schema-derived routes that `commRoutes` appends for the EntityService: made by
  the shared library from the schema. Cross takes the first match, and the
  convenience routes come first.
* The details of cmux, of keep-alive and of the listeners' errors, which are only
  logged. Read and write timeouts of the HTTP server: a handler may take as long
  as it likes in `Service`, which allows more than the code does.
* Schema and domain types are declarations; the modules take the names from them.
* Configuration but for the two settings `Service` has, storage adapter, generated
  code: no behaviour of their own.

## 9. Plan

Done, in this order: `WorkflowRunRollback` and its promise (the one operation
with loops, retries and a documented contract), `MessageEditing`, `Membership`
with all of its operations, `Routes`, `Service`, the proofs of each, and for each a
promise that it is proved to implement.

What could still be added:

1. The two message queries as readers beside `sendMessage`: which messages a list
   made while they arrive must hold, and what a failed read leaves out.
2. Theorems on the promises themselves: what a client may conclude from them alone.
