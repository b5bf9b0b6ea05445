# canvist in TLA+

canvist is a rich-text editor engine (`src/crates/`), its hosts (`src/packages/`,
`src/platforms/`) and canvist Sync (`src/services/cloud/`), the server that keeps
shared documents, relays edits between editors and bills for them. This directory
models the parts of it whose correctness depends on the order in which things
happen, checks the models with TLC and proves what matters most with TLAPS.

Paths below are relative to `src/`; `cloud/` is `services/cloud/src/`.

## The system

| Component | State it keeps | Operations | What makes it correct |
|---|---|---|---|
| Registry and rooms (`cloud/sync/rooms.rs`, `room.rs`) | loaded rooms; per room the yrs document, the reorder buffer, the updates not stored yet, counters of stored rows and bytes, the changes not reported yet, its peers | join, load, apply, leave, tick (flush, compact, evict, report), discard, flush_all | no accepted update is lost but by a restart; no room is unloaded under a peer or with something left to save; limits and counters match the store |
| Store (`cloud/store/`) | a document's snapshot and update rows, projects, terms, counters, outboxes | load, append_batch, compact, delete, admit, reserve/mark | each call is one transaction; rows keep their order |
| REST API (`cloud/api.rs`, `documents.rs`) | none | read, write, delete, duplicate, export, list | a document reads as its peers see it; deleted means gone |
| Sessions and transports (`cloud/sync/session.rs`, `hocuspocus.rs`, `ywebsocket.rs`) | the room joined, the peer id, an outbox per socket, a forwarder per open document | sync step 1 and 2, update, awareness, close | a peer that stays connected sees every update, or is told to resynchronise |
| Presence (`cloud/sync/awareness.rs`, `crates/canvist_collab/src/presence.rs`) | the states peers published, and who owns them; what each client holds of everybody | apply, snapshot, remove_peer; publish, withdraw, flush, greet | whoever is connected sees who is there; a withdrawal is not held against a client that returns |
| Webhooks (`cloud/sync/webhooks.rs`) | a bounded queue, running deliveries | notify, deliver, retry | bounded; at most so many attempts |
| Metering (`cloud/metering/mod.rs`, `stripe.rs`, `store/postgres.rs` admit) | documents active this month, usage outboxes | admit, report_documents, report_conversions | a plan's limit holds; each unit is billed once |
| Billing (`cloud/metering/billing.rs`, `stripe_webhook.rs`) | a project's terms; Stripe's sessions, subscriptions, keys and events | checkout, change_plan, the webhook, the annual subscription it creates | the terms end as Stripe's, whatever is repeated, lost or late; one subscription per annual checkout |
| Server (`cloud/server.rs`) | two background loops, the shutdown signal | run, flush_loop, drain | a graceful shutdown saves everything or says it did not |
| Collaboration (`crates/canvist_collab`) | a yrs document bound to the editor's tree, the index between the two, the maps the model hides, updates held back | local commits, remote updates, repairs, sync protocol | the tree is always what the shared document says; replicas that exchanged everything agree; concurrent edits lose nothing |
| Document model (`crates/canvist_model`) | the tree of blocks, ids, revisions, open savepoints | eleven steps, each with its inverse and its map of points; transactions; savepoints | a step or a transaction that fails leaves nothing; an inverse gives back what was there |
| Editor (`crates/canvist_core/src/editor.rs`, `state.rs`, `history.rs`, `context.rs`, `typed.rs`) | document, selection, composition, stored marks, undo and redo stacks, the input rule just applied | keys, typing, input rules, preedit, chains, dry runs, copy, cut and paste, undo, redo, remote edits | undo and redo retrace every edit; a dry run changes nothing and is right; the selection and the composition lie in the document; marks set aside for typing are for the caret where it is |
| Commands (`crates/canvist_core/src/commands/`, `structure.rs`, `motion.rs`) | none | marks, blocks, containers, lists, deleting, slices, pasting, moving | the document stays a tree of its schema; no text is lost, doubled or moved |
| Extensions (`crates/canvist_extensions`) | settings | block types, marks, rules, keys, filters, fix-ups | the character limit holds through fix-ups |
| Layout, painting, canvas, hosts | caches | rendering | deterministic functions, not modelled |

They meet as follows. A transport authenticates a socket, asks metering to admit
the document, and joins its room; `Room::apply` integrates an update under the
room's lock, queues it for the store and for the webhook, and broadcasts it. The
flush loop ticks four times a second: it appends every dirty room's queue to the
store in one transaction, folds a room's rows into a snapshot once there are
`compact_after` of them, unloads rooms that have been without peers for
`idle_eviction`, and hands due changes to the webhooks. DELETE drops the room from
the registry and then the document from the store. The metering loop reports
usage to Stripe from outboxes in the store; Stripe answers with webhooks.

What is hard in it: every store call is awaited without holding a room's lock, so
sessions join, edit and leave in the middle of a flush, a compaction or an
eviction; calls fail before or after they committed; a request can be dropped at
any await; a document can be deleted, and its room replaced, while a pass is
about the old room; the process can stop or die anywhere. Stripe delivers what it
has to say at least once, in any order and to any process.

In the editor nothing is concurrent, and what is hard is how much there is of it:
a selection may run across quotes, lists and items of any depth; a command may
turn out not to apply after it has changed something, and is then taken back; an
update is changed by fix-ups and refused by filters; undo, redo, groups, input
rules, a composition, and collaborators' edits all interleave.

Between editors everything is concurrent, and nobody is in charge. Updates come in
any order; a block is moved by deleting it and writing a copy with the same id, so
two moves leave two copies, and each editor deletes those that lost; a block whose
type does not fit where it is stays in the shared document, hidden, until a later
change lets it show; and one update may do all of it at once, while each editor
must turn it into steps that apply to its tree one after the other.

## Modules

| Module | What it is |
|---|---|
| `DurableDocument` | the abstract promise about one document: what peers see only grows, saving never invents or forgets, only a restart gives up what was not saved |
| `Rooms` | one document of canvist Sync in full: registry, rooms, flush loop, store, sessions, DELETE, shutdown, restarts |
| `MCRooms` | instances of `Rooms` for TLC |
| `YWebsocket` | stock clients, the two directions of their sockets, and the server's y-websocket session of each, in a room with its broadcast channel |
| `Hocuspocus` | one socket that carries many documents: tokens, pauses, closes, a forwarder per open document, the bounded outbox |
| `MCYWebsocket`, `MCHocuspocus` | instances of them for TLC |
| `Presence` | the awareness table of a room, its peers, and clients that publish, withdraw and come again |
| `MCPresence` | an instance of `Presence` for TLC |
| `Metering` | a project's month: concurrent admissions and the free plan's cap, conversions, and the reporters that tell Stripe |
| `MCMetering` | instances of `Metering` for TLC |
| `Subscriptions` | a project's terms and Stripe's subscriptions: checkouts, plan changes, webhook deliveries |
| `MCSubscriptions` | instances of `Subscriptions` for TLC |
| `BlockDoc` | documents, points and steps |
| `Structure` | instructions, and the scripts that commands share |
| `Transactions` | running scripts, rollback, savepoints |
| `EditorState` | selections, the state a commit leads to, dry runs and all-or-nothing chains |
| `Commands`, `Lists`, `Slices`, `Motions` | the built-in commands |
| `Editing` | the editor: calls, history, fix-ups and filters, input rules |
| `Registry` | the commands extensions register, by name |
| `MCEditing` | an instance of `Editing` for TLC |
| `SharedDoc` | external: one replica of a yrs document of block maps |
| `Mirror` | the registry of shown and hidden maps, reading maps, who owns a block id, repairs |
| `Local` | the steps of a commit, translated into changes of the shared document |
| `Remote` | what a yrs transaction changed, translated into steps |
| `Collab` | several bindings, the updates between them, held updates, syncs |
| `MCCollab` | stories of `Collab` for TLC |
| `Rooms_proofs` | all safety properties of `Rooms`, proved, and that it implements `DurableDocument` |
| `Hocuspocus_proofs` | all safety properties of `Hocuspocus`, proved |
| `YWebsocket_proofs` | all safety properties of `YWebsocket`, proved |
| `Subscriptions_proofs` | type correctness and both safety properties of `Subscriptions`, proved |
| `Presence_proofs` | type correctness and both properties of `Presence`, proved |
| `Metering_proofs` | all safety properties of `Metering`, proved |
| `BlockDoc_proofs` | every step keeps a document well formed, undoing any list of steps takes it back, and points follow the text, proved; runs of steps, as transactions make them |
| `Editing_proofs` | scripts run as a whole or not at all, savepoints revert exactly, what the editor then keeps whatever is called, and that each command registered keeps to what the editor asks of commands, proved |

### Rooms

An update is an element of `Updates`; documents, deltas, rows and snapshots are
sets of updates, because yrs merges them in any order. `Requires[u]` are the
updates `u` builds on: the reorder buffer (`crates/canvist_collab/src/reorder.rs`)
holds `u` until they are there, which is `Ready`. Every update has size 1, so the
document limit and the size recomputed by a compaction are counted in updates.

| State | Code |
|---|---|
| `registry` | the entry of `Rooms.loaded` |
| `room[r]` | an `Arc<Room>`: `doc`, `held` (Reorder), `pending`, `changes`, `storedRows`, `lastSeq`, `size` are fields of `RoomState`; `loaded` is the `OnceCell`, with the snapshot an unfinished load has read; `leaked` counts peers never counted out |
| `peer[s]` | where a websocket session or a REST write is between `Rooms::join` and `Room::leave` |
| `tick` | the flush loop: the room its pass is about, why (a flush, an eviction, the final flush), and what it is writing |
| `store` | the rows of `documents` and `document_updates`, and their sequence |
| `process`, `deleting` | the shutdown of `server.rs`, and a DELETE between discard and the store's answer |

An action is what one task does between two awaits. A pass of the loop over the
room is `TickStart`, `Take` (the queue is taken), `AppendCommit` (the store
commits), `Record` (the answer arrives) or `AppendFail` (it never does), `Settle`
(is a compaction due, and of what), `FoldCommit`, `FoldDone` or `FoldFail`, and
`Report` or `TakeChanges` and `Unload`. Sessions, loads and DELETE interleave
with it anywhere. Two things that the code does in the loop never overlap and are
left out: a pass is about one room at a time here, as rooms of different
documents share nothing, and the `persisting` lock, which only the loop takes.
Time is abstract: a room without peers may be idle long enough, a change may be
due. `GiveUp` is what each kind of pass does when the store failed.

The kinds of trouble are named in `Events`, so that a run, or a theorem, says
which of them it allows; `MaxFaults` and `MaxRestarts` bound them for TLC.

### YWebsocket and Hocuspocus

The two transports, from the other side of `Room::apply`: how what a room accepts
reaches everybody else. Both keep the clients in the model (external: the stock
providers), because what a relay promises is about what clients hold in the end.
`Rooms` is the room's life in the store; here a room is its document and, in
`YWebsocket`, what Reorder holds back. Rooms of a deleted document stay in `rooms`,
as sessions may still be in them; the last one is the registered one.

| State | Code |
|---|---|
| `replica[c]` (or `[d]`) | a client's `Y.Doc` (external) |
| `up`, `down` | frames on the wire, in order; a server that finds `SocketBuffer` frames in `down` waits in `sink.send` |
| `session` (`YWebsocket`) | where `run` is: in `wait_for_admission` (`admitting`), in `hold`, before or after `greet`; its room and its broadcast receiver |
| `queue`, `lagged` | a tokio broadcast receiver: the unread messages, at most `FanoutCapacity`, and whether one was overwritten; the next `recv` then fails with `Lagged` |
| `session` (`Hocuspocus`) | the entry of a document in `documents` or `paused`, with its forwarder: reading, about to retry after a refused `try_send`, or returned |
| `session[d].refused` | no state of the code: the updates whose SyncStatus told the client that they were not saved, because the document is full |
| `outbox` | the mpsc channel from the forwarders to the task |
| `rooms[..].peers` | how often `Rooms::join` counted this connection in and `leave` out |

A turn of a session's `select!` is one action: reading a frame (`Incoming`,
`Authenticate`, `ApplyUpdate`, ...), a broadcast (`Outgoing`, `Forward`), a timer
(`Recheck`, `Ping`). Frames in flight are lost when a socket ends; a client that
loses its connection without the server noticing is one whose session ended a
little earlier. An update that takes a document past `MaxDocument` is dropped
(`DocumentFull`) and the session goes on, in both modules; `Hocuspocus` keeps what its
client was told of it. Requests for admission, tokens and loads may be refused or paused
(`Events`); time is abstract.

### Presence

Presence travels on the same sockets as the document and shares nothing else with
it, so it is modelled by itself, with clients of our own: `canvist_collab`'s
`SyncSession` and its `Presence`, which are in `src/`, against a `ywebsocket`
session. A state is a clock and whether it is there; what it says is left out.

| State | Code |
|---|---|
| `states` | `AwarenessTable::states`: clock, whether the JSON is null, and the peer that introduced it |
| `peer[p]` | where `run` is with a connection, and its broadcast receiver, as in `YWebsocket` |
| `up`, `down` | awareness messages on a connection |
| `socket[c]` | the connection the client's host believes it has |
| `shown[c]` | the client's `Awareness` (yrs, external, but for its clock rule): what `collaborators` reads |
| `changed[c]` | `Presence::changed` |

A connection is a peer of its own and a client may open the next one while the
server still counts the last one in; `Leave` is when it finds out, or closes a peer
that fell behind. `Incoming` is `Room::apply_awareness` with the table's rules:
states belong to the peer that introduced them, at most `MaxStates` of them.
`Connect` is the greeting, which carries every state the client holds, as
`SyncSession::greeting` does, not only its own.

### Metering

The transports ask for an admission before they join a room; this is what answers.
It stands on its own, as it shares no state with rooms. Documents belong to one
process, but a database may serve several (`docs/src/cloud/self-hosting.md:93`), so
admissions are concurrent and there is a reporter per process. A step is one
statement of a transaction (PostgreSQL's default, READ COMMITTED), or all of them
from the advisory lock to the commit, or one request to Stripe.

| State | Code |
|---|---|
| `terms` | the plan and customer in `projects`; `SetTerms` may change them at any time |
| `active[d]` | the row of `active_documents`: none, without a customer, with one and `reported_at` NULL or set |
| `usage` | the row of `usage`: `active_documents`, `billable_conversions`, `reported_conversions`, `reserved_conversions` (0 is NULL) |
| `request[q]` | how far a call of `admit` is: it has read the terms, it has looked for the row |
| `reporter[p]` | how far a pass of `UsageReporter` is, and the row or range it works on |
| `stripe` | external: the identifiers Stripe's meters accepted and how often each conversion was counted |

Conversions are numbered, so that a range is a pair of numbers and being billed
twice can be seen. Stripe is assumed to remember an identifier for ever; it
promises 24 hours, and `report_interval` is far below that, so only a longer outage
between a report and its retry is left out. The months are independent rows; one
is modelled.

### Subscriptions

A task is one request the server is answering: a REST call that starts a checkout
or changes the plan, or a delivery of the webhook. Every await of its handler is a
step: fetching the subscription, reading the terms, storing them, listing and
creating. Stripe is external: sessions, subscriptions that become active, past
due, unpaid or canceled, one idempotency key per session, forgotten at any time,
and events delivered in any order until one delivery is answered with success.

| State | Code |
|---|---|
| `terms` | the plan and subscription in `projects` |
| `tasks[t]` | where a handler of `billing.rs` or `api.rs` is, and what its earlier awaits answered |
| `subscriptions`, `sessions`, `keys`, `events` | Stripe |
| `overlapped`, `paidTwice` | history: two tasks read before either wrote; two subscriptions paid at once |

### The editor

These modules are layers of operators under one state machine, `Editing`, as the
crates are: `canvist_model` is `BlockDoc` and `Transactions`, `canvist_core` the
rest. A document is a record of nodes by id; a step is a record, and `StepApply`
gives the document after it with its inverse, its map and the blocks it touched,
or says that a check refused it.

In the code a command is a closure over a transaction, which reads the document
as its earlier steps have left it. Here a command is a *plan*: a script, which is a
sequence of instructions, and the effects on selection, marks and composition; or
`None`, when it does not apply. An instruction is a step, or one of a few edits
(`PruneEmpty`, `MergeText`, ...) that turn into steps when their turn comes, so
that they read the document where the code does. `RunScript` carries a script out
or, when a step is refused, rolls it back, and `Change` makes the new editor state
of it, as `EditorState::change` does. Commands that first delete the selected text
take the document after that as a second argument. That a script fits is never
assumed: a refused step makes the call fail, which `NothingFails` forbids.

| State | Code |
|---|---|
| `state` | `EditorState`: document, selection, stored marks, composition |
| `done`, `undone`, `group` | `UndoHistory`: its stacks and its open group |
| `rule` | `Editor::last_rule` |
| `clipboard` | the slice the host keeps after `copy` and `cut` |
| `reply` | ghost: how the last call ended |

`Edit(call)` is one call of the editor: what it does (`Run`), `Finish` with fix-ups,
filters and recording, and what becomes of the group and the rule (`AfterCall`).
The clock is a choice: a call says whether it came within the group delay.
`Command` is a constant operator because extensions register commands by name;
`Registry` is its value here. Words, visual lines, the goal column and attributes
are left out; one character is one unit of text, with its marks. `CharacterCount`
stands for filters and `TrailingNode` for fix-ups, as they are the ones whose
interplay with the rest is hard.

### Collaboration

`Collab` composes several editors with the binding of each. It takes documents and
steps from `BlockDoc`, so what a binding does to a tree is what the editor's own
steps do. yrs is external and modelled in `SharedDoc`, because everything the
binding promises rests on how it merges: items with ids, each put between the two
it was written between, concurrent ones in the order of their clients, deletions
that take what is nested with them, and items that wait for others. A block map is
an item; its children, text, type and attribute are branches of it.

| State | Code |
|---|---|
| `peers[p].doc` | the editor's document, without revisions |
| `peers[p].y` | the `yrs::Doc` |
| `peers[p].reg` | `Registry`: blocks and the maps that show them, maps that are hidden and where, counts of hidden maps |
| `peers[p].held` | `Reorder` |
| `wire[p]` | the updates on their way to `p`, a set: any may come next |
| `peers[p].ok` | ghost: no step of a translation was refused |
| `removed`, `erased` | history: blocks and characters that commits took away |

`Commit` is `apply_local`: the steps of an edit, in order, each looked up in the
arrays as they are then, then what a retyped container reveals, then repairs.
`Receive` is `apply_update`: `Reorder` releases what is ready, in one transaction;
`Translated` follows `remote/mod.rs` pass by pass: events from the root down, a
plan of removals and insertions per array, moves, removals, evictions and
insertions, then hiding, retyping and unhiding; then repairs, which are sent as
updates of their own. That the steps of a translation apply is never assumed.
`Document` builds a tree from nothing, as a late joiner does; it is what the others
are compared with.

An edit is taken from a story: a document, what each peer may do to it and how
often. `StepsOf` has every kind of step, and commits of several steps. A character
is one item and one unit of every offset, so marks, inline nodes and UTF-16 are
left out; so are attributes and block maps of writers other than canvist, undo,
which yrs does, and the scene. An update a peer already knows is taken off the
wire: delivering it again changes nothing.

## What the runs check

| Run | Instance | Shows |
|---|---|---|
| `rooms_durable` | 3 updates (one builds on another), 2 store failures, a crash or a SIGTERM and a restart | `SizeCoversDocument`; `CountersMatchStore`; `GracefulExitSavesAll`; `KeepsItsPromise`, the refinement of `DurableDocument` |
| `rooms_live` | fair, 2 sessions, 2 rooms of one document, DELETE, dropped requests, 2 store failures | `EvictionSparesPeers`, `EvictionLeavesNothing`, `QueuedIsSaved`, `IdleRoomsUnload` |
| `ywebsocket_lossless` | 2 clients, 3 edits (one builds on another), receivers of 1 message, 1 trouble | `NothingMissed`, `NothingForgotten`, `NoHoles` |
| `ywebsocket_live` | a writer and a reader, 2 independent edits, fair, 2 troubles among pause, presence, drop, delete, restart | `Converges` |
| `hocuspocus` | 2 documents, 1 seat, room for 1 of 2 edits, receivers, outbox and socket of 1, fair, 3 troubles | `TypeOK`, `PeersAreOpen`, `NothingMissed`, `NothingForgotten`, `Converges` |
| `presence` | 3 clients, 3 connections, 2 states published, receivers, socket and peers' states of 1 | `NoPresenceMissed`, `ClocksStayNear` |
| `metering` | 2 documents, 2 admissions, a plan that includes 1, 2 conversions, a reporter, fair, 2 troubles | `CountIsExact`, `BilledOnce`, `NothingUnbilled`, `FreeCapHolds`, `AllIsReported` |
| `subscriptions` | 2 tasks, an annual and a monthly checkout, 2 changes, 1 trouble, fair | `AnnualOnce`, `TermsFollowStripe`, `AnnualIsHonoured` |
| `editing` | 5 documents with every selection and any one command, paste or key; 2 short ones with any 4 calls | `DocumentIsTree`, `TransientFits`, `HistoryRetraces`, `CanIsRight`, `TextIsKept`, `PasteIsPlacedInText`, `UndoneRuleIsLiteral`, `NothingFails`, `LimitHolds`, `StoredMarksAreCurrent` |
| `collab` | six stories of two or three peers with 3 or 4 edits among them, every order of delivery | `ReplicasMirror`, `PeersConverge`, `EditsSurvive` |

The bounds are small because the interesting cases are: two sessions are one that
loads and one that waits for the load, or one that leaves and one that comes
(`rooms_durable` has one, as its properties are about what rooms hold, and it
matters little to them who edits); two rooms are the one a pass is about and the one that replaced it; with three
updates one can be stored, one in flight and one queued; `CompactAfter = 2` lets a
pass with and one without a compaction follow each other; two failures are a
failure during the retry of another. The theorems hold for every value of them.
Queues of one message make every one of them overflow and every sender wait; the
real capacities (128 broadcasts, 1024 frames) only make that rarer. An edit is
followed by another one's answer, by a broadcast that overtakes it and by one that
is lost, so two or three edits meet every case. In `metering` one conversion can be
marked while the next is reserved; a second reporter, whose late mark meets a range
that is not its own, is in the proofs, which hold for any number of them. In `hocuspocus`
two documents and one seat are one that has it and one that is refused, closed or
waits for it; they share the outbox, which one message fills. All edits are of one of
them, the other comes and goes and makes noise; of the two edits one fits, so the
client's is refused when another one, its own or somebody else's, was there first.
Three troubles are a pause, what happens meanwhile, and what breaks the socket. In `presence` three
connections let one client come again while another watches, or three be there;
two states are one that replaces another, or one of each of two clients.

The runs of `Rooms`, `YWebsocket`, `Metering` and `Presence` leave out `TypeOK`: it is
proved.

`editing` has two instances in one run (`Setups`). The first is about commands: five
documents of at most nine blocks have between them a quote in a quote, a leaf
first in a quote, lists in items with something after them or not, two lists that
meet when what is between them becomes one, and an empty last block, so that each
branch of the structural commands is taken; a command's result depends on the
document and the selection only, so one call suffices. The second is about what
several calls do to each other: four of them are an edit, one that joins it or
not, an undo and a redo, or a mark toggled, a rule, its undo and a refusal; the limit is two
characters and the history holds two entries, so that both overflow. Two commands
in a row were checked for each document as well (11,000 to 18,000 states each);
they found nothing that one does not.

The stories of `collab` are `Writers` (typing, erasing and splitting in one
paragraph), `Shufflers` (blocks moved, joined, wrapped and removed under the other's
hands), `Nesters` (a container's type changes while its children do), `Joiners`
(a third peer joins late and all may sync), `Twins` (three peers move one block
into a container that hides it), and `Cyclers` (two containers moved into each
other). Between them updates are held, items wait in yrs, blocks are hidden and
shown again, copies are evicted and repaired, and every action is taken. Two edits
that concern each other and a third after them are what a conflict needs; a
conflict among three is settled two by two, and `Twins` and `Joiners` have three.

`EditsSurvive` asks for blocks only where two peers edit, containers stay in place and
the loser of a move does not move again, and for text only where blocks stay: what is put into
a container, or typed into a block, while it is moved is lost with the copy it was
put into (`crates/canvist_collab/src/lib.rs`, "Moving a block"), and two containers
moved into each other are both gone.

In `subscriptions` the two tasks are what a race needs; an annual and a monthly
session let two subscriptions meet; two changes are a cancellation of the one
and of the other, or a plan change and its event's late delivery.

For `Subscriptions` (`FairSpec`): handlers finish or fail (weak fairness of each
task's step); Stripe retries an event until it is answered, so delivering an
annual completion is strongly fair. Nothing is assumed of customers.

For the transports (`FairSpec` of `YWebsocket` and `Hocuspocus`): clients reconnect
and read; `select!` polls its branches in random order, so a ready branch is taken
at last; a paused document is rechecked, and since events are finite it is
admitted. Nobody owes an edit.

For `Metering` (`FairSpec`): `UsageReporter::run` starts a pass every
`report_interval` and every call it awaits is answered or times out after 10 s, so
each reporter is weakly fair; troubles are finitely many. Nothing is assumed of
admissions, conversions and plan changes.

For `Rooms` (`FairSpec`): `flush_loop` ticks for ever and awaits each store call,
which answers, so each step of a pass and the start of the next one are weakly
fair. A room without peers is idle for `idle_eviction` at some tick, so the
eviction is strongly fair: sessions that come and go may keep interrupting it,
but not for ever. Nothing is assumed of sessions, requests or of the store's
success; failures are finitely many.

### Where the code does not do what it says

These runs expect a violation, and `PROJECT.json` quotes the line each refutes.

| Run | What happens |
|---|---|
| `rooms_resurrect` | a flush in flight when the document is deleted writes it back |
| `collab_overtaken` | two peers move one paragraph; the loser deletes its own copy, in an update that only deletes and so has no clock, and moves the block again; that move overtakes the deletion. The other peer sees three copies of which the doomed one has the smallest id, deletes the newest, and then the deletion arrives: the paragraph is gone for everyone. With three peers the same happens without a held update |

More were met while modelling. No run is spent on them; each shows up when
the instance named here is changed as it says.

| Property | Instance | What happens |
|---|---|---|
| `ExportIsComplete` | `rooms_live`, as an `INVARIANT` | `Rooms::get` returns a room whose load is still awaited, so `current_state` reads its empty document: GET, export and duplicate return nothing (`documents.rs:16`: "live from its room when loaded, otherwise from the store") |
| `NoSilentGap` | `hocuspocus`, as an `INVARIANT` | a forwarder that finds the outbox full tries to queue `Lagged` into the same outbox, ignores that this fails too, and returns: the document is open and silent (`hocuspocus.rs:67`: OUTBOX is how many frames are "queued for a socket before it is disconnected as too slow") |
| `RepairsLeaveACopy` | `collab` with `Stories <- Lost`, as a `PROPERTY` | when a copy of a container is evicted, what is in it goes too, but `claim` knows only the evicted id: a newer copy of a block inside loses to the one that is about to go, and is deleted as well (`canvist_collab/src/lib.rs:106`: of the copies the model can show, "the one with the smallest yrs item id keeps the block and the others are deleted") |
| `RejectedIsExact` | `collab` with `Stories <- Stale`, as an `INVARIANT` | `Registry::remove` looks for a removed block with hidden maps with `any`, which stops at the first and leaves the counts of the others (`binding.rs:217`: "How many items in the shared document's block arrays the model hides") |
| `OutOfOrderIsHarmless` | `subscriptions` with `Interval <- Monthly`, `InitialPlan = "hobby"`, one change and no faults, as a `PROPERTY` | two deliveries fetch a subscription before and after a change and store the terms in the opposite order; nothing corrects them (`api.rs:474`: "out-of-order and repeated events are harmless") |
| `ActiveAreAdmitted` | `metering`, as a `PROPERTY` | `admit` looks for the row before it takes the month lock and not again: of two first opens of one document at the last slot, the second is paused though the document is active by then (`store/mod.rs:93`: a full plan refuses "only documents not yet active this month"); a recheck admits it |
| `GracefulExitSavesAll` | `rooms_durable`, with `"linger"` in `Events` | a socket that outlives `SOCKET_DRAIN` edits a room after its final flush; the edit is acknowledged and never written, and the process exits as if all were saved (`docs/src/cloud/self-hosting.md:89`: it "saves every loaded document") |
| `EvictionKeepsHeld` | `rooms_live`, as a `PROPERTY` | an update that Reorder holds back is acknowledged (`hocuspocus.rs:10`: "whether an update was saved"), is in no queue, and is gone when its room is unloaded |
| `IdleRoomsUnload` without its exception for `leaked` peers | `rooms_live` | `Rooms::join` counts a peer in before it awaits the load; if the request is dropped there (this relies on the HTTP server dropping a handler whose client went away), nobody counts it out and the room is never unloaded |
| `NothingMissed` | `ywebsocket_lossless`, with `"crash"` in `Events` | `Room::apply` broadcasts all that an update released as its sender's, and the transports skip a peer's own messages (`room.rs:295`): when a restart or a deletion lost an update, its sender, which still has it, never gets the others' edits that waited for it while it stays connected (`room.rs:3`: a room "fans the changes out to the others") |
| `DeletionDisconnects`: a session ends up in the registered room | `hocuspocus`, as a `PROPERTY` | the forwarder turns `Fanout::Closed` into PermissionDenied (`hocuspocus.rs:507`); the document stays open, in the discarded room, whose updates nothing saves, while SyncStatus keeps confirming them (`room.rs:320`: "disconnect every peer, as when the document is deleted") |
| `RefusalIsUndone` | `editing`, as a `PROPERTY` | a refused update is reverted by its steps: a composition that ended with it, or moved, is not restored, and one it began stays (`extension.rs:96`: "One that returns `false` undoes the update, and the command reports that it did not apply") |
| `PasteIsPlaced` | `editing`, as an `INVARIANT` | pasting over selected text blocks when the rest is only leaves: deleting them leaves a leaf selected, and `replace_blocks` deletes that too before it pastes (`paste.rs:57`) |
| `UndoneRuleIsLiteral` with the marks toggled for the typed text | `editing` | the update of an input rule clears the stored marks (`state.rs:363`), and `undo_input_rule` types with the marks that are active then: bold turned on before the space of `# ` is off again after Backspace, which plain typing would have kept |
| `TextIsKept` without `MayReorder` | `editing` | `lift_nested` puts an item past what follows the nested list in the outer item; `adopt_children` puts the rest of a nested container after all the outer one holds. Text keeps its characters but changes its order |
| `SeatsAreWanted` | `hocuspocus`, as an `INVARIANT` | `close_document` does not look into `paused`: a document closed while it was paused keeps its seat, is admitted (one more active document of the month) and joined by a later recheck |
| `CollaboratorsAreConnected` | `presence` with `MaxStates = 2`, as an `INVARIANT` | a `SyncSession` greets with every state it holds (`canvist_collab/src/sync.rs:163`: "Sync step 1 and this peer's presence"), so one that was away while another left introduces that one to the room again; it is shown until its introducer leaves (`canvist_collab/src/presence.rs:52`: a collaborator is "another peer currently connected to the document") and, if it comes back, its own states are refused until then |

## What is proved

From `RoomsAssumption`: finitely many updates, `Requires` transitive and
irreflexive, `NoRoom` not a room.

* `TypeCorrect`: `Spec => []TypeOK`. Inductive with two facts: what is in use is a
  room (`InUseAreRooms`), and the store holds finitely many rows, without which
  they could not be counted.
* `EvictionSparesPeersTheorem`: only `Unload` removes a room from the registry
  without a DELETE or a restart (`EvictsUnloads`), and its decision sees every
  session under the registry lock.
* `EvictionLeavesNothingTheorem`: needs `Reported`: between the moment the loop
  takes the changes and its decision, every change the room has is also pending,
  because an edit adds to both.
* `KeepsItsPromiseTheorem`: if nobody deletes the document, `Rooms` implements
  `DurableDocument`. The inductive invariant `PromiseInv` says that there is one
  room (`OneRoom`); that a loaded room holds exactly what is stored, what is
  queued and what is being written (`RoomInv`), which is what a requeue and an
  eviction rely on; that what is stored can always be loaded whole, with
  everything it builds on (`StoreInv`); and that a compaction writes a snapshot
  that covers all that is stored and nothing the room has not (`PassInv`), because
  one loop appends and folds. Each step is then an `Accept`, a `Save`, a
  `Restart` or a stutter.
* `SizeCoversDocumentTheorem`: with DELETE and all else. A room that is not loaded
  has queued nothing, and a session that is in, or a pass that writes, is about a
  room that is loaded (`Loading`), so no load overwrites what was counted; while a
  compaction runs, its snapshot and the queue make up the document (`Folding`), so
  the sum it recomputes is enough.
* `CountersMatchStoreTheorem`: until the first fault. `Lone`: there is one room, that
  of the registry, because only a DELETE makes a second one. `Numbered`: rows come
  after the store's snapshot, and the last number given is that of a row or folded.
  `Counted` then says how far the room is behind the store at each point of a load
  and of a pass: by the batch that is committed and not yet recorded, or by the rows
  that are folded and not yet counted. One loop writes, so nothing else moves in between.
* `GracefulExitSavesAllTheorem`: if nobody deletes the document and every socket
  closes within `SOCKET_DRAIN`. Added to `PromiseInv` is `Finishing`: in the final
  flush no session is left, so once it took the queue nothing joins it, unless an
  append failed, which counts as a failure. The second hypothesis is needed:
  with `"linger"` in `Events` the property is violated (see above).

From `HocuspocusAssumption` (finitely many documents and updates, capacities that
are numbers), for channels of any capacity and any number of troubles:

* `TypeCorrect` and `PeersAreOpenTheorem`: the two are inductive together
  (`Placed`). The types say that a socket has no more documents than seats and that
  the room of an open document exists; who counts as a peer says that `leave`
  always has something to count down.
* `NothingMissedTheorem`: needs that the broadcast that closes a room carries no
  update (`ClosedIsEmpty`), that nothing is on the way without a socket
  (`OfflineIsEmpty`), that a client holds what it says it has or sends
  (`ClientHolds`), and that behind every token comes the step 1 of its document
  (`HelloOrder`), so that a session that opens answers for what came before it.
* `NothingForgottenTheorem`: until somebody deletes a document it has one room
  (`Whole`), and what the server ever said of it is in that room (`RoomSays`), so
  that the step 1 of a new session asks for all the room has not. What the room has no
place for is in `refused`, which a session that goes on never takes back (`Recalls`).

From `YWebsocketAssumption` (`Requires` transitive and irreflexive, `Server` not a
client, numbers that are numbers and a receiver that holds a message), for every
number of clients, rooms and edits:

* `TypeCorrect`.
* `NothingForgottenTheorem`: whatever the events. Needs `WiresLinked`: what is on the
  way to a client is in its room, what it sent is in its replica, and nothing is on
  the way to a session that is not in a room.
* `NothingMissedTheorem` and `NoHolesTheorem`: under `Calm \/ Independent`. A session
  skips its own messages, which loses nothing only if what a payload makes new in
  its room is its sender's (`OwnEdits`); but `Room::apply` broadcasts all that an
  update releases from Reorder as its sender's. `OwnEdits` holds if nothing is ever
  held (`Independent`: edits build on no other), or if nothing is lost that an edit
  builds on (`Calm`: neither a crash nor a deletion is among the `Events`): then
  what is held waits for an edit of the client it is from (`Awaited`, in `CalmInv`),
  because everything else it builds on came from the room's document, which lacks
  nothing (`Whole`). Without the hypothesis `NothingMissed` is violated (see above).
  The rest is the same for both: a client that waits to be answered has its step 1
  on the wire (`AllAsked`), and whatever part of its queue a client has heard lacks
  nothing (`AllFilled`), because a broadcast may build on what was sent before it
  but not on what comes after it.

From `PresenceAssumption` (finitely many clients, numbers that are numbers), for
every number of clients, connections and states, and channels of any size:

* `TypeCorrect`.
* `ClocksStayNearTheorem`: inductive as it stands, because it is about everything
  that is said anywhere. `Effect` says what a step may add to each variable: a
  client says what it holds, the server what a client said or the table shows, or
  a withdrawal one clock past a state that is there.
* `NoPresenceMissedTheorem`: needs `ClientHolds`: what a client says of anybody it
  holds itself, because a peer is not sent what it said.

From `MeteringAssumption` (finitely many documents, numbers that are numbers), for
every number of documents, admissions, reporters and conversions:

* `TypeCorrect`.
* `CountIsExactTheorem` and `FreeCapHoldsTheorem`: needs `DocumentsInv`, that an
  admission is of one document and that a pass only has documents with a row, so
  that only an admission makes a row and it counts it.
* `BilledOnceTheorem`: `RangeInv` is about all ranges there ever were and are: those
  Stripe has, those reporters hold and the reserved one. Two of them are equal or
  disjoint, and all but the reserved one are below `reported`. So a reservation,
  which starts at `reported`, is disjoint from all others; a mark that finds its
  own end reserved is of the reserved range (`MarkStep`), which is what
  `mark_conversions_reported` relies on when it compares only the end.
  `CountedInv` says that Stripe counted what is in its ranges, once.
* `NothingUnbilledTheorem`: adds `LandedInv` and `SentInv`, that what was just sent
  landed or was refused.

From `SubscriptionsAssumption` (finitely many tasks), for every number of tasks,
checkouts, changes and faults:

* `TypeCorrect`: whatever a task, an event, a key or the terms name exists.
* `AnnualOnceTheorem`: needs `OnceInv`: a task that is about to create a subscription
  found none for its session, and if there is one by now, Stripe still has the key
  and answers with that one. The key guards the time from the lookup to the
  creation, the lookup that after the key is forgotten.
* `TermsFollowStripeTheorem`: for tasks that did not overlap and a customer who did
  not pay twice, as the property says. `Following` traces every subscription: the
  terms know it as it is, or an event of it is due, or a task is busy with it. A
  snapshot that a task holds, and the terms that it is about to write, are as fresh
  as that. `AloneInv` says that one task at most is between its read and its write,
  `PayerInv` that one subscription at most pays, and `PlannedInv` that terms without a
  paying subscription grant no plan that is for sale.

From `SchemaAssumption` (kinds that hold text, blocks or nothing, a default text
block that may be at the top), for documents, trees and texts of any size:

* `StepsAreInvertible`: a step that applies to a well-formed document leaves a
  well-formed one, and gives an inverse that is a step, applies to that and gives
  all a reader sees back (`step/mod.rs`, "The step that undoes this one").
  `WellFormed` is what the mutators rely on without checking it: children lists and
  parents agree (`Linked`), no block is below itself (`Acyclic`), blocks hold
  what their kind takes (`Holds`). Each operation gets a *view*: what it makes of
  every block, list and parent (`SplitView`, `JoinView`, `DetachTreesView`,
  `MovedView`, ...). From the view follows that the document is well formed, and
  that the inverse's view on top of it is the identity: lists are spliced and
  spliced back (`SpliceBack`, `TakenOutAndIn`). Steps that change one block in place
  leave all the rest alike (`AlikeIsWellFormed`).
* `AllUnderLeast`: what is below some blocks is the least set with them that is closed
  under children (`Acyclic` speaks of it, and removals and moves depend on it). It is
  computed level by level, as many levels as there are blocks; that this is enough
  is a count: a level that adds nothing is the last, and each other adds one. To
  show that nothing is below itself after a change, a closed set without the block
  is exhibited: no induction over trees is needed.
* `StepApplyKeepsWellFormed`: the same for `StepApply`, which counts, and records
  inverses and removed blocks in open savepoints. Whoever changes a document does it
  through `StepApply`, so the document is well formed after any sequence of steps
  (`DocumentStaysSound` below, for the editor).
* `UndoIsExact`: a run of steps of any length (`IsRun`), and its inverses applied in
  reverse: none is refused, and the document passes through all it was, back to the
  first. It also says so of a document that merely *reads* as the run left it, because
  that is what the code has: an undo comes after other undos, refusals and dry runs,
  which leave other revisions, counters and savepoints behind. So `Twins` are
  well-formed documents that read the same, and every step does the same to both
  (`StepsDoTheSame`, one lemma per operation: the same verdict, the same inverse,
  twins again). With `StepApplyUndone` that is an induction over the number of steps.
* `RedoIsExact`: `UndoIsExact` twice.
* `PointsFollowTheText`: what the map of a step does to a point (`step/map.rs`) fits
  what the step does to the document. `TakesPoint` says when it is deleted: its block
  is removed, or the characters on both sides of it at once. Otherwise `KeepsPlace`: it
  lies in the document the step leaves (`Inside`), and the character it leans on, the
  next one or with the other bias the one before it, is still on that side of it,
  unless `TakesChar` says that the step took that out. Two things that must agree are
  written down twice in the code, the splice and the arithmetic of its map, and the
  boundaries are where they could differ: a point at the start of a removal, at the
  place of a split, behind a join. One lemma per operation, from the views above.
* `PointsFollowThroughRuns`: the same through the maps of any number of steps
  (`map_through`), by induction over their number. What a removed block's points fall
  back to depends on the reading order; that it lies in the document is proved with
  the editor (`FallbackView`).
* `ReadingOrderIsComplete`: the walk of `next_block`, which goes down, to the right
  and up again, lists every block of a well-formed document once. `Walk` is the loop it
  is in the code, with a list of what is still to be read; the invariant
  (`WalkView`) is that what was read, and what is below the rest, are disjoint and
  together all there is (`Grove`), and the number of blocks bounds its rounds.
* `ScriptIsAllOrNothing`: what commands are made of. `Ran(d, t)` says all there is to
  say of a transaction `t` that began on `d`: its document is well formed and the ids
  that it will give out are new (`IsDocument`), its inverses are steps, and `Undoes` says
  that they take every document that reads as its own back to `d`. A step keeps it (`RanStep`), and so does each instruction, because
  the steps it turns into are typed for the document it meets (`ResolveIsWork`, of which
  `PruneEmpty` needs that a chain of ancestors has no end but the root). Rollback is
  `UndoIsExact`. A filter's refusal and `Revert` apply the same kind of list;
  that the editor keeps the right one is `HistoryAlwaysRetraces`.
* `SavepointsRevertExactly`: more than reading the same. `Logged(d, e)` relates the
  document a savepoint was opened on with the one inside: the log's inverses lead back
  to a twin of `d` (`Undoes`), and every block of `d` has its revision in the
  log or still has it (`Spared`), because `affected_by` names all blocks whose revision a
  step can change, removed ones included. Then restoring revisions, version and ids
  leaves no difference at all. Opening, each step and a rollback inside keep it, and
  folding nested savepoints into an outer one (`Absorb`) loses none of it.

And for the editor as a whole, whatever it starts with, whatever it is called with
and in whatever order:

* `DocumentStaysSound`: the document is well formed and has a block, the walk reads
  all of it, no savepoint is left open, no id is given out twice, and the history
  holds steps. The invariant is `Sound`: the document, the selection, the
  composition and the history are all typed for *each other*. That it is inductive is
  an argument over what editing is made of. `Transacts` is the contract of whatever
  edits: it succeeds, fails, or does nothing; what it leaves is a state again, with
  the savepoints that were open still good (`Follows`); if it did nothing, the state is
  as it was; and if it did something, its update says how, with inverses that lead
  back (`IsUpdate`). A command that is a plan keeps it (`LocalChange`), fix-ups that
  run afterwards keep it (`FoldedCarries`), and so does what is put together from
  commands that do: the first that applies of a binding, all of a chain
  (`CommandsTrail`), which is atomic because a savepoint is around it
  (`AtomicCarries`), preedits, and the undo and redo of the history.
* `TransientAlwaysFits`: the selection and the composition lie in the document. It
  needs that maps carry points (`CarriesView`), that a point in a removed block falls
  back to one that is there (`FallbackView`), and that clamping gives a caret in a
  document with a block (`ClampView`).
* `HistoryAlwaysRetraces`: undoing all there is to undo retraces the documents the
  entries were recorded on, none refused, and so does redoing. `Chain` says that there
  are documents, from one end of the stack to the present, that each entry leads
  between; since an entry leads from every document that reads alike, refusals, dry
  runs and undone undos do not disturb it. Recording appends to it, joining a group
  composes two links into one (`UpdatesCompose`), the depth limit drops links at the
  far end, a remote change empties it.
* `IdleCallsLeaveNoTrace`: a call that answers that nothing was done, or that a filter
  refused it, and remote steps that are rejected, leave the text, the selection and the
  history as they were, although any number of steps may have run meanwhile.

The hypotheses of the four are these. `SetupsAreTyped`: the editor starts in a state,
types non-empty texts, selects points and is sent steps; and a command keeps
`Transacts`. Commands are a constant of `Editing` because extensions bring their own;
the contract is the one thing asked of them. `PastesTransact`: a paste keeps it as
well. How `Fit` and `fresh_ids` take a slice apart is a recursion over data.
`HistoryAlwaysRetraces` also has `[]NothingFails`, which TLC checks: a call that fails
half way may leave a history that leads elsewhere.

And for the editor with the commands canvist itself registers:

* `RegisteredTransacts`: each of them keeps `Transacts`, in any state and with any
  arguments (`IsCommand` asks only that text is text and that the kinds of a list are
  one of `ListTypes`): typing, both deletions, splitting, marks, types and
  attributes, wrapping, lifting, leaves, all of the lists, the motions of the caret and
  the undo of an input rule. A command is a transaction it may have begun (`Started`)
  and a plan, so it is enough that the plan is local (`IsLocalPlan`): a script of
  edits and steps, each typed for any document it may meet, and a selection as the code
  can hold one. Splitting, leaves and list items first delete the selected text and
  plan on what that leaves, so the block where the selection begins must still be
  there, a text in its place, whatever was merged into it and whatever containers
  were emptied: `Remains` follows it through merges (`MergingKeeps`), the children a
  container takes over (`AdoptingKeeps`), the pruning of what is empty
  (`PruningKeeps`) and so the whole deletion (`DeletionKeeps`).
* `ShippedEditorStaysSound`: so the four results above hold of the editor as it is
  shipped, with nothing asked of its commands. Instead: `CommandsAreRegistered`,
  that the constant `Command` is `Registered`, and `SetupsNameCommands`, that
  starts, texts, bindings, chains and selections are what they are called, which the
  setups of `MCEditing` satisfy.

This proof met a guard of the code that the model did not have: `split_list_item` does
nothing with an item that is in no list, at the top of the document.

Only model-checked, of the editor: that `can` predicts what a command does
(`CanIsRight`), that nothing fails (`NothingFails`), that limits hold
(`LimitHolds`), that marks set aside for typing are for the caret where it is
(`StoredMarksAreCurrent`), that structure commands keep the text (`TextIsKept`), where pastes go
(`PasteIsPlacedInText`), what the undo of an input rule leaves (`UndoneRuleIsLiteral`),
that no container is left empty (`DocumentIsTree` beyond `DocumentIsSound`), and the
composition of `RefusalIsUndone`. They say which script a command makes, not what
becomes of scripts; `PastesTransact`, which ranges over all documents, is not for TLC
either. Of the collaboration, everything: the merges of yrs are
recursive over data, and what a recursion over data computes for every input is an
induction over data, which TLAPS cannot do here, except where it is over the number
of its rounds. Liveness, it cannot do either. Every safety property of a passing run
of the other components is proved.

## Plan

In this order; each with its MC module, hazards first.

1. `Rooms` (done, and proved).
2. `YWebsocket`, `Hocuspocus` (done, and proved).
3. `Metering` (done).
4. `Subscriptions` (done).
5. The editor (done): steps and savepoints, commands, lists, slices, motions,
   history, input rules, filters and fix-ups. Steps, scripts, rollback and savepoints
   are proved, that points follow the text, that the editor stays sound and its
   history retraces, and that its own commands let it; next: pastes, `CanIsRight`.
6. The binding of `canvist_collab` (done): local and remote changes, moves and
   claims, hidden blocks, repairs, held updates, syncs. Next: marks, and its undo.
7. `Presence` (done).
8. Next: `Webhooks` (a bounded queue; retries that go out after later deliveries).

## Not modelled

Layout, painting, the canvas, the hosts and their bindings, the website, docs,
examples and tools: pure functions, platform event loops or no program at all.
Authentication, validation and conversion are checks of a single request. The
portal of billing only asks Stripe for a link. Of the extensions, those that
add block types, marks, rules and commands of the kinds `Registry` has are left out,
as are the readers and writers of HTML and Markdown: functions of their input.
The undo of the collaboration is yrs's own,
snapshots an encoding of the replica. `load` reads a snapshot and its rows in two
statements, which matters only when two processes serve one document
(`self-hosting.md:93` excludes that), and `max_document_bytes` does not count what
an update releases from `Reorder`.
Inside the modelled parts, bytes, encodings, names and log messages are abstracted.

Two more observations that are no property: when two deliveries of one annual
completion overlap, the idempotent answer the second gets is the subscription as
it was when created, so a change in between is overwritten until its own event
arrives; and a customer who pays for two subscriptions and cancels the newer one
is left on hobby while the older one pays, which `paidTwice` excludes from
`TermsFollowStripe`.
