------------------------------- MODULE Rooms -------------------------------
(***************************************************************************)
(* One document of canvist Sync (services/cloud): the registry of loaded   *)
(* rooms, the room holding the document in memory, the flush loop that     *)
(* persists, compacts and evicts it, the store it writes to, and the       *)
(* sessions and requests that join it, edit it and delete it.              *)
(*                                                                         *)
(* Data.  An update is an element of Updates; a document, a delta, a       *)
(* stored row's payload and a snapshot are sets of updates, because yrs    *)
(* merges them in any order.  Requires[u] is what u builds on.  Every      *)
(* update has size 1.  Sequence numbers, counts of rows and sizes are kept.*)
(*                                                                         *)
(* Concurrency.  Each action is one critical section: what the code does   *)
(* between two awaits while it holds a lock.  A store call is a commit,    *)
(* then its answer; a call may fail before or after it committed.          *)
(***************************************************************************)
EXTENDS Integers, FiniteSets, Functions

CONSTANTS
    Updates,       \* updates peers may send
    Requires,      \* [Updates -> SUBSET Updates]: earlier updates it builds on
    Sessions,      \* websocket sessions and REST writes
    RoomIds,       \* Arc<Room> allocations
    NoRoom,        \* no room
    CompactAfter,  \* SyncConfig.compact_after
    MaxDocument,   \* SyncConfig.max_document_bytes, in updates
    Events,        \* the kinds of trouble that may happen: see EventKinds
    MaxFaults,     \* bound: how many of them, restarts aside
    MaxRestarts    \* bound: how often the process restarts

EventKinds == {"store",   \* a store call fails, before or after it commits
               "cancel",  \* a request is dropped while its load is awaited
               "crash",   \* the process dies
               "stop",    \* SIGTERM
               "linger",  \* a socket outlives SOCKET_DRAIN
               "delete"}  \* DELETE /v1/documents/{name}

ASSUME RoomsAssumption ==
    /\ IsFiniteSet(Updates)
    /\ Requires \in [Updates -> SUBSET Updates]
    /\ \A u \in Updates : /\ u \notin Requires[u]
                          /\ \A v \in Requires[u] : Requires[v] \subseteq Requires[u]
    /\ NoRoom \notin RoomIds
    /\ CompactAfter \in Nat
    /\ MaxDocument \in Nat
    /\ Events \subseteq EventKinds
    /\ MaxFaults \in Nat
    /\ MaxRestarts \in Nat

VARIABLES
    registry,  \* Rooms.loaded for this document: a room, or NoRoom
    room,      \* the rooms in memory, registered or only referenced
    peer,      \* what each session is doing, and in which room
    tick,      \* the flush loop, or flush_all at shutdown
    store,     \* the document's row and its update rows
    process,   \* "up", "stopping", "flushed" or "failed"
    deleting,  \* whether a DELETE has discarded the room but not the store yet
    faults,    \* failures so far (bounded by MaxFaults)
    restarts   \* restarts so far (bounded by MaxRestarts)

vars == <<registry, room, peer, tick, store, process, deleting, faults, restarts>>

-----------------------------------------------------------------------------
(* Rooms, sessions, the store. *)

\* room.rs: RoomState, with `loaded` (a OnceCell) and the peer count.  `read`
\* is the snapshot an unfinished load has read; `leaked` counts joins that
\* were never given back.
RoomState ==
    [loaded: {"no", "reading", "yes"}, read: SUBSET Updates, readThrough: Nat,
     doc: SUBSET Updates, held: SUBSET Updates, pending: SUBSET Updates,
     changes: SUBSET Updates, storedRows: Nat, lastSeq: Nat, size: Nat,
     leaked: Nat]

NewRoom ==
    [loaded |-> "no", read |-> {}, readThrough |-> 0, doc |-> {}, held |-> {},
     pending |-> {}, changes |-> {}, storedRows |-> 0, lastSeq |-> 0,
     size |-> 0, leaked |-> 0]

PeerState == [at: {"out", "joining", "in"}, room: RoomIds \cup {NoRoom}]
Out == [at |-> "out", room |-> NoRoom]

Row == [seq: Nat, payload: SUBSET Updates]

\* store/: the documents row (exists, snapshot, snapshot_seq as `through`),
\* the update rows, and the sequence their numbers come from.
StoreState == [exists: BOOLEAN, snapshot: SUBSET Updates, through: Nat,
               rows: SUBSET Row, seq: Nat]
NoDocument == [exists |-> FALSE, snapshot |-> {}, through |-> 0, rows |-> {}, seq |-> 0]

\* What loading the stored document yields.
Stored == store.snapshot \cup UNION {row.payload : row \in store.rows}

\* room.rs: peers() > 0.
HasPeers(r) == room[r].leaked > 0 \/ \E s \in Sessions : peer[s].room = r

\* Rooms still referenced: by the registry, a session, or the flush loop.
InUse == {registry, tick.room} \cup {peer[s].room : s \in Sessions}

\* What the flush loop is doing, to which room and why (a plain flush, an
\* eviction, or flush_all at shutdown), and what it is writing.
Tick == [phase: {"rest", "take", "append", "appended", "settle", "fold",
                 "folded", "report", "unload", "decide"},
         room: RoomIds \cup {NoRoom}, mode: {"flush", "evict", "final"},
         batch: SUBSET Updates, rows: Nat,
         snapshot: SUBSET Updates, through: Nat]
Resting == [phase |-> "rest", room |-> NoRoom, mode |-> "flush", batch |-> {},
            rows |-> 0, snapshot |-> {}, through |-> 0]

Fault(kind) ==
    /\ kind \in Events
    /\ faults < MaxFaults
    /\ faults' = faults + 1

\* reorder.rs: of `updates`, those that can apply to a document of `known`
\* once every other one that can has been applied.
Ready(updates, known) == {u \in updates : Requires[u] \subseteq known \cup updates}

-----------------------------------------------------------------------------
Init ==
    /\ registry = NoRoom
    /\ room = [r \in RoomIds |-> NewRoom]
    /\ peer = [s \in Sessions |-> Out]
    /\ tick = Resting
    /\ store = NoDocument
    /\ process = "up"
    /\ deleting = FALSE
    /\ faults = 0
    /\ restarts = 0

(***************************************************************************)
(* Sessions: Rooms::join, Room::load, Room::apply, Room::leave.            *)
(***************************************************************************)

\* Rooms::join up to its await: under the registry lock, find or create the
\* room and count the session in.
Join(s) ==
    /\ process = "up"
    /\ peer[s].at = "out"
    /\ \E r \in RoomIds :
        /\ IF registry = NoRoom
           THEN /\ r \notin InUse
                /\ registry' = r
                /\ room' = [room EXCEPT ![r] = NewRoom]
           ELSE /\ r = registry
                /\ UNCHANGED <<registry, room>>
        /\ peer' = [peer EXCEPT ![s] = [at |-> "joining", room |-> r]]
    /\ UNCHANGED <<tick, store, process, deleting, faults, restarts>>

\* The first SELECT of postgres.rs `load`: no document is an empty one.
LoadSnapshot(r) ==
    /\ room[r].loaded = "no"
    /\ \E s \in Sessions : peer[s] = [at |-> "joining", room |-> r]
    /\ room' = [room EXCEPT ![r] = [room[r] EXCEPT
          !.loaded = IF store.exists THEN "reading" ELSE "yes",
          !.read = store.snapshot,
          !.readThrough = store.through]]
    /\ UNCHANGED <<registry, peer, tick, store, process, deleting, faults, restarts>>

\* The second SELECT, then Room::load_from integrates both parts.
LoadRows(r) ==
    /\ room[r].loaded = "reading"
    /\ \E s \in Sessions : peer[s] = [at |-> "joining", room |-> r]
    /\ LET parts == room[r].read \cup UNION {row.payload : row \in store.rows}
           bytes == {p \in store.rows \X Updates : p[2] \in p[1].payload}
           seqs == IF store.rows = {} THEN {room[r].readThrough}
                   ELSE {row.seq : row \in store.rows}
       IN \E last \in seqs :
            /\ \A seq \in seqs : seq <= last
            /\ room' = [room EXCEPT ![r] = [room[r] EXCEPT
                 !.loaded = "yes",
                 !.doc = Ready(parts, {}),
                 !.held = parts \ Ready(parts, {}),
                 !.storedRows = Cardinality(store.rows),
                 !.lastSeq = last,
                 !.size = Cardinality(room[r].read) + Cardinality(bytes)]]
    /\ UNCHANGED <<registry, peer, tick, store, process, deleting, faults, restarts>>

\* Rooms::join after a successful load.
Enter(s) ==
    /\ peer[s].at = "joining"
    /\ room[peer[s].room].loaded = "yes"
    /\ peer' = [peer EXCEPT ![s].at = "in"]
    /\ UNCHANGED <<registry, room, tick, store, process, deleting, faults, restarts>>

\* Other sessions waiting for the load of s's room.
Waiting(s) == {t \in Sessions \ {s} : peer[t] = peer[s]}

\* A failed load: the caller leaves; the next one loads again.
LoadFail(s) ==
    /\ Fault("store")
    /\ peer[s].at = "joining"
    /\ room[peer[s].room].loaded # "yes"
    /\ room' = [room EXCEPT ![peer[s].room].loaded = "no"]
    /\ peer' = [peer EXCEPT ![s] = Out]
    /\ UNCHANGED <<registry, tick, store, process, deleting, restarts>>

\* The request is dropped while documents.rs `apply` awaits the load: the
\* session was counted in and is never counted out.  If another one waits, s
\* need not be the one that was reading.
Cancel(s) ==
    /\ Fault("cancel")
    /\ peer[s].at = "joining"
    /\ room[peer[s].room].loaded # "yes"
    /\ \E loaded \in {"no"} \cup {room[peer[s].room].loaded : t \in Waiting(s)} :
          room' = [room EXCEPT ![peer[s].room] = [room[peer[s].room] EXCEPT
                !.loaded = loaded, !.leaked = @ + 1]]
    /\ peer' = [peer EXCEPT ![s] = Out]
    /\ UNCHANGED <<registry, tick, store, process, deleting, restarts>>

\* Room::apply and RoomState::integrate: through Reorder, then queue what
\* changed for the store and the webhook.  Nothing changed is Ok(false).
Apply(s, u) ==
    /\ peer[s].at = "in"
    /\ LET r == peer[s].room
           waiting == room[r].held \cup {u}
           ready == Ready(waiting, room[r].doc)
           delta == ready \ room[r].doc
       IN /\ room[r].size < MaxDocument
          /\ room' = [room EXCEPT ![r] = [room[r] EXCEPT
                !.held = waiting \ ready,
                !.doc = @ \cup delta,
                !.size = @ + Cardinality(delta),
                !.changes = @ \cup delta,
                !.pending = @ \cup delta]]
    /\ UNCHANGED <<registry, peer, tick, store, process, deleting, faults, restarts>>

Leave(s) ==
    /\ peer[s].at = "in"
    /\ peer' = [peer EXCEPT ![s] = Out]
    /\ UNCHANGED <<registry, room, tick, store, process, deleting, faults, restarts>>

(***************************************************************************)
(* The flush loop: Rooms::tick over the one room, and Room::persist.  It   *)
(* runs one pass at a time and flush_all runs after it ended, so the       *)
(* `persisting` lock is never contended and is left out.                   *)
(***************************************************************************)

Forced == tick.mode # "flush"
Target == room[tick.room]

\* Mutant of GiveUp: a failed final flush is not counted.
GiveUpSilently ==
    /\ tick' = CASE tick.mode = "flush" -> [tick EXCEPT !.phase = "report", !.batch = {}]
                 [] tick.mode = "evict" -> Resting
                 [] tick.mode = "final" -> [tick EXCEPT !.phase = "unload", !.batch = {}]
    /\ UNCHANGED process

\* A pass the store failed: a flush goes on to its webhooks, an eviction ends
\* and keeps the room, a final flush counts the failure.
GiveUp ==
    /\ tick' = CASE tick.mode = "flush" -> [tick EXCEPT !.phase = "report", !.batch = {}]
                 [] tick.mode = "evict" -> Resting
                 [] tick.mode = "final" -> [tick EXCEPT !.phase = "unload", !.batch = {}]
    /\ process' = IF tick.mode = "final" THEN "failed" ELSE process

\* Rooms::tick: a room without peers for idle_eviction is evicted, another is
\* flushed if dirty and asked for due webhooks.
TickStart(mode) ==
    /\ process \in {"up", "stopping"}
    /\ tick.phase = "rest"
    /\ registry # NoRoom
    /\ mode = "evict" => ~HasPeers(registry)
    /\ tick' = [Resting EXCEPT !.phase = "take", !.room = registry, !.mode = mode]
    /\ UNCHANGED <<registry, room, peer, store, process, deleting, faults, restarts>>

\* Room::take_rows, in persist or in a flush's claim.
Take ==
    /\ tick.phase = "take"
    /\ tick' = [tick EXCEPT
          !.batch = Target.pending,
          !.phase = IF Target.pending # {} THEN "append"
                    ELSE IF Forced THEN "settle" ELSE "report"]
    /\ room' = [room EXCEPT ![tick.room].pending = {}]
    /\ UNCHANGED <<registry, peer, store, process, deleting, faults, restarts>>

\* Store::append_batch commits the batch's rows in one transaction: chunks of
\* merged updates, or one row per update.
AppendCommit ==
    /\ tick.phase = "append"
    /\ \E count \in 1..Cardinality(tick.batch) :
       \E chunk \in Surjection(tick.batch, 1..count) :
        LET payload == [i \in 1..count |-> {u \in tick.batch : chunk[u] = i}]
            rows == {[seq |-> store.seq + i, payload |-> payload[i]] : i \in 1..count}
        IN /\ store' = [store EXCEPT !.exists = TRUE, !.rows = @ \cup rows,
                                     !.seq = @ + count]
           /\ tick' = [tick EXCEPT !.phase = "appended", !.rows = count,
                                   !.through = store.seq + count]
    /\ UNCHANGED <<registry, room, peer, process, deleting, faults, restarts>>

\* Mutant of Record: the newest row is noted, the count of rows is not.
RecordSeqOnly ==
    /\ tick.phase = "appended"
    /\ room' = [room EXCEPT
          ![tick.room].lastSeq = IF tick.through > @ THEN tick.through ELSE @]
    /\ tick' = [tick EXCEPT !.phase = "settle", !.batch = {}]
    /\ UNCHANGED <<registry, peer, store, process, deleting, faults, restarts>>

\* Room::record_rows, when the answer arrives.
Record ==
    /\ tick.phase = "appended"
    /\ room' = [room EXCEPT ![tick.room] = [Target EXCEPT
          !.lastSeq = IF tick.through > @ THEN tick.through ELSE @,
          !.storedRows = @ + tick.rows]]
    /\ tick' = [tick EXCEPT !.phase = "settle", !.batch = {}]
    /\ UNCHANGED <<registry, peer, store, process, deleting, faults, restarts>>

\* Mutant of AppendFail: what was taken is not put back.
AppendFailDrops ==
    /\ Fault("store")
    /\ tick.phase \in {"append", "appended"}
    /\ GiveUp
    /\ UNCHANGED <<registry, room, peer, store, deleting, restarts>>

\* Room::requeue, when append_batch failed, before or after it committed.
AppendFail ==
    /\ Fault("store")
    /\ tick.phase \in {"append", "appended"}
    /\ room' = [room EXCEPT ![tick.room].pending = tick.batch \cup @]
    /\ GiveUp
    /\ UNCHANGED <<registry, peer, store, deleting, restarts>>

\* Whether the stored rows are due for compaction, in persist and in
\* compact_if_due.
Due == Target.storedRows > 0 /\ (Forced \/ Target.storedRows >= CompactAfter)

\* Room::compact up to its await: the snapshot and last_seq, read together.
Settle ==
    /\ tick.phase = "settle"
    /\ tick' = IF Due
               THEN [tick EXCEPT !.phase = "fold", !.snapshot = Target.doc,
                                 !.through = Target.lastSeq]
               ELSE [tick EXCEPT !.phase = IF Forced THEN "unload" ELSE "report"]
    /\ UNCHANGED <<registry, room, peer, store, process, deleting, faults, restarts>>

\* Store::compact commits: the snapshot replaces the rows it folds.
FoldCommit ==
    /\ tick.phase = "fold"
    /\ store' = [store EXCEPT !.exists = TRUE,
                              !.snapshot = tick.snapshot,
                              !.through = tick.through,
                              !.rows = {row \in @ : row.seq > tick.through}]
    /\ tick' = [tick EXCEPT !.phase = "folded"]
    /\ UNCHANGED <<registry, room, peer, process, deleting, faults, restarts>>

\* Mutant of FoldDone: what is still queued is not counted in the size.
FoldDoneForgetsQueue ==
    /\ tick.phase = "folded"
    /\ room' = [room EXCEPT ![tick.room] = [Target EXCEPT
          !.storedRows = 0,
          !.size = Cardinality(tick.snapshot)]]
    /\ tick' = [tick EXCEPT !.phase = IF Forced THEN "unload" ELSE "report"]
    /\ UNCHANGED <<registry, peer, store, process, deleting, faults, restarts>>

\* Room::compact after its await.
FoldDone ==
    /\ tick.phase = "folded"
    /\ room' = [room EXCEPT ![tick.room] = [Target EXCEPT
          !.storedRows = 0,
          !.size = Cardinality(tick.snapshot) + Cardinality(Target.pending)]]
    /\ tick' = [tick EXCEPT !.phase = IF Forced THEN "unload" ELSE "report"]
    /\ UNCHANGED <<registry, peer, store, process, deleting, faults, restarts>>

\* Store::compact failed, before or after it committed.
FoldFail ==
    /\ Fault("store")
    /\ tick.phase \in {"fold", "folded"}
    /\ GiveUp
    /\ UNCHANGED <<registry, room, peer, store, deleting, restarts>>

\* Room::take_due_changes: the webhook fires if debounce or max_wait passed.
Report ==
    /\ tick.phase = "report"
    /\ \E left \in {{}, Target.changes} :
          room' = [room EXCEPT ![tick.room].changes = left]
    /\ tick' = Resting
    /\ UNCHANGED <<registry, peer, store, process, deleting, faults, restarts>>

\* Room::take_changes, in evict and in finish; a final flush ends here.
TakeChanges ==
    /\ tick.phase = "unload"
    /\ room' = [room EXCEPT ![tick.room].changes = {}]
    /\ IF tick.mode = "final"
       THEN /\ tick' = Resting
            /\ process' = IF process = "failed" THEN "failed" ELSE "flushed"
       ELSE /\ tick' = [tick EXCEPT !.phase = "decide"]
            /\ UNCHANGED process
    /\ UNCHANGED <<registry, peer, store, deleting, faults, restarts>>

\* Mutants of MayUnload: without the Arc::ptr_eq, without is_dirty, or only
\* for a room that was loaded.
MayUnloadAny == ~HasPeers(tick.room) /\ Target.pending = {}
MayUnloadDirty == ~HasPeers(tick.room) /\ registry = tick.room
MayUnloadLoaded ==
    ~HasPeers(tick.room) /\ Target.pending = {} /\ registry = tick.room
    /\ Target.loaded = "yes"

\* The end of Rooms::evict, under the registry lock.
MayUnload == ~HasPeers(tick.room) /\ Target.pending = {} /\ registry = tick.room

Unload ==
    /\ tick.phase = "decide"
    /\ registry' = IF MayUnload THEN NoRoom ELSE registry
    /\ tick' = Resting
    /\ UNCHANGED <<room, peer, store, process, deleting, faults, restarts>>

(***************************************************************************)
(* DELETE, shutdown and restarts.                                          *)
(***************************************************************************)

\* api.rs delete_document: Rooms::discard, then the awaited Store::delete.
Discard ==
    /\ Fault("delete")
    /\ process = "up"
    /\ ~deleting
    /\ registry' = NoRoom
    /\ deleting' = TRUE
    /\ UNCHANGED <<room, peer, tick, store, process, restarts>>

DeleteCommit ==
    /\ deleting
    /\ store' = [NoDocument EXCEPT !.seq = store.seq]
    /\ deleting' = FALSE
    /\ UNCHANGED <<registry, room, peer, tick, process, faults, restarts>>

\* The delete failed: the room is gone, the stored document is not.
DeleteFail ==
    /\ Fault("store")
    /\ deleting
    /\ deleting' = FALSE
    /\ UNCHANGED <<registry, room, peer, tick, store, process, restarts>>

\* server.rs `run`: no more requests; open sockets are asked to close.
Stop ==
    /\ "stop" \in Events
    /\ process = "up"
    /\ process' = "stopping"
    /\ UNCHANGED <<registry, room, peer, tick, store, deleting, faults, restarts>>

\* Rooms::flush_all, once the flush loop ended and the sockets closed or
\* SOCKET_DRAIN passed.
FlushAll ==
    /\ process = "stopping"
    /\ tick.phase = "rest"
    /\ ~deleting
    /\ "linger" \in Events \/ \A s \in Sessions : peer[s] = Out
    /\ IF registry = NoRoom
       THEN /\ process' = "flushed"
            /\ UNCHANGED tick
       ELSE /\ tick' = [Resting EXCEPT !.phase = "take", !.room = registry, !.mode = "final"]
            /\ UNCHANGED process
    /\ UNCHANGED <<registry, room, peer, store, deleting, faults, restarts>>

\* A new process: the memory is gone, the store is not.
Reboot ==
    /\ restarts < MaxRestarts
    /\ restarts' = restarts + 1
    /\ registry' = NoRoom
    /\ room' = [r \in RoomIds |-> NewRoom]
    /\ peer' = [s \in Sessions |-> Out]
    /\ tick' = Resting
    /\ process' = "up"
    /\ deleting' = FALSE
    /\ UNCHANGED <<store, faults>>

Crash == "crash" \in Events /\ Reboot

\* The process exits after its final flush, and is started again.
Exit == process \in {"flushed", "failed"} /\ tick.phase = "rest" /\ Reboot

-----------------------------------------------------------------------------
Session(s) ==
    \/ Join(s) \/ Enter(s) \/ LoadFail(s) \/ Cancel(s) \/ Leave(s)
    \/ \E u \in Updates : Apply(s, u)

Load(r) == LoadSnapshot(r) \/ LoadRows(r)

FlushLoop ==
    \/ TickStart("flush") \/ TickStart("evict")
    \/ Take \/ AppendCommit \/ Record \/ AppendFail
    \/ Settle \/ FoldCommit \/ FoldDone \/ FoldFail
    \/ Report \/ TakeChanges \/ Unload

Delete == Discard \/ DeleteCommit \/ DeleteFail

Server == Stop \/ FlushAll \/ Crash \/ Exit

Next ==
    \/ \E s \in Sessions : Session(s)
    \/ \E r \in RoomIds : Load(r)
    \/ FlushLoop
    \/ Delete
    \/ Server

Spec == Init /\ [][Next]_vars

-----------------------------------------------------------------------------
TypeOK ==
    /\ registry \in RoomIds \cup {NoRoom}
    /\ room \in [RoomIds -> RoomState]
    /\ peer \in [Sessions -> PeerState]
    /\ tick \in Tick
    /\ store \in StoreState
    /\ process \in {"up", "stopping", "flushed", "failed"}
    /\ deleting \in BOOLEAN
    /\ faults \in 0..MaxFaults
    /\ restarts \in 0..MaxRestarts

\* What a peer of the document reads: its room's document, or the stored one
\* when no room has it loaded.
Content ==
    IF registry # NoRoom /\ room[registry].loaded = "yes"
    THEN room[registry].doc
    ELSE Stored

\* Write-behind keeps the promise of DurableDocument: a flush, a compaction,
\* an eviction, a reload or a failed or doubtful store call never loses an
\* accepted update, and a restart loses only what no append had committed
\* (room.rs persist/compact, rooms.rs flush/evict).  Without DELETE.
Durable == INSTANCE DurableDocument WITH content <- Content, durable <- Stored
KeepsItsPromise == Durable!Spec

\* The size a room checks against max_document_bytes never falls below what
\* the document holds, whatever compacts or edits meanwhile (room.rs apply,
\* load_from, compact).
SizeCoversDocument ==
    \A r \in RoomIds :
        room[r].loaded = "yes" => Cardinality(room[r].doc) <= room[r].size

\* Between passes the room's counters are the store's: how many rows wait for
\* compaction and which is the newest, so no compaction is skipped or deletes
\* a row it does not fold (room.rs record_rows, compact).  Until a store call
\* fails or a DELETE interferes.
CountersMatchStore ==
    (registry # NoRoom /\ tick.phase = "rest" /\ faults = 0) =>
        (room[registry].loaded = "yes" =>
            /\ room[registry].storedRows = Cardinality(store.rows)
            /\ room[registry].lastSeq = store.seq
            /\ \A row \in store.rows : row.seq \in store.through + 1 .. store.seq)

\* A registered room is unloaded: not by DELETE and not by a restart.
Evicts == /\ registry # NoRoom
          /\ registry' # registry
          /\ restarts' = restarts
          /\ deleting' = deleting

\* A room is never unloaded under a session that joined it or is joining it,
\* even when the pass that evicts it began before the session came, or was
\* about an earlier room of the document (rooms.rs join, evict).
EvictionSparesPeers == [][Evicts => \A s \in Sessions : peer[s].room # registry]_vars

\* A room is unloaded with nothing left to save and nothing left to report:
\* every change reached the store and a webhook (rooms.rs evict).
EvictionLeavesNothing ==
    [][Evicts => room[registry].pending = {} /\ room[registry].changes = {}]_vars

\* After a graceful shutdown that reports no failure, the store holds the
\* whole document (server.rs run, rooms.rs flush_all).
GracefulExitSavesAll == process = "flushed" => Content \subseteq Stored

-----------------------------------------------------------------------------
(***************************************************************************)
(* Liveness.  The loop ticks for ever and awaits every store call, which   *)
(* answers (WF of each step of a pass, strong where a failure may preempt  *)
(* it); a room without peers is idle long enough at some tick (SF of the   *)
(* eviction); a session that awaits its load is polled.  Peers owe nothing.*)
(***************************************************************************)
PassStep ==
    \/ Take \/ AppendCommit \/ Record \/ Settle \/ FoldCommit \/ FoldDone
    \/ Report \/ TakeChanges \/ Unload

Fairness ==
    /\ WF_vars(PassStep)
    /\ WF_vars(TickStart("flush") \/ TickStart("evict"))
    /\ SF_vars(TickStart("evict"))

FairSpec == Spec /\ Fairness

\* Every queued update reaches the store, however often the store fails
\* before, unless the document is deleted (rooms.rs flush, evict, room.rs
\* requeue).
QueuedIsSaved ==
    \A u \in Updates :
        (registry # NoRoom /\ u \in room[registry].pending) ~> (u \in Stored \/ deleting)

\* A room that stays without sessions is unloaded (rooms.rs tick, evict),
\* unless a request dropped while it waited for the load was never counted out.
IdleRoomsUnload ==
    (\A s \in Sessions : peer[s] = Out) ~>
        \/ registry = NoRoom
        \/ \E s \in Sessions : peer[s] # Out
        \/ room[registry].leaked > 0

-----------------------------------------------------------------------------
(* What a comment, a doc or a test says and the code does not do.          *)

\* GET /v1/documents/{name} is "live from its room when loaded, otherwise
\* from the store" (documents.rs current_state): it never returns less than
\* the store holds.
Exported == IF registry # NoRoom THEN room[registry].doc ELSE Stored
ExportIsComplete == Stored \subseteq Exported

\* DELETE deletes the document "and its history" (store/mod.rs delete) and
\* unloads the room "without persisting it" (rooms.rs discard): only a room
\* opened since brings a document back.
DeletedStaysDeleted == [][~store.exists /\ store'.exists => tick.room = registry]_vars

\* An update a peer was told is saved (hocuspocus.rs SyncStatus) is not
\* dropped by an eviction while it waits in Reorder.
EvictionKeepsHeld == [][Evicts => room[registry].held = {}]_vars
=============================================================================
