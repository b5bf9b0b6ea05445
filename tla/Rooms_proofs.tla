---------------------------- MODULE Rooms_proofs ----------------------------
(***************************************************************************)
(* Type correctness of Rooms, the safety of evictions, and what a room     *)
(* counts (its size, its stored rows, the newest of them), for every value *)
(* of the constants and every kind of trouble.                             *)
(***************************************************************************)
EXTENDS Rooms, TLAPS, FiniteSetTheorems

\* A session that is not out, and the loop in a pass, are about a room.
InUseAreRooms ==
    /\ \A s \in Sessions :
          IF peer[s].at = "out" THEN peer[s] = Out ELSE peer[s].room \in RoomIds
    /\ IF tick.phase = "rest" THEN tick = Resting ELSE tick.room \in RoomIds

\* The type invariant, strengthened to be inductive: rooms in use exist, and the
\* store holds finitely many rows, so that they can be counted.
TypeInv == TypeOK /\ InUseAreRooms /\ IsFiniteSet(store.rows)

\* A set of updates can be counted.
LEMMA Counts ==
    ASSUME NEW S \in SUBSET Updates
    PROVE  Cardinality(S) \in Nat
<1>1. IsFiniteSet(S)
  BY RoomsAssumption, FS_Subset
<1> QED
  BY <1>1, FS_CardinalityType

\* The bytes of stored rows can be counted.
LEMMA RowBytes ==
    ASSUME NEW rows, IsFiniteSet(rows)
    PROVE  Cardinality({p \in rows \X Updates : p[2] \in p[1].payload}) \in Nat
<1> DEFINE B == {p \in rows \X Updates : p[2] \in p[1].payload}
<1>1. IsFiniteSet(rows \X Updates)
  BY RoomsAssumption, FS_Product
<1>2. B \subseteq rows \X Updates
  OBVIOUS
<1>3. IsFiniteSet(B)
  BY <1>1, <1>2, FS_Subset
<1> QED
  BY <1>3, FS_CardinalityType

\* A field of a room, of the loop or of the store is replaced by a value of
\* its type.
LEMMA RoomFields ==
    ASSUME NEW rec \in RoomState
    PROVE  /\ \A x \in {"no", "reading", "yes"} : [rec EXCEPT !.loaded = x] \in RoomState
           /\ \A x \in SUBSET Updates :
                 /\ [rec EXCEPT !.read = x] \in RoomState
                 /\ [rec EXCEPT !.doc = x] \in RoomState
                 /\ [rec EXCEPT !.held = x] \in RoomState
                 /\ [rec EXCEPT !.pending = x] \in RoomState
                 /\ [rec EXCEPT !.changes = x] \in RoomState
           /\ \A x \in Nat :
                 /\ [rec EXCEPT !.readThrough = x] \in RoomState
                 /\ [rec EXCEPT !.storedRows = x] \in RoomState
                 /\ [rec EXCEPT !.lastSeq = x] \in RoomState
                 /\ [rec EXCEPT !.size = x] \in RoomState
                 /\ [rec EXCEPT !.leaked = x] \in RoomState
  BY DEF RoomState

\* Replacing one room by a room keeps the table of rooms typed.
LEMMA RoomChange ==
    ASSUME room \in [RoomIds -> RoomState], NEW r \in RoomIds, NEW new \in RoomState
    PROVE  [room EXCEPT ![r] = new] \in [RoomIds -> RoomState]
  OBVIOUS

\* A field of the loop is replaced by a value of its type.
LEMMA TickFields ==
    ASSUME NEW rec \in Tick
    PROVE  /\ \A x \in {"rest", "take", "append", "appended", "settle", "fold",
                        "folded", "report", "unload", "decide"} :
                 [rec EXCEPT !.phase = x] \in Tick
           /\ \A x \in RoomIds \cup {NoRoom} : [rec EXCEPT !.room = x] \in Tick
           /\ \A x \in {"flush", "evict", "final"} : [rec EXCEPT !.mode = x] \in Tick
           /\ \A x \in SUBSET Updates : /\ [rec EXCEPT !.batch = x] \in Tick
                                        /\ [rec EXCEPT !.snapshot = x] \in Tick
           /\ \A x \in Nat : /\ [rec EXCEPT !.rows = x] \in Tick
                             /\ [rec EXCEPT !.through = x] \in Tick
  BY DEF Tick

\* The resting loop is a state of the loop.
LEMMA RestingType == Resting \in Tick
  BY DEF Resting, Tick

\* The type invariant holds initially.
LEMMA InitType == Init => TypeInv
<1> SUFFICES ASSUME Init PROVE TypeInv
  OBVIOUS
<1>1. room \in [RoomIds -> RoomState]
  <2>1. NewRoom \in RoomState
    BY DEF NewRoom, RoomState
  <2> QED
    BY <2>1 DEF Init
<1>2. peer \in [Sessions -> PeerState]
  <2>1. Out \in PeerState
    BY DEF Out, PeerState
  <2> QED
    BY <2>1 DEF Init
<1>3. tick \in Tick
  BY DEF Init, Tick, Resting
<1>4. store \in StoreState /\ IsFiniteSet(store.rows)
  BY FS_EmptySet DEF Init, NoDocument, StoreState
<1>5. faults \in 0..MaxFaults /\ restarts \in 0..MaxRestarts
  BY RoomsAssumption DEF Init
<1>6. InUseAreRooms
  BY DEF Init, InUseAreRooms, Out, Resting
<1> QED
  BY <1>1, <1>2, <1>3, <1>4, <1>5, <1>6 DEF Init, TypeInv, TypeOK

\* Every step of a session keeps the type invariant.
LEMMA SessionType ==
    ASSUME TypeInv, NEW s \in Sessions, Session(s)
    PROVE  TypeInv'
<1>0. /\ room \in [RoomIds -> RoomState]
      /\ peer \in [Sessions -> PeerState]
      /\ faults \in 0..MaxFaults /\ MaxFaults \in Nat
      /\ peer[s] \in PeerState
      /\ peer[s].at # "out" => peer[s].room \in RoomIds
  BY RoomsAssumption DEF TypeInv, TypeOK, InUseAreRooms
<1>10. Out \in PeerState
  BY DEF Out, PeerState
<1>1. CASE Join(s)
  <2>1. PICK r \in RoomIds :
            /\ IF registry = NoRoom
               THEN registry' = r /\ room' = [room EXCEPT ![r] = NewRoom]
               ELSE UNCHANGED <<registry, room>>
            /\ peer' = [peer EXCEPT ![s] = [at |-> "joining", room |-> r]]
    BY <1>1 DEF Join
  <2>2. NewRoom \in RoomState
    BY DEF NewRoom, RoomState
  <2>3. room' \in [RoomIds -> RoomState] /\ registry' \in RoomIds \cup {NoRoom}
    BY <1>0, <2>1, <2>2 DEF TypeInv, TypeOK
  <2>4. peer' \in [Sessions -> PeerState]
    BY <1>0, <2>1 DEF PeerState
  <2>5. UNCHANGED <<tick, store, process, deleting, faults, restarts>>
    BY <1>1 DEF Join
  <2>6. InUseAreRooms'
    BY <1>0, <2>1, <2>5 DEF TypeInv, InUseAreRooms
  <2> QED
    BY <2>3, <2>4, <2>5, <2>6 DEF TypeInv, TypeOK
<1>2. CASE Enter(s)
  <2>1. /\ peer[s].at # "out"
        /\ peer' = [peer EXCEPT ![s].at = "in"]
        /\ UNCHANGED <<registry, room, tick, store, process, deleting, faults, restarts>>
    BY <1>2 DEF Enter
  <2>2. peer' \in [Sessions -> PeerState] /\ InUseAreRooms'
    BY <1>0, <2>1 DEF PeerState, TypeInv, InUseAreRooms
  <2> QED
    BY <2>1, <2>2 DEF TypeInv, TypeOK
<1>3. CASE LoadFail(s)
  <2>1. /\ room' = [room EXCEPT ![peer[s].room].loaded = "no"]
        /\ peer' = [peer EXCEPT ![s] = Out]
        /\ UNCHANGED <<registry, tick, store, process, deleting, restarts>>
        /\ faults' \in 0..MaxFaults
        /\ peer[s].room \in RoomIds
    BY <1>0, <1>3 DEF LoadFail, Fault
  <2>2. room' \in [RoomIds -> RoomState]
    BY <1>0, <2>1, RoomChange, RoomFields
  <2>3. peer' \in [Sessions -> PeerState] /\ InUseAreRooms'
    BY <1>0, <1>10, <2>1 DEF TypeInv, InUseAreRooms, Out
  <2> QED
    BY <2>1, <2>2, <2>3 DEF TypeInv, TypeOK
<1>4. CASE Cancel(s)
  <2>1. PICK loaded \in {"no"} \cup {room[peer[s].room].loaded : t \in Waiting(s)} :
          room' = [room EXCEPT ![peer[s].room] = [room[peer[s].room] EXCEPT
                !.loaded = loaded, !.leaked = @ + 1]]
    BY <1>4 DEF Cancel
  <2>2. /\ peer' = [peer EXCEPT ![s] = Out]
        /\ UNCHANGED <<registry, tick, store, process, deleting, restarts>>
        /\ faults' \in 0..MaxFaults
        /\ peer[s].room \in RoomIds
    BY <1>0, <1>4 DEF Cancel, Fault
  <2>3. /\ loaded \in {"no", "reading", "yes"}
        /\ room[peer[s].room].leaked + 1 \in Nat
    BY <1>0, <2>1, <2>2 DEF RoomState
  <2>4. [room[peer[s].room] EXCEPT !.loaded = loaded, !.leaked = @ + 1] \in RoomState
    BY <1>0, <2>2, <2>3, RoomFields
  <2>5. room' \in [RoomIds -> RoomState]
    BY <1>0, <2>1, <2>2, <2>4, RoomChange
  <2>6. peer' \in [Sessions -> PeerState] /\ InUseAreRooms'
    BY <1>0, <1>10, <2>2 DEF TypeInv, InUseAreRooms, Out
  <2> QED
    BY <2>2, <2>5, <2>6 DEF TypeInv, TypeOK
<1>5. CASE Leave(s)
  <2>1. /\ peer' = [peer EXCEPT ![s] = Out]
        /\ UNCHANGED <<registry, room, tick, store, process, deleting, faults, restarts>>
    BY <1>5 DEF Leave
  <2>2. peer' \in [Sessions -> PeerState] /\ InUseAreRooms'
    BY <1>0, <1>10, <2>1 DEF TypeInv, InUseAreRooms, Out
  <2> QED
    BY <2>1, <2>2 DEF TypeInv, TypeOK
<1>6. CASE \E u \in Updates : Apply(s, u)
  <2>1. PICK u \in Updates : Apply(s, u)
    BY <1>6
  <2> DEFINE r == peer[s].room
             waiting == room[r].held \cup {u}
             ready == Ready(waiting, room[r].doc)
             delta == ready \ room[r].doc
             new == [room[r] EXCEPT !.held = waiting \ ready,
                                    !.doc = @ \cup delta,
                                    !.size = @ + Cardinality(delta),
                                    !.changes = @ \cup delta,
                                    !.pending = @ \cup delta]
  <2>2. r \in RoomIds /\ room[r] \in RoomState
    BY <1>0, <2>1 DEF Apply
  <2>3. delta \in SUBSET Updates /\ waiting \ ready \in SUBSET Updates
    BY <2>2 DEF Ready, RoomState
  <2>4. Cardinality(delta) \in Nat
    BY <2>3, Counts
  <2>5. /\ room' = [room EXCEPT ![r] = new]
        /\ UNCHANGED <<registry, peer, tick, store, process, deleting, faults, restarts>>
    BY <2>1 DEF Apply
  <2> HIDE DEF waiting, ready, delta
  <2>6. /\ room[r].doc \cup delta \in SUBSET Updates
        /\ room[r].changes \cup delta \in SUBSET Updates
        /\ room[r].pending \cup delta \in SUBSET Updates
        /\ room[r].size + Cardinality(delta) \in Nat
    BY <2>2, <2>3, <2>4 DEF RoomState
  <2>7. new \in RoomState
    BY <2>2, <2>3, <2>6, RoomFields
  <2>8. room' \in [RoomIds -> RoomState]
    BY <1>0, <2>2, <2>5, <2>7, RoomChange
  <2> QED
    BY <2>5, <2>8 DEF TypeInv, TypeOK, InUseAreRooms
<1> QED
  BY <1>1, <1>2, <1>3, <1>4, <1>5, <1>6 DEF Session

\* Every step of a load keeps the type invariant.
LEMMA LoadType ==
    ASSUME TypeInv, NEW r \in RoomIds, Load(r)
    PROVE  TypeInv'
<1>0. /\ room \in [RoomIds -> RoomState] /\ room[r] \in RoomState
      /\ store \in StoreState
  BY DEF TypeInv, TypeOK
<1>1. CASE LoadSnapshot(r)
  <2> DEFINE loaded == IF store.exists THEN "reading" ELSE "yes"
             new == [room[r] EXCEPT !.loaded = loaded, !.read = store.snapshot,
                                    !.readThrough = store.through]
  <2>1. /\ room' = [room EXCEPT ![r] = new]
        /\ UNCHANGED <<registry, peer, tick, store, process, deleting, faults, restarts>>
    BY <1>1 DEF LoadSnapshot
  <2>2. /\ loaded \in {"no", "reading", "yes"}
        /\ store.snapshot \in SUBSET Updates
        /\ store.through \in Nat
    BY <1>0 DEF StoreState
  <2> HIDE DEF loaded
  <2>3. new \in RoomState
    BY <1>0, <2>2, RoomFields
  <2>4. room' \in [RoomIds -> RoomState]
    BY <1>0, <2>1, <2>3, RoomChange
  <2> QED
    BY <2>1, <2>4 DEF TypeInv, TypeOK, InUseAreRooms
<1>2. CASE LoadRows(r)
  <2> DEFINE parts == room[r].read \cup UNION {row.payload : row \in store.rows}
             bytes == {p \in store.rows \X Updates : p[2] \in p[1].payload}
             seqs == IF store.rows = {} THEN {room[r].readThrough}
                     ELSE {row.seq : row \in store.rows}
             new(last) == [room[r] EXCEPT
                 !.loaded = "yes",
                 !.doc = Ready(parts, {}),
                 !.held = parts \ Ready(parts, {}),
                 !.storedRows = Cardinality(store.rows),
                 !.lastSeq = last,
                 !.size = Cardinality(room[r].read) + Cardinality(bytes)]
  <2>1. parts \in SUBSET Updates /\ seqs \in SUBSET Nat
    BY <1>0 DEF RoomState, StoreState, Row
  <2>2. PICK last \in seqs : room' = [room EXCEPT ![r] = new(last)]
    BY <1>2 DEF LoadRows
  <2>3. /\ Ready(parts, {}) \in SUBSET Updates
        /\ parts \ Ready(parts, {}) \in SUBSET Updates
    BY <2>1 DEF Ready
  <2>4. /\ Cardinality(store.rows) \in Nat
        /\ Cardinality(room[r].read) + Cardinality(bytes) \in Nat
    <3>1. Cardinality(store.rows) \in Nat
      BY FS_CardinalityType DEF TypeInv
    <3>2. Cardinality(bytes) \in Nat
      BY RowBytes DEF TypeInv
    <3>3. Cardinality(room[r].read) \in Nat
      BY <1>0, Counts DEF RoomState
    <3> QED
      BY <3>1, <3>2, <3>3
  <2> HIDE DEF parts, bytes, seqs
  <2>5. new(last) \in RoomState
    BY <1>0, <2>1, <2>2, <2>3, <2>4, RoomFields
  <2>6. room' \in [RoomIds -> RoomState]
    BY <1>0, <2>2, <2>5, RoomChange
  <2>7. UNCHANGED <<registry, peer, tick, store, process, deleting, faults, restarts>>
    BY <1>2 DEF LoadRows
  <2> QED
    BY <2>6, <2>7 DEF TypeInv, TypeOK, InUseAreRooms
<1> QED
  BY <1>1, <1>2 DEF Load

\* Giving a pass up leaves the loop typed, in a room or at rest.
LEMMA GiveUpType ==
    ASSUME tick \in Tick, tick.phase # "rest", tick.room \in RoomIds, GiveUp,
           process \in {"up", "stopping", "flushed", "failed"}
    PROVE  /\ tick' \in Tick
           /\ process' \in {"up", "stopping", "flushed", "failed"}
           /\ IF tick'.phase = "rest" THEN tick' = Resting ELSE tick'.room \in RoomIds
<1>1. tick.mode \in {"flush", "evict", "final"}
  BY DEF Tick
<1>2. CASE tick.mode = "evict"
  <2>1. tick' = Resting
    BY <1>2 DEF GiveUp
  <2>2. process' = process
    BY <1>2 DEF GiveUp
  <2>3. Resting.phase = "rest"
    BY DEF Resting
  <2> QED
    BY <2>1, <2>2, <2>3, RestingType
<1>3. CASE tick.mode \in {"flush", "final"}
  <2>1. PICK phase \in {"report", "unload"} :
            tick' = [tick EXCEPT !.phase = phase, !.batch = {}]
    BY <1>3 DEF GiveUp
  <2>2. tick' \in Tick
    BY <2>1, TickFields
  <2>3. tick'.phase # "rest" /\ tick'.room = tick.room
    BY <2>1 DEF Tick
  <2> QED
    BY <2>2, <2>3 DEF GiveUp
<1> QED
  BY <1>1, <1>2, <1>3

\* Every step of the flush loop keeps the type invariant.
LEMMA FlushLoopType ==
    ASSUME TypeInv, FlushLoop
    PROVE  TypeInv'
<1>0. /\ room \in [RoomIds -> RoomState]
      /\ tick \in Tick
      /\ store \in StoreState
      /\ IsFiniteSet(store.rows)
      /\ process \in {"up", "stopping", "flushed", "failed"}
      /\ registry \in RoomIds \cup {NoRoom}
      /\ faults \in 0..MaxFaults /\ MaxFaults \in Nat
      /\ tick.phase # "rest" => tick.room \in RoomIds /\ Target \in RoomState
  BY RoomsAssumption DEF TypeInv, TypeOK, InUseAreRooms, Target
<1>1. ASSUME NEW mode \in {"flush", "evict"}, TickStart(mode)
      PROVE  TypeInv'
  <2>1. /\ tick' = [Resting EXCEPT !.phase = "take", !.room = registry, !.mode = mode]
        /\ registry \in RoomIds
        /\ UNCHANGED <<registry, room, peer, store, process, deleting, faults, restarts>>
    BY <1>0, <1>1 DEF TickStart
  <2>2. tick' \in Tick /\ InUseAreRooms'
    <3>1. tick' \in Tick
      BY <2>1, RestingType, TickFields
    <3> QED
      BY <2>1, <3>1 DEF TypeInv, InUseAreRooms, Resting
  <2> QED
    BY <2>1, <2>2 DEF TypeInv, TypeOK
<1>2. CASE Take
  <2> DEFINE next == IF Target.pending # {} THEN "append"
                     ELSE IF Forced THEN "settle" ELSE "report"
  <2>1. /\ tick' = [tick EXCEPT !.batch = Target.pending, !.phase = next]
        /\ room' = [room EXCEPT ![tick.room].pending = {}]
        /\ UNCHANGED <<registry, peer, store, process, deleting, faults, restarts>>
        /\ tick.room \in RoomIds /\ Target \in RoomState
        /\ Target = room[tick.room]
    BY <1>0, <1>2 DEF Take, Target
  <2>2. next \in {"append", "settle", "report"} /\ Target.pending \in SUBSET Updates
    BY <2>1 DEF RoomState
  <2> HIDE DEF next
  <2>3. tick' \in Tick
    BY <1>0, <2>1, <2>2, TickFields
  <2>4. room' \in [RoomIds -> RoomState]
    BY <1>0, <2>1, RoomChange, RoomFields
  <2>5. tick'.phase # "rest" /\ tick'.room = tick.room
    BY <1>0, <2>1, <2>2 DEF Tick
  <2> QED
    BY <2>1, <2>3, <2>4, <2>5 DEF TypeInv, TypeOK, InUseAreRooms
<1>3. CASE AppendCommit
  <2> DEFINE commit(count, chunk) ==
          LET payload == [i \in 1..count |-> {u \in tick.batch : chunk[u] = i}]
              rows == {[seq |-> store.seq + i, payload |-> payload[i]] : i \in 1..count}
          IN /\ store' = [store EXCEPT !.exists = TRUE, !.rows = @ \cup rows,
                                       !.seq = @ + count]
             /\ tick' = [tick EXCEPT !.phase = "appended", !.rows = count,
                                     !.through = store.seq + count]
  <2>0. PICK count \in 1..Cardinality(tick.batch) :
            \E chunk \in Surjection(tick.batch, 1..count) : commit(count, chunk)
    BY <1>3 DEF AppendCommit
  <2>1. PICK chunk \in Surjection(tick.batch, 1..count) : commit(count, chunk)
    BY <2>0
  <2> DEFINE payload == [i \in 1..count |-> {u \in tick.batch : chunk[u] = i}]
             rows == {[seq |-> store.seq + i, payload |-> payload[i]] : i \in 1..count}
             all == store.rows \cup rows
  <2>2. /\ tick.phase = "append" /\ tick.room \in RoomIds
        /\ UNCHANGED <<registry, room, peer, process, deleting, faults, restarts>>
    BY <1>0, <1>3 DEF AppendCommit
  <2>3. tick.batch \in SUBSET Updates /\ store.seq \in Nat /\ store.rows \in SUBSET Row
    BY <1>0 DEF Tick, StoreState
  <2>4. count \in Nat /\ store.seq + count \in Nat
    BY <2>1, <2>3, Counts
  <2>5. \A i \in 1..count : [seq |-> store.seq + i, payload |-> payload[i]] \in Row
    BY <2>3, <2>4 DEF Row
  <2>6. IsFiniteSet(all) /\ all \in SUBSET Row
    <3> DEFINE f == [i \in 1..count |-> [seq |-> store.seq + i, payload |-> payload[i]]]
    <3> HIDE DEF payload
    <3>1. f \in Surjection(1..count, rows)
      BY DEF Surjection
    <3>2. IsFiniteSet(1..count)
      BY <2>4, FS_Interval
    <3> HIDE DEF f, rows
    <3>3. IsFiniteSet(rows)
      BY <3>1, <3>2, FS_Surjection
    <3>4. IsFiniteSet(all)
      BY <1>0, <3>3, FS_Union
    <3> USE DEF rows
    <3>5. all \in SUBSET Row
      BY <2>3, <2>5
    <3> QED
      BY <3>4, <3>5
  <2>7. /\ store' = [store EXCEPT !.exists = TRUE, !.rows = all, !.seq = @ + count]
        /\ tick' = [tick EXCEPT !.phase = "appended", !.rows = count,
                                !.through = store.seq + count]
    BY <2>1
  <2> HIDE DEF all
  <2>8. store' \in StoreState /\ store'.rows = all
    BY <1>0, <2>4, <2>6, <2>7 DEF StoreState
  <2>9. tick' \in Tick
    BY <1>0, <2>4, <2>7, TickFields
  <2>10. tick'.phase # "rest" /\ tick'.room = tick.room
    BY <1>0, <2>7 DEF Tick
  <2> QED
    BY <2>2, <2>6, <2>8, <2>9, <2>10 DEF TypeInv, TypeOK, InUseAreRooms
<1>4. CASE Record
  <2> DEFINE last == IF tick.through > Target.lastSeq THEN tick.through ELSE Target.lastSeq
             new == [Target EXCEPT !.lastSeq = last, !.storedRows = @ + tick.rows]
  <2>1. /\ room' = [room EXCEPT ![tick.room] = new]
        /\ tick' = [tick EXCEPT !.phase = "settle", !.batch = {}]
        /\ UNCHANGED <<registry, peer, store, process, deleting, faults, restarts>>
        /\ tick.room \in RoomIds /\ Target \in RoomState
    BY <1>0, <1>4 DEF Record
  <2>2. last \in Nat /\ Target.storedRows + tick.rows \in Nat
    BY <1>0, <2>1 DEF RoomState, Tick
  <2> HIDE DEF last
  <2>3. new \in RoomState
    BY <2>1, <2>2, RoomFields
  <2>4. room' \in [RoomIds -> RoomState]
    BY <1>0, <2>1, <2>3, RoomChange
  <2>5. tick' \in Tick
    BY <1>0, <2>1, TickFields
  <2>6. tick'.phase # "rest" /\ tick'.room = tick.room
    BY <1>0, <2>1 DEF Tick
  <2> QED
    BY <2>1, <2>4, <2>5, <2>6 DEF TypeInv, TypeOK, InUseAreRooms
<1>5. CASE AppendFail
  <2>1. /\ room' = [room EXCEPT ![tick.room].pending = tick.batch \cup @]
        /\ GiveUp
        /\ UNCHANGED <<registry, peer, store, deleting, restarts>>
        /\ faults' \in 0..MaxFaults
        /\ tick.phase # "rest" /\ tick.room \in RoomIds /\ Target \in RoomState
        /\ Target = room[tick.room]
    BY <1>0, <1>5 DEF AppendFail, Fault, Target
  <2>2. tick.batch \cup room[tick.room].pending \in SUBSET Updates
    BY <1>0, <2>1 DEF Tick, RoomState
  <2>3. room' \in [RoomIds -> RoomState]
    BY <1>0, <2>1, <2>2, RoomChange, RoomFields
  <2>4. /\ tick' \in Tick
        /\ process' \in {"up", "stopping", "flushed", "failed"}
        /\ IF tick'.phase = "rest" THEN tick' = Resting ELSE tick'.room \in RoomIds
    BY <1>0, <2>1, GiveUpType
  <2> QED
    BY <2>1, <2>3, <2>4 DEF TypeInv, TypeOK, InUseAreRooms
<1>6. CASE Settle
  <2> DEFINE next == IF Forced THEN "unload" ELSE "report"
  <2>1. /\ tick' = IF Due
                   THEN [tick EXCEPT !.phase = "fold", !.snapshot = Target.doc,
                                     !.through = Target.lastSeq]
                   ELSE [tick EXCEPT !.phase = next]
        /\ UNCHANGED <<registry, room, peer, store, process, deleting, faults, restarts>>
        /\ tick.room \in RoomIds /\ Target \in RoomState
    BY <1>0, <1>6 DEF Settle
  <2>2. Target.doc \in SUBSET Updates /\ Target.lastSeq \in Nat
    BY <2>1 DEF RoomState
  <2>3. next \in {"unload", "report"}
    OBVIOUS
  <2> HIDE DEF next
  <2>4. tick' \in Tick
    BY <1>0, <2>1, <2>2, <2>3, TickFields
  <2>5. tick'.phase # "rest" /\ tick'.room = tick.room
    BY <1>0, <2>1, <2>3 DEF Tick
  <2> QED
    BY <2>1, <2>4, <2>5 DEF TypeInv, TypeOK, InUseAreRooms
<1>7. CASE FoldCommit
  <2> DEFINE rest == {row \in store.rows : row.seq > tick.through}
  <2>1. /\ store' = [store EXCEPT !.exists = TRUE, !.snapshot = tick.snapshot,
                                  !.through = tick.through, !.rows = rest]
        /\ tick' = [tick EXCEPT !.phase = "folded"]
        /\ UNCHANGED <<registry, room, peer, process, deleting, faults, restarts>>
        /\ tick.room \in RoomIds
    BY <1>0, <1>7 DEF FoldCommit
  <2>2. rest \in SUBSET Row /\ IsFiniteSet(rest)
    BY <1>0, FS_Subset DEF StoreState
  <2>3. tick.snapshot \in SUBSET Updates /\ tick.through \in Nat
    BY <1>0 DEF Tick
  <2> HIDE DEF rest
  <2>4. store' \in StoreState /\ store'.rows = rest
    BY <1>0, <2>1, <2>2, <2>3 DEF StoreState
  <2>5. tick' \in Tick
    BY <1>0, <2>1, TickFields
  <2>6. tick'.phase # "rest" /\ tick'.room = tick.room
    BY <1>0, <2>1 DEF Tick
  <2> QED
    BY <2>1, <2>2, <2>4, <2>5, <2>6 DEF TypeInv, TypeOK, InUseAreRooms
<1>8. CASE FoldDone
  <2> DEFINE size == Cardinality(tick.snapshot) + Cardinality(Target.pending)
             next == IF Forced THEN "unload" ELSE "report"
             new == [Target EXCEPT !.storedRows = 0, !.size = size]
  <2>1. /\ room' = [room EXCEPT ![tick.room] = new]
        /\ tick' = [tick EXCEPT !.phase = next]
        /\ UNCHANGED <<registry, peer, store, process, deleting, faults, restarts>>
        /\ tick.room \in RoomIds /\ Target \in RoomState
    BY <1>0, <1>8 DEF FoldDone
  <2>2. size \in Nat
    <3>1. tick.snapshot \in SUBSET Updates /\ Target.pending \in SUBSET Updates
      BY <1>0, <2>1 DEF Tick, RoomState
    <3>2. Cardinality(tick.snapshot) \in Nat /\ Cardinality(Target.pending) \in Nat
      BY <3>1, Counts
    <3> QED
      BY <3>2
  <2>3. next \in {"unload", "report"}
    OBVIOUS
  <2> HIDE DEF size, next
  <2>4. new \in RoomState
    BY <2>1, <2>2, RoomFields
  <2>5. room' \in [RoomIds -> RoomState]
    BY <1>0, <2>1, <2>4, RoomChange
  <2>6. tick' \in Tick
    BY <1>0, <2>1, <2>3, TickFields
  <2>7. tick'.phase # "rest" /\ tick'.room = tick.room
    BY <1>0, <2>1, <2>3 DEF Tick
  <2> QED
    BY <2>1, <2>5, <2>6, <2>7 DEF TypeInv, TypeOK, InUseAreRooms
<1>9. CASE FoldFail
  <2>1. /\ GiveUp
        /\ UNCHANGED <<registry, room, peer, store, deleting, restarts>>
        /\ faults' \in 0..MaxFaults
        /\ tick.phase # "rest" /\ tick.room \in RoomIds
    BY <1>0, <1>9 DEF FoldFail, Fault
  <2>2. /\ tick' \in Tick
        /\ process' \in {"up", "stopping", "flushed", "failed"}
        /\ IF tick'.phase = "rest" THEN tick' = Resting ELSE tick'.room \in RoomIds
    BY <1>0, <2>1, GiveUpType
  <2> QED
    BY <2>1, <2>2 DEF TypeInv, TypeOK, InUseAreRooms
<1>10. CASE Report
  <2>1. PICK left \in {{}, Target.changes} :
            room' = [room EXCEPT ![tick.room].changes = left]
    BY <1>10 DEF Report
  <2>2. /\ tick' = Resting
        /\ UNCHANGED <<registry, peer, store, process, deleting, faults, restarts>>
        /\ tick.room \in RoomIds /\ Target \in RoomState
        /\ Target = room[tick.room]
    BY <1>0, <1>10 DEF Report, Target
  <2>3. left \in SUBSET Updates
    BY <2>2 DEF RoomState
  <2>4. room' \in [RoomIds -> RoomState]
    BY <1>0, <2>1, <2>2, <2>3, RoomChange, RoomFields
  <2>5. InUseAreRooms'
    BY <2>2 DEF TypeInv, InUseAreRooms, Resting
  <2> QED
    BY <2>2, <2>4, <2>5, RestingType DEF TypeInv, TypeOK
<1>11. CASE TakeChanges
  <2>1. /\ room' = [room EXCEPT ![tick.room].changes = {}]
        /\ UNCHANGED <<registry, peer, store, deleting, faults, restarts>>
        /\ tick.room \in RoomIds /\ Target \in RoomState
        /\ Target = room[tick.room]
    BY <1>0, <1>11 DEF TakeChanges, Target
  <2>2. room' \in [RoomIds -> RoomState]
    BY <1>0, <2>1, RoomChange, RoomFields
  <2>3. /\ tick' = Resting \/ tick' = [tick EXCEPT !.phase = "decide"]
        /\ process' \in {"up", "stopping", "flushed", "failed"}
    BY <1>0, <1>11 DEF TakeChanges
  <2>4. tick' \in Tick
    BY <1>0, <2>3, RestingType, TickFields
  <2>5. IF tick'.phase = "rest" THEN tick' = Resting ELSE tick'.room \in RoomIds
    BY <1>0, <2>1, <2>3 DEF Tick, Resting
  <2> QED
    BY <2>1, <2>2, <2>3, <2>4, <2>5 DEF TypeInv, TypeOK, InUseAreRooms
<1>12. CASE Unload
  <2>1. /\ registry' \in RoomIds \cup {NoRoom}
        /\ tick' = Resting
        /\ UNCHANGED <<room, peer, store, process, deleting, faults, restarts>>
    BY <1>0, <1>12 DEF Unload
  <2>2. InUseAreRooms'
    BY <2>1 DEF TypeInv, InUseAreRooms, Resting
  <2> QED
    BY <2>1, <2>2, RestingType DEF TypeInv, TypeOK
<1> QED
  BY <1>1, <1>2, <1>3, <1>4, <1>5, <1>6, <1>7, <1>8, <1>9, <1>10, <1>11, <1>12 DEF FlushLoop

\* Every step of a DELETE keeps the type invariant.
LEMMA DeleteType ==
    ASSUME TypeInv, Delete
    PROVE  TypeInv'
<1>0. /\ store \in StoreState
      /\ faults \in 0..MaxFaults /\ MaxFaults \in Nat
  BY RoomsAssumption DEF TypeInv, TypeOK
<1>1. CASE Discard
  <2>1. /\ registry' = NoRoom /\ deleting' = TRUE /\ faults' \in 0..MaxFaults
        /\ UNCHANGED <<room, peer, tick, store, process, restarts>>
    BY <1>0, <1>1 DEF Discard, Fault
  <2> QED
    BY <2>1 DEF TypeInv, TypeOK, InUseAreRooms
<1>2. CASE DeleteCommit
  <2>1. /\ store' = [NoDocument EXCEPT !.seq = store.seq] /\ deleting' = FALSE
        /\ UNCHANGED <<registry, room, peer, tick, process, faults, restarts>>
    BY <1>2 DEF DeleteCommit
  <2>2. store' \in StoreState /\ store'.rows = {}
    BY <1>0, <2>1 DEF StoreState, NoDocument
  <2> QED
    BY <2>1, <2>2, FS_EmptySet DEF TypeInv, TypeOK, InUseAreRooms
<1>3. CASE DeleteFail
  <2>1. /\ deleting' = FALSE /\ faults' \in 0..MaxFaults
        /\ UNCHANGED <<registry, room, peer, tick, store, process, restarts>>
    BY <1>0, <1>3 DEF DeleteFail, Fault
  <2> QED
    BY <2>1 DEF TypeInv, TypeOK, InUseAreRooms
<1> QED
  BY <1>1, <1>2, <1>3 DEF Delete

\* Every step of the process keeps the type invariant.
LEMMA ServerType ==
    ASSUME TypeInv, Server
    PROVE  TypeInv'
<1>1. CASE Stop
  <2>1. /\ process' = "stopping"
        /\ UNCHANGED <<registry, room, peer, tick, store, deleting, faults, restarts>>
    BY <1>1 DEF Stop
  <2> QED
    BY <2>1 DEF TypeInv, TypeOK, InUseAreRooms
<1>2. CASE FlushAll
  <2>1. /\ tick.phase = "rest"
        /\ UNCHANGED <<registry, room, peer, store, deleting, faults, restarts>>
        /\ registry \in RoomIds \cup {NoRoom}
        /\ process \in {"up", "stopping", "flushed", "failed"}
        /\ tick = Resting /\ tick \in Tick
    BY <1>2 DEF FlushAll, TypeInv, TypeOK, InUseAreRooms
  <2>2. CASE registry = NoRoom
    <3>1. process' = "flushed" /\ tick' = tick
      BY <1>2, <2>2 DEF FlushAll
    <3> QED
      BY <2>1, <3>1 DEF TypeInv, TypeOK, InUseAreRooms
  <2>3. CASE registry # NoRoom
    <3>1. /\ tick' = [Resting EXCEPT !.phase = "take", !.room = registry, !.mode = "final"]
          /\ process' = process
      BY <1>2, <2>3 DEF FlushAll
    <3>2. tick' \in Tick
      BY <2>1, <3>1, RestingType, TickFields
    <3>3. tick'.phase # "rest" /\ tick'.room \in RoomIds
      BY <2>1, <2>3, <3>1 DEF Resting
    <3> QED
      BY <2>1, <3>1, <3>2, <3>3 DEF TypeInv, TypeOK, InUseAreRooms
  <2> QED
    BY <2>2, <2>3
<1>3. CASE Reboot
  <2>1. /\ registry' = NoRoom /\ tick' = Resting /\ process' = "up" /\ deleting' = FALSE
        /\ peer' = [s \in Sessions |-> Out]
        /\ room' = [r \in RoomIds |-> NewRoom]
        /\ UNCHANGED <<store, faults>>
    BY <1>3 DEF Reboot
  <2>2. restarts' \in 0..MaxRestarts
    BY <1>3, RoomsAssumption DEF Reboot, TypeInv, TypeOK
  <2>3. NewRoom \in RoomState /\ Out \in PeerState
    BY DEF NewRoom, RoomState, Out, PeerState
  <2>4. room' \in [RoomIds -> RoomState] /\ peer' \in [Sessions -> PeerState]
    BY <2>1, <2>3
  <2>5. InUseAreRooms'
    BY <2>1 DEF InUseAreRooms, Out, Resting
  <2> QED
    BY <2>1, <2>2, <2>4, <2>5, RestingType DEF TypeInv, TypeOK
<1> QED
  BY <1>1, <1>2, <1>3 DEF Server, Crash, Exit

\* The strengthened type invariant is one.
LEMMA TypeInvariant == Spec => []TypeInv
<1>1. TypeInv /\ [Next]_vars => TypeInv'
  <2>1. TypeInv /\ UNCHANGED vars => TypeInv'
    BY DEF vars, TypeInv, TypeOK, InUseAreRooms
  <2> QED
    BY <2>1, SessionType, LoadType, FlushLoopType, DeleteType, ServerType DEF Next
<1> QED
  BY <1>1, InitType, PTL DEF Spec

\* Every variable keeps its type, whatever fails and however often: in
\* particular a room's counters of stored rows and bytes never go below zero
\* (room.rs record_rows, compact).
THEOREM TypeCorrect == Spec => []TypeOK
<1>1. TypeInv => TypeOK
  BY DEF TypeInv
<1> QED
  BY <1>1, TypeInvariant, PTL

-----------------------------------------------------------------------------
(* Evictions. *)

\* When the loop is about to decide, what it has to report it has to save too.
Reported == tick.phase = "decide" => Target.changes \subseteq Target.pending

\* Only the end of Rooms::evict unloads a room, and only when it may.
LEMMA EvictsUnloads ==
    ASSUME TypeInv, [Next]_vars, Evicts
    PROVE  /\ Unload /\ MayUnload
<1>1. /\ registry # NoRoom /\ registry' # registry
      /\ restarts' = restarts /\ deleting' = deleting
      /\ restarts \in Int /\ deleting \in BOOLEAN
  BY RoomsAssumption DEF Evicts, TypeInv, TypeOK
<1>2. ~ UNCHANGED vars
  BY <1>1 DEF vars
<1>3. ASSUME NEW s \in Sessions, Session(s) PROVE FALSE
  BY <1>1, <1>3 DEF Session, Join, Enter, LoadFail, Cancel, Leave, Apply
<1>4. ASSUME NEW r \in RoomIds, Load(r) PROVE FALSE
  BY <1>1, <1>4 DEF Load, LoadSnapshot, LoadRows
<1>5. ASSUME Delete PROVE FALSE
  <2>1. CASE Discard
    BY <1>1, <2>1 DEF Discard
  <2>2. CASE DeleteCommit \/ DeleteFail
    BY <1>1, <2>2 DEF DeleteCommit, DeleteFail
  <2> QED
    BY <1>5, <2>1, <2>2 DEF Delete
<1>6. ASSUME Server PROVE FALSE
  <2>1. CASE Stop \/ FlushAll
    BY <1>1, <2>1 DEF Stop, FlushAll
  <2>2. CASE Reboot
    BY <1>1, <2>2 DEF Reboot
  <2> QED
    BY <1>6, <2>1, <2>2 DEF Server, Crash, Exit
<1>7. ASSUME FlushLoop, ~Unload PROVE FALSE
  BY <1>1, <1>7 DEF FlushLoop, TickStart, Take, AppendCommit, Record, AppendFail, Settle,
     FoldCommit, FoldDone, FoldFail, Report, TakeChanges
<1>8. Unload
  BY <1>2, <1>3, <1>4, <1>5, <1>6, <1>7 DEF Next
<1> QED
  BY <1>1, <1>8 DEF Unload

\* For any number of sessions, rooms and updates, and whatever fails: no room is
\* unloaded under a session that joined it or is joining it (rooms.rs evict).
THEOREM EvictionSparesPeersTheorem == Spec => EvictionSparesPeers
<1>1. TypeInv /\ [Next]_vars => [Evicts => \A s \in Sessions : peer[s].room # registry]_vars
  <2> SUFFICES ASSUME TypeInv, [Next]_vars, Evicts
               PROVE  \A s \in Sessions : peer[s].room # registry
    OBVIOUS
  <2> QED
    BY EvictsUnloads DEF MayUnload, HasPeers
<1> QED
  BY <1>1, TypeInvariant, PTL DEF Spec, EvictionSparesPeers

\* Between take_changes and the decision, what the room still has to report is
\* also still to be saved: an edit that arrives meanwhile joins both queues.
LEMMA ReportedStep ==
    ASSUME TypeInv, Reported, [Next]_vars
    PROVE  Reported'
<1> SUFFICES ASSUME tick'.phase = "decide"
             PROVE  Target'.changes \subseteq Target'.pending
  BY DEF Reported
<1>0. /\ room \in [RoomIds -> RoomState]
      /\ tick \in Tick
      /\ tick.phase = "decide" => tick.room \in RoomIds
  BY DEF TypeInv, TypeOK, InUseAreRooms
<1>1. ASSUME UNCHANGED tick, tick.room \in RoomIds => UNCHANGED room[tick.room]
      PROVE  Target'.changes \subseteq Target'.pending
  BY <1>0, <1>1 DEF Reported, Target
<1>2. ASSUME UNCHANGED tick,
             /\ UNCHANGED room[tick.room].changes
             /\ UNCHANGED room[tick.room].pending
      PROVE  Target'.changes \subseteq Target'.pending
  BY <1>0, <1>2 DEF Reported, Target
<1>3. ASSUME NEW s \in Sessions, Session(s)
      PROVE  Target'.changes \subseteq Target'.pending
  <2>0. UNCHANGED tick
    BY <1>3 DEF Session, Join, Enter, LoadFail, Cancel, Leave, Apply
  <2>1. CASE Join(s)
    BY <1>0, <1>1, <2>0, <2>1 DEF Join, InUse
  <2>2. CASE Enter(s) \/ Leave(s)
    BY <1>0, <1>1, <2>0, <2>2 DEF Enter, Leave
  <2>3. CASE LoadFail(s)
    BY <1>0, <1>2, <2>0, <2>3 DEF LoadFail, RoomState
  <2>4. CASE Cancel(s)
    BY <1>0, <1>2, <2>0, <2>4 DEF Cancel, RoomState
  <2>5. CASE \E u \in Updates : Apply(s, u)
    <3>1. PICK u \in Updates : Apply(s, u)
      BY <2>5
    <3> DEFINE r == peer[s].room
               waiting == room[r].held \cup {u}
               ready == Ready(waiting, room[r].doc)
               delta == ready \ room[r].doc
    <3>2. /\ room' = [room EXCEPT ![r] = [room[r] EXCEPT
                !.held = waiting \ ready,
                !.doc = @ \cup delta,
                !.size = @ + Cardinality(delta),
                !.changes = @ \cup delta,
                !.pending = @ \cup delta]]
      BY <3>1 DEF Apply
    <3> HIDE DEF waiting, ready, delta
    <3>3. tick.room \in RoomIds
      BY <1>0, <2>0
    <3>4. CASE r = tick.room
      <4>1. /\ room'[tick.room].changes = room[tick.room].changes \cup delta
            /\ room'[tick.room].pending = room[tick.room].pending \cup delta
        BY <1>0, <3>2, <3>3, <3>4 DEF RoomState
      <4> QED
        BY <2>0, <4>1 DEF Reported, Target
    <3>5. CASE r # tick.room
      BY <1>0, <1>1, <2>0, <3>2, <3>3, <3>5
    <3> QED
      BY <3>4, <3>5
  <2> QED
    BY <1>3, <2>1, <2>2, <2>3, <2>4, <2>5 DEF Session
<1>4. ASSUME NEW r \in RoomIds, Load(r)
      PROVE  Target'.changes \subseteq Target'.pending
  <2>1. CASE LoadSnapshot(r)
    BY <1>0, <1>2, <2>1 DEF LoadSnapshot, RoomState
  <2>2. CASE LoadRows(r)
    BY <1>0, <1>2, <2>2 DEF LoadRows, RoomState
  <2> QED
    BY <1>4, <2>1, <2>2 DEF Load
<1>5. ASSUME FlushLoop
      PROVE  Target'.changes \subseteq Target'.pending
  <2>1. ASSUME NEW mode \in {"flush", "evict"}, TickStart(mode) PROVE FALSE
    BY <2>1 DEF TickStart, Resting
  <2>2. CASE Take
    BY <1>0, <2>2 DEF Take, Tick
  <2>3. CASE AppendCommit
    BY <1>0, <2>3 DEF AppendCommit, Tick
  <2>4. CASE Record
    BY <1>0, <2>4 DEF Record, Tick
  <2>5. CASE AppendFail \/ FoldFail
    <3>1. tick.mode \in {"flush", "evict", "final"} /\ GiveUp
      BY <1>0, <2>5 DEF AppendFail, FoldFail, Tick
    <3> QED
      BY <1>0, <3>1 DEF GiveUp, Tick, Resting
  <2>6. CASE Settle
    BY <1>0, <2>6 DEF Settle, Tick
  <2>7. CASE FoldCommit
    BY <1>0, <2>7 DEF FoldCommit, Tick
  <2>8. CASE FoldDone
    BY <1>0, <2>8 DEF FoldDone, Tick
  <2>9. CASE Report \/ Unload
    BY <2>9 DEF Report, Unload, Resting
  <2>10. CASE TakeChanges
    <3>1. /\ tick.phase = "unload"
          /\ tick' = Resting \/ tick' = [tick EXCEPT !.phase = "decide"]
          /\ room' = [room EXCEPT ![tick.room].changes = {}]
      BY <2>10 DEF TakeChanges
    <3>2. tick'.room = tick.room /\ tick.room \in RoomIds
      BY <1>0, <3>1 DEF Tick, Resting, TypeInv, InUseAreRooms
    <3>3. room'[tick.room].changes = {}
      BY <1>0, <3>1, <3>2 DEF RoomState
    <3> QED
      BY <3>2, <3>3 DEF Target
  <2> QED
    BY <1>5, <2>1, <2>2, <2>3, <2>4, <2>5, <2>6, <2>7, <2>8, <2>9, <2>10 DEF FlushLoop
<1>6. ASSUME Delete
      PROVE  Target'.changes \subseteq Target'.pending
  BY <1>1, <1>6 DEF Delete, Discard, DeleteCommit, DeleteFail
<1>7. ASSUME Server
      PROVE  Target'.changes \subseteq Target'.pending
  <2>1. CASE Stop
    BY <1>1, <2>1 DEF Stop
  <2>2. CASE FlushAll
    BY <1>1, <2>2 DEF FlushAll, Resting
  <2>3. CASE Reboot
    BY <2>3 DEF Reboot, Resting
  <2> QED
    BY <1>7, <2>1, <2>2, <2>3 DEF Server, Crash, Exit
<1>8. CASE UNCHANGED vars
  BY <1>1, <1>8 DEF vars
<1> QED
  BY <1>3, <1>4, <1>5, <1>6, <1>7, <1>8 DEF Next

\* Likewise, a room is unloaded only when it has nothing left to save and
\* nothing left to report to a webhook (rooms.rs evict).
THEOREM EvictionLeavesNothingTheorem == Spec => EvictionLeavesNothing
<1>1. Init => Reported
  BY DEF Init, Reported, Resting
<1>2. TypeInv /\ Reported /\ [Next]_vars =>
        [Evicts => room[registry].pending = {} /\ room[registry].changes = {}]_vars
  <2> SUFFICES ASSUME TypeInv, Reported, [Next]_vars, Evicts
               PROVE  room[registry].pending = {} /\ room[registry].changes = {}
    OBVIOUS
  <2> QED
    BY EvictsUnloads DEF Unload, MayUnload, Reported, Target
<1> QED
  BY <1>1, <1>2, TypeInvariant, ReportedStep, PTL DEF Spec, EvictionLeavesNothing

-----------------------------------------------------------------------------
(* Sizes. *)

\* The loop holds rows or a snapshot of its room.
Writes == tick.phase \in {"append", "appended", "fold", "folded"}

\* A room that is not loaded has queued and counted nothing; a session that is
\* in, or a pass that writes, is about a room that is loaded.
Loading ==
    /\ \A r \in RoomIds : room[r].loaded # "yes" =>
          room[r].pending = {} /\ room[r].storedRows = 0
    /\ \A s \in Sessions : peer[s].at = "in" => room[peer[s].room].loaded = "yes"
    /\ Writes => Target.loaded = "yes"

\* What a compaction writes and what is queued meanwhile make up the document.
Folding ==
    tick.phase \in {"fold", "folded"} => Target.doc \subseteq tick.snapshot \cup Target.pending

Covered == \A r \in RoomIds : Cardinality(room[r].doc) <= room[r].size

SizeInv == Loading /\ Folding /\ Covered

\* Two sets of updates together have at most as many as both.
LEMMA CountTogether ==
    ASSUME NEW A \in SUBSET Updates, NEW B \in SUBSET Updates
    PROVE  Cardinality(A \cup B) <= Cardinality(A) + Cardinality(B)
<1>1. IsFiniteSet(A) /\ IsFiniteSet(B)
  BY RoomsAssumption, FS_Subset
<1>2. A \cap B \in SUBSET Updates
  OBVIOUS
<1>3. /\ Cardinality(A) \in Nat /\ Cardinality(B) \in Nat /\ Cardinality(A \cap B) \in Nat
  BY <1>2, Counts
<1>4. Cardinality(A \cup B) = Cardinality(A) + Cardinality(B) - Cardinality(A \cap B)
  BY <1>1, FS_Union
<1> QED
  BY <1>3, <1>4

LEMMA CountFewer ==
    ASSUME NEW A \in SUBSET Updates, NEW B \in SUBSET A
    PROVE  Cardinality(B) <= Cardinality(A)
<1>1. IsFiniteSet(A)
  BY RoomsAssumption, FS_Subset
<1> QED
  BY <1>1, FS_Subset

\* Rows hold at most as many updates as they have bytes.
LEMMA CountRows ==
    ASSUME NEW rows \in SUBSET Row, IsFiniteSet(rows)
    PROVE  Cardinality(UNION {row.payload : row \in rows}) <=
               Cardinality({p \in rows \X Updates : p[2] \in p[1].payload})
<1> DEFINE B == {p \in rows \X Updates : p[2] \in p[1].payload}
           U == UNION {row.payload : row \in rows}
           f == [p \in B |-> p[2]]
<1>1. IsFiniteSet(B)
  <2>1. IsFiniteSet(rows \X Updates)
    BY RoomsAssumption, FS_Product
  <2>2. B \in SUBSET (rows \X Updates)
    OBVIOUS
  <2> QED
    BY <2>1, <2>2, FS_Subset
<1>2. f \in Surjection(B, U)
  <2>1. \A p \in B : p[2] \in U
    OBVIOUS
  <2>2. ASSUME NEW u \in U
        PROVE  \E p \in B : f[p] = u
    <3>1. PICK row \in rows : u \in row.payload
      OBVIOUS
    <3>2. u \in Updates
      BY <3>1 DEF Row
    <3>3. <<row, u>> \in B
      BY <3>1, <3>2
    <3> QED
      BY <3>3
  <2> QED
    BY <2>1, <2>2 DEF Surjection
<1> HIDE DEF B, U, f
<1>3. Cardinality(U) <= Cardinality(B)
  BY <1>1, <1>2, FS_Surjection
<1> QED
  BY <1>3 DEF B, U

LEMMA SizeInit == Init => SizeInv
<1> SUFFICES ASSUME Init PROVE SizeInv
  OBVIOUS
<1>1. /\ room = [r \in RoomIds |-> NewRoom] /\ peer = [s \in Sessions |-> Out]
      /\ tick = Resting
  BY DEF Init
<1>2. Loading /\ Folding
  BY <1>1 DEF Loading, Folding, Writes, NewRoom, Out, Resting
<1>3. Covered
  <2>1. Cardinality({}) = 0
    BY FS_EmptySet
  <2>2. NewRoom.doc = {} /\ NewRoom.size = 0
    BY DEF NewRoom
  <2> QED
    BY <1>1, <2>1, <2>2 DEF Covered
<1> QED
  BY <1>2, <1>3 DEF SizeInv

\* Steps that change no room, start no writing and let nobody in.
LEMMA SizeStill ==
    ASSUME SizeInv, UNCHANGED room, tick' = tick \/ ~Writes',
           \A s \in Sessions : peer'[s] = peer[s] \/ peer'[s].at # "in"
    PROVE  SizeInv'
<1>1. Loading'
  BY DEF SizeInv, Loading, Writes, Target
<1>2. Folding' /\ Covered'
  BY DEF SizeInv, Folding, Covered, Writes, Target
<1> QED
  BY <1>1, <1>2 DEF SizeInv

\* Steps that change one room.
LEMMA SizeRoom ==
    ASSUME TypeInv, SizeInv, NEW r \in RoomIds, NEW new \in RoomState,
           room' = [room EXCEPT ![r] = new],
           Cardinality(new.doc) <= new.size,
           new.loaded # "yes" => new.pending = {} /\ new.storedRows = 0,
           room[r].loaded = "yes" => new.loaded = "yes",
           \A s \in Sessions : peer'[s] = peer[s] \/ peer'[s].at # "in",
           \/ ~Writes'
           \/ tick' = tick /\ (r = tick.room /\ tick.phase \in {"fold", "folded"} =>
                                  new.doc \subseteq tick.snapshot \cup new.pending)
    PROVE  SizeInv'
<1>0. /\ room \in [RoomIds -> RoomState] /\ peer \in [Sessions -> PeerState]
      /\ \A s \in Sessions : peer[s].at = "in" => peer[s].room \in RoomIds
      /\ Writes => tick.room \in RoomIds
  BY DEF TypeInv, TypeOK, InUseAreRooms, Writes
<1>1. \A q \in RoomIds : room'[q] = IF q = r THEN new ELSE room[q]
  BY <1>0
<1>2. \A q \in RoomIds : room[q].loaded = "yes" => room'[q].loaded = "yes"
  BY <1>1
<1>3. Loading'
  <2>1. \A q \in RoomIds : room'[q].loaded # "yes" =>
           room'[q].pending = {} /\ room'[q].storedRows = 0
    BY <1>1 DEF SizeInv, Loading
  <2>2. \A s \in Sessions : peer'[s].at = "in" => room'[peer'[s].room].loaded = "yes"
    BY <1>0, <1>2 DEF SizeInv, Loading
  <2>3. Writes' => Target'.loaded = "yes"
    BY <1>0, <1>2 DEF SizeInv, Loading, Writes, Target
  <2> QED
    BY <2>1, <2>2, <2>3 DEF Loading
<1>4. Folding'
  <2> SUFFICES ASSUME tick'.phase \in {"fold", "folded"}
               PROVE  Target'.doc \subseteq tick'.snapshot \cup Target'.pending
    BY DEF Folding
  <2>1. tick' = tick /\ tick.room \in RoomIds
    BY <1>0 DEF Writes
  <2>2. CASE tick.room = r
    BY <1>1, <2>1, <2>2 DEF Target, Writes
  <2>3. CASE tick.room # r
    <3>1. Target' = Target
      BY <1>1, <2>1, <2>3 DEF Target
    <3> QED
      BY <2>1, <3>1 DEF SizeInv, Folding
  <2> QED
    BY <2>2, <2>3
<1>5. Covered'
  BY <1>1 DEF SizeInv, Covered
<1> QED
  BY <1>3, <1>4, <1>5 DEF SizeInv

\* Sessions.
LEMMA SizeSession ==
    ASSUME TypeInv, TypeInv', SizeInv, NEW s \in Sessions, Session(s)
    PROVE  SizeInv'
<1>0. /\ room \in [RoomIds -> RoomState] /\ peer \in [Sessions -> PeerState]
      /\ peer[s].at # "out" => peer[s].room \in RoomIds
      /\ Writes => tick.room \in RoomIds
      /\ room' \in [RoomIds -> RoomState]
  BY DEF TypeInv, TypeOK, InUseAreRooms, Writes
<1>1. ASSUME NEW value, peer' = [peer EXCEPT ![s] = value], value.at # "in"
      PROVE  \A t \in Sessions : peer'[t] = peer[t] \/ peer'[t].at # "in"
  BY <1>0, <1>1
<1>2. Out.at # "in"
  BY DEF Out
<1>3. CASE Join(s)
  <2> DEFINE joining(r) == [at |-> "joining", room |-> r]
  <2>1. PICK r \in RoomIds :
            /\ IF registry = NoRoom
               THEN r \notin InUse /\ room' = [room EXCEPT ![r] = NewRoom]
               ELSE UNCHANGED room
            /\ peer' = [peer EXCEPT ![s] = joining(r)]
            /\ UNCHANGED tick
    BY <1>3 DEF Join
  <2>2. \A t \in Sessions : peer'[t] = peer[t] \/ peer'[t].at # "in"
    BY <1>1, <2>1
  <2>3. CASE UNCHANGED room
    BY <2>1, <2>2, <2>3, SizeStill
  <2>4. CASE r \notin InUse /\ room' = [room EXCEPT ![r] = NewRoom]
    <3>1. r # tick.room /\ \A t \in Sessions : peer[t].room # r
      BY <2>4 DEF InUse
    <3>2. /\ \A q \in RoomIds : room'[q] = IF q = r THEN NewRoom ELSE room[q]
          /\ NewRoom.doc = {} /\ NewRoom.size = 0 /\ NewRoom.pending = {}
          /\ NewRoom.storedRows = 0 /\ Cardinality({}) = 0
      BY <1>0, <2>4, FS_EmptySet DEF NewRoom
    <3>3. Covered'
      BY <3>2 DEF SizeInv, Covered
    <3>4. Writes => Target' = Target /\ tick' = tick
      BY <1>0, <2>1, <3>1, <3>2 DEF Target
    <3>5. Folding'
      BY <2>1, <3>4 DEF SizeInv, Folding, Writes
    <3>6. \A t \in Sessions : peer'[t].at = "in" => room'[peer'[t].room].loaded = "yes"
      <4> SUFFICES ASSUME NEW t \in Sessions, peer'[t].at = "in"
                   PROVE  room'[peer'[t].room].loaded = "yes"
        OBVIOUS
      <4>1. peer'[t] = peer[t] /\ peer[t].room \in RoomIds /\ peer[t].room # r
        BY <2>2, <3>1 DEF TypeInv, InUseAreRooms
      <4> QED
        BY <3>2, <4>1 DEF SizeInv, Loading
    <3>7. Loading'
      BY <2>1, <3>2, <3>4, <3>6 DEF SizeInv, Loading, Writes
    <3> QED
      BY <3>3, <3>5, <3>7 DEF SizeInv
  <2> QED
    BY <2>1, <2>3, <2>4
<1>4. CASE Enter(s)
  <2>1. /\ UNCHANGED <<room, tick>> /\ peer' = [peer EXCEPT ![s].at = "in"]
        /\ room[peer[s].room].loaded = "yes"
    BY <1>4 DEF Enter
  <2>2. \A t \in Sessions : peer'[t].room = peer[t].room /\ (t # s => peer'[t] = peer[t])
    BY <1>0, <2>1 DEF PeerState
  <2>3. Loading'
    BY <2>1, <2>2 DEF SizeInv, Loading, Writes, Target
  <2> QED
    BY <2>1, <2>3 DEF SizeInv, Folding, Covered, Target
\* A room that is not loaded stays so.
<1>5. ASSUME NEW r \in RoomIds, NEW new \in RoomState, room' = [room EXCEPT ![r] = new],
             room[r].loaded # "yes", new.doc = room[r].doc, new.size = room[r].size,
             new.pending = room[r].pending, new.storedRows = room[r].storedRows,
             UNCHANGED tick, peer' = [peer EXCEPT ![s] = Out]
      PROVE  SizeInv'
  <2>1. \A t \in Sessions : peer'[t] = peer[t] \/ peer'[t].at # "in"
    BY <1>1, <1>2, <1>5
  <2>2. Cardinality(new.doc) <= new.size /\ new.pending = {} /\ new.storedRows = 0
    BY <1>5 DEF SizeInv, Loading, Covered
  <2>3. r = tick.room => ~Writes
    BY <1>5 DEF SizeInv, Loading, Target
  <2> QED
    BY <1>5, <2>1, <2>2, <2>3, SizeRoom DEF Writes
<1>6. CASE LoadFail(s)
  <2> DEFINE r == peer[s].room
             new == [room[r] EXCEPT !.loaded = "no"]
  <2>1. /\ r \in RoomIds /\ room[r] \in RoomState /\ room[r].loaded # "yes"
        /\ room' = [room EXCEPT ![r] = new]
        /\ UNCHANGED tick /\ peer' = [peer EXCEPT ![s] = Out]
    BY <1>0, <1>6 DEF LoadFail
  <2>2. /\ new \in RoomState /\ new.doc = room[r].doc /\ new.size = room[r].size
        /\ new.pending = room[r].pending /\ new.storedRows = room[r].storedRows
    BY <2>1, RoomFields DEF RoomState
  <2> QED
    BY <1>5, <2>1, <2>2
<1>7. CASE Cancel(s)
  <2> DEFINE r == peer[s].room
  <2>1. /\ r \in RoomIds /\ room[r] \in RoomState /\ room[r].loaded # "yes"
        /\ UNCHANGED tick /\ peer' = [peer EXCEPT ![s] = Out]
    BY <1>0, <1>7 DEF Cancel
  <2>2. PICK loaded \in {"no", "reading", "yes"} :
           room' = [room EXCEPT ![r] = [room[r] EXCEPT !.loaded = loaded, !.leaked = @ + 1]]
    BY <1>7, <2>1 DEF Cancel, RoomState
  <2> DEFINE new == [room[r] EXCEPT !.loaded = loaded, !.leaked = @ + 1]
  <2>3. /\ new.doc = room[r].doc /\ new.size = room[r].size
        /\ new.pending = room[r].pending /\ new.storedRows = room[r].storedRows
    BY <2>1 DEF RoomState
  <2>4. new = room'[r]
    BY <1>0, <2>1, <2>2
  <2> HIDE DEF new
  <2>5. new \in RoomState
    BY <1>0, <2>1, <2>4
  <2> QED
    BY <1>5, <2>1, <2>2, <2>3, <2>5 DEF new
<1>8. CASE Leave(s)
  <2>1. UNCHANGED <<room, tick>> /\ peer' = [peer EXCEPT ![s] = Out]
    BY <1>8 DEF Leave
  <2> QED
    BY <1>1, <1>2, <2>1, SizeStill
<1>9. ASSUME NEW u \in Updates, Apply(s, u)
      PROVE  SizeInv'
  <2> DEFINE r == peer[s].room
             waiting == room[r].held \cup {u}
             ready == Ready(waiting, room[r].doc)
             delta == ready \ room[r].doc
             new == [room[r] EXCEPT !.held = waiting \ ready,
                                    !.doc = @ \cup delta,
                                    !.size = @ + Cardinality(delta),
                                    !.changes = @ \cup delta,
                                    !.pending = @ \cup delta]
  <2>1. /\ peer[s].at = "in" /\ r \in RoomIds /\ room[r] \in RoomState
        /\ room' = [room EXCEPT ![r] = new]
        /\ UNCHANGED <<peer, tick>>
    BY <1>0, <1>9 DEF Apply
  <2>2. delta \in SUBSET Updates /\ waiting \ ready \in SUBSET Updates
    BY <2>1 DEF Ready, RoomState
  <2> HIDE DEF waiting, ready, delta
  <2>3. /\ Cardinality(delta) \in Nat /\ Cardinality(room[r].doc) \in Nat
        /\ Cardinality(room[r].doc \cup delta) \in Nat
        /\ Cardinality(room[r].doc \cup delta) <= Cardinality(room[r].doc) + Cardinality(delta)
    BY <2>1, <2>2, Counts, CountTogether DEF RoomState
  <2>4. /\ new \in RoomState
        /\ new.doc = room[r].doc \cup delta /\ new.pending = room[r].pending \cup delta
        /\ new.size = room[r].size + Cardinality(delta) /\ new.loaded = room[r].loaded
    <3>1. new = room'[r]
      BY <1>0, <2>1
    <3>2. new \in RoomState
      <4> HIDE DEF new
      <4> QED
        BY <1>0, <2>1, <3>1
    <3> QED
      BY <2>1, <3>2 DEF RoomState
  <2>5. Cardinality(room[r].doc) <= room[r].size /\ room[r].size \in Nat
    BY <2>1 DEF SizeInv, Covered, RoomState
  <2> HIDE DEF r, new
  <2>6. Cardinality(new.doc) <= new.size
    BY <2>3, <2>4, <2>5
  <2>7. new.loaded = "yes"
    BY <2>1, <2>4 DEF SizeInv, Loading, r
  <2>8. r = tick.room /\ tick.phase \in {"fold", "folded"} =>
            new.doc \subseteq tick.snapshot \cup new.pending
    BY <2>4 DEF SizeInv, Folding, Target
  <2> QED
    BY <2>1, <2>4, <2>6, <2>7, <2>8, SizeRoom
<1> QED
  BY <1>3, <1>4, <1>6, <1>7, <1>8, <1>9 DEF Session

\* Loads.
LEMMA SizeLoad ==
    ASSUME TypeInv, TypeInv', SizeInv, NEW r \in RoomIds, Load(r)
    PROVE  SizeInv'
<1>0. /\ room \in [RoomIds -> RoomState] /\ room[r] \in RoomState
      /\ store \in StoreState /\ IsFiniteSet(store.rows) /\ store.rows \in SUBSET Row
      /\ room' \in [RoomIds -> RoomState]
  BY DEF TypeInv, TypeOK, StoreState
<1>1. room[r].loaded # "yes" /\ UNCHANGED <<peer, tick>>
  BY DEF Load, LoadSnapshot, LoadRows
<1>2. (r = tick.room => ~Writes) /\ room[r].pending = {}
  BY <1>1 DEF SizeInv, Loading, Target
<1>3. CASE LoadSnapshot(r)
  <2> DEFINE new == [room[r] EXCEPT
          !.loaded = IF store.exists THEN "reading" ELSE "yes",
          !.read = store.snapshot,
          !.readThrough = store.through]
  <2>1. room' = [room EXCEPT ![r] = new]
    BY <1>3 DEF LoadSnapshot
  <2>2. /\ new.doc = room[r].doc /\ new.size = room[r].size
        /\ new.pending = room[r].pending /\ new.storedRows = room[r].storedRows
    BY <1>0 DEF RoomState
  <2>3. new = room'[r]
    BY <1>0, <2>1
  <2> HIDE DEF new
  <2>4. new \in RoomState
    BY <1>0, <2>3
  <2>5. Cardinality(new.doc) <= new.size /\ new.pending = {} /\ new.storedRows = 0
    BY <1>1, <2>2 DEF SizeInv, Covered, Loading
  <2> QED
    BY <1>1, <1>2, <2>1, <2>4, <2>5, SizeRoom DEF Writes
<1>4. CASE LoadRows(r)
  <2> DEFINE U == UNION {row.payload : row \in store.rows}
             parts == room[r].read \cup U
             bytes == {p \in store.rows \X Updates : p[2] \in p[1].payload}
             doc == Ready(parts, {})
             held == parts \ Ready(parts, {})
             size == Cardinality(room[r].read) + Cardinality(bytes)
  <2>1. PICK last : room' = [room EXCEPT ![r] = [room[r] EXCEPT
                 !.loaded = "yes",
                 !.doc = doc,
                 !.held = held,
                 !.storedRows = Cardinality(store.rows),
                 !.lastSeq = last,
                 !.size = size]]
    BY <1>4 DEF LoadRows
  <2>2. /\ U \in SUBSET Updates /\ room[r].read \in SUBSET Updates /\ parts \in SUBSET Updates
        /\ doc \in SUBSET parts
    BY <1>0 DEF RoomState, Row, Ready
  <2>3. Cardinality(U) <= Cardinality(bytes)
    BY <1>0, CountRows
  <2>4. Cardinality(bytes) \in Nat
    BY <1>0, RowBytes
  <2> HIDE DEF U, bytes, doc, held
  <2>5. Cardinality(doc) <= size
    <3>1. Cardinality(doc) <= Cardinality(parts)
      BY <2>2, CountFewer
    <3>2. Cardinality(parts) <= Cardinality(room[r].read) + Cardinality(U)
      BY <2>2, CountTogether
    <3>3. /\ Cardinality(doc) \in Nat /\ Cardinality(parts) \in Nat
          /\ Cardinality(room[r].read) \in Nat /\ Cardinality(U) \in Nat
      <4>1. doc \in SUBSET Updates
        BY <2>2
      <4> QED
        BY <2>2, <4>1, Counts
    <3> QED
      BY <2>3, <2>4, <3>1, <3>2, <3>3
  <2> HIDE DEF size
  <2> DEFINE new == [room[r] EXCEPT
                 !.loaded = "yes",
                 !.doc = doc,
                 !.held = held,
                 !.storedRows = Cardinality(store.rows),
                 !.lastSeq = last,
                 !.size = size]
  <2>6. new.doc = doc /\ new.size = size /\ new.loaded = "yes"
    BY <1>0 DEF RoomState
  <2>7. room' = [room EXCEPT ![r] = new]
    BY <2>1
  <2>8. new = room'[r]
    BY <1>0, <2>7
  <2> HIDE DEF new
  <2>9. new \in RoomState
    BY <1>0, <2>8
  <2> QED
    BY <1>1, <1>2, <2>5, <2>6, <2>7, <2>9, SizeRoom DEF Writes
<1> QED
  BY <1>3, <1>4 DEF Load

\* A pass that is given up writes no more.
LEMMA GiveUpEnds ==
    ASSUME tick \in Tick, GiveUp
    PROVE  ~Writes'
<1>1. tick.mode \in {"flush", "evict", "final"}
  BY DEF Tick
<1>2. \/ tick' = Resting
      \/ \E phase \in {"report", "unload"} : tick' = [tick EXCEPT !.phase = phase, !.batch = {}]
  BY <1>1 DEF GiveUp
<1>3. CASE tick' = Resting
  BY <1>3 DEF Writes, Resting
<1>4. ASSUME NEW phase \in {"report", "unload"},
             tick' = [tick EXCEPT !.phase = phase, !.batch = {}]
      PROVE  ~Writes'
  <2>1. tick'.phase = phase
    BY <1>4 DEF Tick
  <2> QED
    BY <2>1 DEF Writes
<1> QED
  BY <1>2, <1>3, <1>4

\* The flush loop.
LEMMA SizeFlushLoop ==
    ASSUME TypeInv, TypeInv', SizeInv, FlushLoop
    PROVE  SizeInv'
<1>0. /\ room \in [RoomIds -> RoomState] /\ room' \in [RoomIds -> RoomState]
      /\ tick \in Tick
      /\ tick.phase # "rest" => tick.room \in RoomIds /\ Target \in RoomState
  BY DEF TypeInv, TypeOK, InUseAreRooms, Target
<1>1. UNCHANGED peer
  BY DEF FlushLoop, TickStart, Take, AppendCommit, Record, AppendFail, Settle, FoldCommit,
         FoldDone, FoldFail, Report, TakeChanges, Unload
<1>2. tick.phase # "rest" => Cardinality(Target.doc) <= Target.size
  BY <1>0 DEF SizeInv, Covered, Target
<1>3. Target.loaded # "yes" /\ tick.phase # "rest" => Target.pending = {} /\ Target.storedRows = 0
  BY <1>0 DEF SizeInv, Loading, Target
\* The pass goes on without writing.
<1>4. ASSUME UNCHANGED room, ~Writes'
      PROVE  SizeInv'
  BY <1>1, <1>4, SizeStill
<1>5. ASSUME NEW new \in RoomState, tick.phase # "rest", ~Writes',
             room' = [room EXCEPT ![tick.room] = new], new.loaded = Target.loaded,
             Cardinality(new.doc) <= new.size,
             Target.loaded = "yes" \/ (new.pending = {} /\ new.storedRows = 0)
      PROVE  SizeInv'
  <2>1. room[tick.room].loaded = "yes" => new.loaded = "yes"
    BY <1>5 DEF Target
  <2> QED
    BY <1>0, <1>1, <1>5, <2>1, SizeRoom
\* The pass writes: its room is loaded.
<1>6. ASSUME UNCHANGED room, tick'.room = tick.room, Target.loaded = "yes", Folding'
      PROVE  SizeInv'
  <2>1. Target' = Target
    BY <1>6 DEF Target
  <2> QED
    BY <1>1, <1>6, <2>1 DEF SizeInv, Loading, Covered
<1>7. CASE TickStart("flush") \/ TickStart("evict")
  <2>1. UNCHANGED room /\ tick'.phase = "take"
    BY <1>7 DEF TickStart, Resting
  <2> QED
    BY <1>4, <2>1 DEF Writes
<1>8. CASE Take
  <2> DEFINE new == [Target EXCEPT !.pending = {}]
  <2>1. /\ tick.phase = "take" /\ room' = [room EXCEPT ![tick.room] = new]
        /\ tick'.room = tick.room
        /\ tick'.phase = IF Target.pending # {} THEN "append"
                         ELSE IF Forced THEN "settle" ELSE "report"
    BY <1>0, <1>8 DEF Take, Target, Tick
  <2>2. /\ new \in RoomState /\ new.doc = Target.doc /\ new.size = Target.size
        /\ new.loaded = Target.loaded /\ new.pending = {} /\ new.storedRows = Target.storedRows
    BY <1>0, <2>1 DEF RoomState
  <2> HIDE DEF new
  <2>3. CASE Target.pending = {}
    <3>1. ~Writes'
      BY <2>1, <2>3 DEF Writes
    <3> QED
      BY <1>2, <1>3, <1>5, <2>1, <2>2, <3>1
  <2>4. CASE Target.pending # {}
    <3>1. Target.loaded = "yes" /\ ~(tick'.phase \in {"fold", "folded"})
      BY <1>3, <2>1, <2>4
    <3>2. \A r \in RoomIds : room'[r] = IF r = tick.room THEN new ELSE room[r]
      BY <1>0, <2>1
    <3>3. tick.room \in RoomIds
      BY <1>0, <2>1
    <3>4. \A r \in RoomIds : room'[r].loaded = room[r].loaded
      BY <2>2, <3>2 DEF Target
    <3>5. Loading'
      <4>1. \A r \in RoomIds : room'[r].loaded # "yes" =>
               room'[r].pending = {} /\ room'[r].storedRows = 0
        BY <2>2, <3>1, <3>2 DEF SizeInv, Loading
      <4>2. \A s \in Sessions : peer'[s].at = "in" => room'[peer'[s].room].loaded = "yes"
        BY <1>1, <3>4 DEF SizeInv, Loading, TypeInv, InUseAreRooms
      <4>3. Target'.loaded = "yes"
        BY <2>1, <3>1, <3>3, <3>4 DEF Target
      <4> QED
        BY <4>1, <4>2, <4>3 DEF Loading
    <3>6. Covered'
      BY <1>2, <2>1, <2>2, <3>2 DEF SizeInv, Covered
    <3> QED
      BY <3>1, <3>5, <3>6 DEF SizeInv, Folding
  <2> QED
    BY <2>3, <2>4
<1>9. CASE AppendCommit
  <2>1. tick.phase = "append" /\ UNCHANGED room
    BY <1>9 DEF AppendCommit
  <2>2. tick'.phase = "appended" /\ tick'.room = tick.room
    BY <1>0, <1>9 DEF AppendCommit, Tick
  <2>3. Target.loaded = "yes"
    BY <2>1 DEF SizeInv, Loading, Writes
  <2> QED
    BY <1>6, <2>1, <2>2, <2>3 DEF Folding
<1>10. CASE Record
  <2> DEFINE new == [Target EXCEPT !.lastSeq = IF tick.through > @ THEN tick.through ELSE @,
                                   !.storedRows = @ + tick.rows]
  <2>1. tick.phase = "appended" /\ room' = [room EXCEPT ![tick.room] = new]
    BY <1>10 DEF Record
  <2>2. new.doc = Target.doc /\ new.size = Target.size /\ new.loaded = Target.loaded
    BY <1>0, <2>1 DEF RoomState
  <2>3. Target.loaded = "yes" /\ ~Writes'
    BY <1>0, <1>10, <2>1 DEF SizeInv, Loading, Writes, Record, Tick
  <2>4. new = room'[tick.room]
    BY <1>0, <2>1
  <2> HIDE DEF new
  <2>5. new \in RoomState
    BY <1>0, <2>1, <2>4
  <2> QED
    BY <1>2, <1>5, <2>1, <2>2, <2>3, <2>5
<1>11. CASE AppendFail
  <2> DEFINE new == [Target EXCEPT !.pending = tick.batch \cup @]
  <2>1. /\ tick.phase \in {"append", "appended"} /\ room' = [room EXCEPT ![tick.room] = new]
        /\ GiveUp
    BY <1>11 DEF AppendFail, Target
  <2>2. new.doc = Target.doc /\ new.size = Target.size /\ new.loaded = Target.loaded
    BY <1>0, <2>1 DEF RoomState
  <2>3. Target.loaded = "yes" /\ ~Writes'
    BY <1>0, <2>1, GiveUpEnds DEF SizeInv, Loading, Writes
  <2>4. new = room'[tick.room]
    BY <1>0, <2>1
  <2> HIDE DEF new
  <2>5. new \in RoomState
    BY <1>0, <2>1, <2>4
  <2> QED
    BY <1>2, <1>5, <2>1, <2>2, <2>3, <2>5
<1>12. CASE Settle
  <2>1. tick.phase = "settle" /\ UNCHANGED room
    BY <1>12 DEF Settle
  <2>2. CASE Due
    <3>1. /\ tick'.room = tick.room /\ tick'.snapshot = Target.doc
      BY <1>0, <1>12, <2>2 DEF Settle, Tick
    <3>2. Target.loaded = "yes"
      BY <1>0, <1>3, <2>1, <2>2 DEF Due, RoomState
    <3>3. Target' = Target
      BY <2>1, <3>1 DEF Target
    <3>4. Folding'
      BY <3>1, <3>3 DEF Folding
    <3> QED
      BY <1>6, <2>1, <3>1, <3>2, <3>4
  <2>3. CASE ~Due
    <3>1. ~Writes'
      BY <1>0, <1>12, <2>3 DEF Settle, Writes, Tick
    <3> QED
      BY <1>4, <2>1, <3>1
  <2> QED
    BY <2>2, <2>3
<1>13. CASE FoldCommit
  <2>1. /\ tick.phase = "fold" /\ UNCHANGED room
        /\ tick'.room = tick.room /\ tick'.snapshot = tick.snapshot
    BY <1>0, <1>13 DEF FoldCommit, Tick
  <2>2. Target.loaded = "yes" /\ Target' = Target
    BY <2>1 DEF SizeInv, Loading, Writes, Target
  <2>3. Folding'
    BY <2>1, <2>2 DEF SizeInv, Folding
  <2> QED
    BY <1>6, <2>1, <2>2, <2>3
<1>14. CASE FoldDone
  <2> DEFINE size == Cardinality(tick.snapshot) + Cardinality(Target.pending)
             new == [Target EXCEPT !.storedRows = 0, !.size = size]
  <2>1. tick.phase = "folded" /\ room' = [room EXCEPT ![tick.room] = new]
    BY <1>14 DEF FoldDone
  <2>2. new.doc = Target.doc /\ new.size = size /\ new.loaded = Target.loaded
    BY <1>0, <2>1 DEF RoomState
  <2>3. Target.loaded = "yes" /\ ~Writes'
    BY <1>0, <1>14, <2>1 DEF SizeInv, Loading, Writes, FoldDone, Tick
  <2>4. Cardinality(Target.doc) <= size
    <3>1. /\ tick.snapshot \in SUBSET Updates /\ Target.pending \in SUBSET Updates
          /\ Target.doc \in SUBSET (tick.snapshot \cup Target.pending)
      BY <1>0, <2>1 DEF Tick, RoomState, SizeInv, Folding
    <3>2. tick.snapshot \cup Target.pending \in SUBSET Updates
      BY <3>1
    <3>3. Target.doc \in SUBSET Updates
      BY <3>1, <3>2
    <3>4. /\ Cardinality(Target.doc) <= Cardinality(tick.snapshot \cup Target.pending)
          /\ Cardinality(tick.snapshot \cup Target.pending) <= size
      BY <3>1, <3>2, CountFewer, CountTogether
    <3>5. /\ Cardinality(Target.doc) \in Nat
          /\ Cardinality(tick.snapshot \cup Target.pending) \in Nat
          /\ size \in Nat
      BY <3>1, <3>2, <3>3, Counts
    <3> HIDE DEF size
    <3> QED
      BY <3>4, <3>5
  <2>5. new = room'[tick.room]
    BY <1>0, <2>1
  <2> HIDE DEF new, size
  <2>6. new \in RoomState
    BY <1>0, <2>1, <2>5
  <2> QED
    BY <1>5, <2>1, <2>2, <2>3, <2>4, <2>6
<1>15. CASE FoldFail
  BY <1>0, <1>4, <1>15, GiveUpEnds DEF FoldFail
<1>16. ASSUME NEW left \in SUBSET Updates, tick.phase # "rest", ~Writes',
              room' = [room EXCEPT ![tick.room] = [Target EXCEPT !.changes = left]]
       PROVE  SizeInv'
  <2> DEFINE new == [Target EXCEPT !.changes = left]
  <2>1. /\ new \in RoomState /\ new.doc = Target.doc /\ new.size = Target.size
        /\ new.loaded = Target.loaded /\ new.pending = Target.pending
        /\ new.storedRows = Target.storedRows
    BY <1>0, <1>16 DEF RoomState
  <2> HIDE DEF new
  <2> QED
    BY <1>2, <1>3, <1>5, <1>16, <2>1 DEF new
<1>17. CASE Report
  <2>1. tick.phase = "report" /\ ~Writes'
    BY <1>17 DEF Report, Writes, Resting
  <2>2. PICK left \in {{}, Target.changes} :
           room' = [room EXCEPT ![tick.room] = [Target EXCEPT !.changes = left]]
    BY <1>17 DEF Report, Target
  <2>3. left \in SUBSET Updates
    BY <1>0, <2>1 DEF RoomState
  <2> QED
    BY <1>16, <2>1, <2>2, <2>3
<1>18. CASE TakeChanges
  <2>1. /\ tick.phase = "unload" /\ ~Writes'
        /\ room' = [room EXCEPT ![tick.room] = [Target EXCEPT !.changes = {}]]
    BY <1>0, <1>18 DEF TakeChanges, Writes, Resting, Target, Tick
  <2>2. PICK left \in SUBSET Updates :
           room' = [room EXCEPT ![tick.room] = [Target EXCEPT !.changes = left]]
    BY <2>1
  <2>3. tick.phase # "rest"
    BY <2>1
  <2> QED
    BY <1>16, <2>1, <2>2, <2>3
<1>19. CASE Unload
  BY <1>4, <1>19 DEF Unload, Writes, Resting
<1> QED
  BY <1>7, <1>8, <1>9, <1>10, <1>11, <1>12, <1>13, <1>14, <1>15, <1>17, <1>18, <1>19
  DEF FlushLoop

\* Every step keeps the invariant.
LEMMA SizeStep == TypeInv /\ TypeInv' /\ SizeInv /\ [Next]_vars => SizeInv'
<1> SUFFICES ASSUME TypeInv, TypeInv', SizeInv, [Next]_vars PROVE SizeInv'
  OBVIOUS
<1>1. CASE Delete
  BY <1>1, SizeStill DEF Delete, Discard, DeleteCommit, DeleteFail
<1>2. CASE Server
  <2>1. CASE Stop
    BY <2>1, SizeStill DEF Stop
  <2>2. CASE FlushAll
    <3>1. UNCHANGED <<room, peer>> /\ (tick' = tick \/ tick'.phase = "take")
      BY <2>2 DEF FlushAll, Resting
    <3> QED
      BY <3>1, SizeStill DEF Writes
  <2>3. CASE Reboot
    <3>1. /\ room' = [r \in RoomIds |-> NewRoom] /\ peer' = [s \in Sessions |-> Out]
          /\ tick' = Resting
      BY <2>3 DEF Reboot
    <3>2. NewRoom.doc = {} /\ NewRoom.size = 0 /\ Cardinality({}) = 0
      BY FS_EmptySet DEF NewRoom
    <3>3. Loading' /\ Folding'
      BY <3>1 DEF Loading, Folding, Writes, NewRoom, Out, Resting
    <3>4. Covered'
      BY <3>1, <3>2 DEF Covered
    <3> QED
      BY <3>3, <3>4 DEF SizeInv
  <2> QED
    BY <1>2, <2>1, <2>2, <2>3 DEF Server, Crash, Exit
<1>3. CASE UNCHANGED vars
  BY <1>3, SizeStill DEF vars
<1> QED
  BY <1>1, <1>2, <1>3, SizeSession, SizeLoad, SizeFlushLoop DEF Next

\* The size a room checks against max_document_bytes is never less than what its
\* document holds, for any number of updates, rooms and sessions, whatever fails
\* and whatever is edited while a compaction runs (room.rs apply, load_from,
\* compact).
THEOREM SizeCoversDocumentTheorem == Spec => []SizeCoversDocument
<1>1. SizeInv => SizeCoversDocument
  BY DEF SizeInv, Covered, SizeCoversDocument
<1> QED
  BY <1>1, SizeInit, SizeStep, TypeInvariant, PTL DEF Spec

-----------------------------------------------------------------------------
(* Counters. *)

\* Until a DELETE there is one room: the registered one.
Lone ==
    /\ ~deleting
    /\ \A s \in Sessions : peer[s].room \in {registry, NoRoom}
    /\ tick.room \in {registry, NoRoom}

\* The store's rows come after its snapshot, and the last number given out is
\* that of a row, or of the last one folded.
Numbered ==
    /\ \A row \in store.rows : row.seq \in store.through + 1 .. store.seq
    /\ store.seq \in {store.through} \cup {row.seq : row \in store.rows}
    /\ ~store.exists => store.rows = {} /\ store.seq = 0

\* The registered room's counters at each point of a load and of a pass: behind
\* the store by the batch that was just appended, or by the rows just folded.
Counted ==
    registry # NoRoom =>
        IF room[registry].loaded # "yes"
        THEN /\ room[registry].lastSeq = 0
             /\ room[registry].loaded = "reading" =>
                    store.exists /\ room[registry].readThrough = store.through
        ELSE /\ tick.phase # "appended" => room[registry].lastSeq = store.seq
             /\ tick.phase \notin {"appended", "folded"} =>
                    room[registry].storedRows = Cardinality(store.rows)
             /\ tick.phase = "appended" =>
                    /\ tick.through = store.seq
                    /\ room[registry].lastSeq <= store.seq
                    /\ room[registry].storedRows + tick.rows = Cardinality(store.rows)
             /\ tick.phase = "fold" => tick.through = store.seq
             /\ tick.phase = "folded" => store.rows = {}

\* The inductive invariant behind CountersMatchStore.
CountInv == faults = 0 => Lone /\ Numbered /\ Counted

\* Phases at which the counters are the store's.
Even(phase) == phase \notin {"appended", "fold", "folded"}

\* Steps that change neither the store nor what the registered room counts.
LEMMA CountStill ==
    ASSUME CountInv, faults' = faults, UNCHANGED <<registry, store, deleting>>,
           registry # NoRoom =>
               /\ room'[registry].loaded = room[registry].loaded
               /\ room'[registry].readThrough = room[registry].readThrough
               /\ room'[registry].lastSeq = room[registry].lastSeq
               /\ room'[registry].storedRows = room[registry].storedRows,
           \A s \in Sessions : peer'[s].room \in {peer[s].room, registry, NoRoom},
           \/ tick' = tick
           \/ Even(tick.phase) /\ Even(tick'.phase) /\ tick'.room \in {tick.room, registry, NoRoom}
    PROVE  CountInv'
<1> SUFFICES ASSUME faults = 0 PROVE Lone' /\ Numbered' /\ Counted'
  BY DEF CountInv
<1>1. Lone /\ Numbered /\ Counted
  BY DEF CountInv
<1>2. Lone'
  BY <1>1 DEF Lone
<1>3. Numbered'
  BY <1>1 DEF Numbered
<1>4. Counted'
  <2>1. CASE tick' = tick
    BY <1>1, <2>1 DEF Counted
  <2>2. CASE Even(tick.phase) /\ Even(tick'.phase)
    BY <1>1, <2>2 DEF Counted, Even
  <2> QED
    BY <2>1, <2>2
<1> QED
  BY <1>2, <1>3, <1>4

\* A failure ends the claim.
LEMMA CountFault ==
    ASSUME TypeInv, NEW kind, Fault(kind)
    PROVE  CountInv'
  BY RoomsAssumption DEF Fault, CountInv, TypeInv, TypeOK

\* Rows numbered from `seq` on add as many to the store as there are.
LEMMA CountAppend ==
    ASSUME NEW rows \in SUBSET Row, IsFiniteSet(rows), NEW seq \in Nat, NEW count \in Nat,
           \A row \in rows : row.seq <= seq,
           NEW f \in [1..count -> Row], \A i \in 1..count : f[i].seq = seq + i,
           NEW new, \A row : row \in new <=> \E i \in 1..count : row = f[i]
    PROVE  Cardinality(rows \cup new) = Cardinality(rows) + count
<1>1. IsFiniteSet(1..count) /\ Cardinality(1..count) = count
  BY FS_Interval
<1>2. f \in Surjection(1..count, new) /\ f \in Injection(1..count, new)
  <2>1. f \in [1..count -> new]
    OBVIOUS
  <2>2. ASSUME NEW i \in 1..count, NEW j \in 1..count, f[i] = f[j]
        PROVE  i = j
    <3>1. seq + i = seq + j
      BY <2>2
    <3> QED
      BY <3>1
  <2>3. f \in Surjection(1..count, new)
    BY <2>1 DEF Surjection
  <2> QED
    BY <2>1, <2>2, <2>3 DEF Injection, IsInjective
<1>3. IsFiniteSet(new) /\ Cardinality(new) = count
  <2>1. IsFiniteSet(new) /\ Cardinality(new) = Cardinality(1..count)
    BY <1>1, <1>2, FS_Surjection
  <2> QED
    BY <1>1, <2>1
<1>4. rows \cap new = {}
  <2> SUFFICES ASSUME NEW row \in rows, row \in new PROVE FALSE
    OBVIOUS
  <2>1. row.seq \in Nat /\ row.seq <= seq
    BY DEF Row
  <2>2. PICK i \in 1..count : row = f[i]
    OBVIOUS
  <2> QED
    BY <2>1, <2>2
<1>5. Cardinality(rows \cup new) = Cardinality(rows) + Cardinality(new) - Cardinality(rows \cap new)
  BY <1>3, FS_Union
<1>6. Cardinality(rows) \in Nat /\ Cardinality({}) = 0
  BY FS_CardinalityType, FS_EmptySet
<1>7. Cardinality(rows \cap new) = 0
  BY <1>4, <1>6
<1> QED
  BY <1>3, <1>5, <1>6, <1>7

\* Sessions.
LEMMA CountSession ==
    ASSUME TypeInv, CountInv, NEW s \in Sessions, Session(s)
    PROVE  CountInv'
<1>0. /\ room \in [RoomIds -> RoomState] /\ peer \in [Sessions -> PeerState]
      /\ registry \in RoomIds \cup {NoRoom} /\ NoRoom \notin RoomIds
      /\ IF tick.phase = "rest" THEN tick = Resting ELSE tick.room \in RoomIds
  BY RoomsAssumption DEF TypeInv, TypeOK, InUseAreRooms
<1>1. CASE Join(s)
  <2>1. PICK r \in RoomIds :
            /\ IF registry = NoRoom
               THEN registry' = r /\ room' = [room EXCEPT ![r] = NewRoom]
               ELSE r = registry /\ UNCHANGED <<registry, room>>
            /\ peer' = [peer EXCEPT ![s] = [at |-> "joining", room |-> r]]
    BY <1>1 DEF Join
  <2>2. UNCHANGED <<tick, store, deleting, faults>>
    BY <1>1 DEF Join
  <2>3. \A t \in Sessions : peer'[t].room \in {peer[t].room, r}
    BY <1>0, <2>1
  <2>4. CASE registry # NoRoom
    BY <2>1, <2>2, <2>3, <2>4, CountStill
  <2>5. CASE registry = NoRoom
    <3> SUFFICES ASSUME faults = 0 PROVE Lone' /\ Numbered' /\ Counted'
      BY <2>2 DEF CountInv
    <3>1. Lone /\ Numbered
      BY DEF CountInv
    <3>2. registry' = r /\ room'[r].loaded = "no" /\ room'[r].lastSeq = 0
      BY <1>0, <2>1, <2>5 DEF NewRoom
    <3>3. tick.room = NoRoom
      BY <2>5, <3>1 DEF Lone
    <3>4. Lone'
      BY <2>2, <2>3, <2>5, <3>1, <3>2, <3>3 DEF Lone
    <3> QED
      BY <2>2, <3>1, <3>2, <3>4 DEF Numbered, Counted
  <2> QED
    BY <2>4, <2>5
<1>2. CASE Enter(s) \/ Leave(s)
  <2>1. \A t \in Sessions : peer'[t].room \in {peer[t].room, NoRoom}
    <3>1. CASE Enter(s)
      BY <1>0, <3>1 DEF Enter, PeerState
    <3>2. CASE Leave(s)
      BY <1>0, <3>2 DEF Leave, Out
    <3> QED
      BY <1>2, <3>1, <3>2
  <2> QED
    BY <1>2, <2>1, CountStill DEF Enter, Leave
<1>3. CASE LoadFail(s) \/ Cancel(s)
  BY <1>3, CountFault DEF LoadFail, Cancel
<1>4. ASSUME NEW u \in Updates, Apply(s, u)
      PROVE  CountInv'
  <2> DEFINE r == peer[s].room
             waiting == room[r].held \cup {u}
             ready == Ready(waiting, room[r].doc)
             delta == ready \ room[r].doc
  <2>1. /\ room' = [room EXCEPT ![r] = [room[r] EXCEPT
                !.held = waiting \ ready,
                !.doc = @ \cup delta,
                !.size = @ + Cardinality(delta),
                !.changes = @ \cup delta,
                !.pending = @ \cup delta]]
        /\ UNCHANGED <<registry, peer, tick, store, deleting, faults>>
    BY <1>4 DEF Apply
  <2> HIDE DEF waiting, ready, delta
  <2>2. registry # NoRoom =>
               /\ room'[registry].loaded = room[registry].loaded
               /\ room'[registry].readThrough = room[registry].readThrough
               /\ room'[registry].lastSeq = room[registry].lastSeq
               /\ room'[registry].storedRows = room[registry].storedRows
    BY <1>0, <2>1 DEF RoomState
  <2> QED
    BY <2>1, <2>2, CountStill
<1> QED
  BY <1>1, <1>2, <1>3, <1>4 DEF Session

\* A load finds the store's rows and their last number.
LEMMA CountLoad ==
    ASSUME TypeInv, SizeInv, CountInv, NEW r \in RoomIds, Load(r)
    PROVE  CountInv'
<1> SUFFICES ASSUME faults = 0 PROVE Lone' /\ Numbered' /\ Counted'
  BY DEF CountInv, Load, LoadSnapshot, LoadRows
<1>0. /\ room \in [RoomIds -> RoomState] /\ store \in StoreState /\ NoRoom \notin RoomIds
  BY RoomsAssumption DEF TypeInv, TypeOK
<1>1. Lone /\ Numbered /\ Counted
  BY DEF CountInv
<1>2. UNCHANGED <<registry, peer, tick, store, deleting, faults>> /\ room[r].loaded # "yes"
  BY DEF Load, LoadSnapshot, LoadRows
<1>3. r = registry /\ registry # NoRoom
  <2>1. PICK s \in Sessions : peer[s] = [at |-> "joining", room |-> r]
    BY DEF Load, LoadSnapshot, LoadRows
  <2>2. peer[s].room = r
    BY <2>1
  <2> QED
    BY <1>0, <1>1, <2>2 DEF Lone
<1>4. ~Writes /\ room[r].storedRows = 0
  <2>1. tick.phase = "rest" \/ Target = room[r]
    BY <1>0, <1>1, <1>3 DEF Lone, Target, TypeInv, InUseAreRooms
  <2> QED
    BY <1>2, <2>1 DEF SizeInv, Loading, Writes
<1>5. room[r].lastSeq = 0 /\
      (room[r].loaded = "reading" => store.exists /\ room[r].readThrough = store.through)
  BY <1>1, <1>2, <1>3 DEF Counted
<1>6. Lone' /\ Numbered'
  BY <1>1, <1>2 DEF Lone, Numbered
<1>7. CASE LoadSnapshot(r) /\ store.exists
  <2>1. /\ room'[r].loaded = "reading" /\ room'[r].lastSeq = 0
        /\ room'[r].readThrough = store.through
    BY <1>0, <1>5, <1>7 DEF LoadSnapshot, RoomState
  <2>2. Counted'
    BY <1>2, <1>3, <1>7, <2>1 DEF Counted
  <2> QED
    BY <1>6, <2>2
<1>8. CASE LoadSnapshot(r) /\ ~store.exists
  <2>1. /\ room'[r].loaded = "yes" /\ room'[r].lastSeq = 0 /\ room'[r].storedRows = 0
    BY <1>0, <1>4, <1>5, <1>8 DEF LoadSnapshot, RoomState
  <2>2. store.rows = {} /\ store.seq = 0 /\ Cardinality({}) = 0
    BY <1>1, <1>8, FS_EmptySet DEF Numbered
  <2>3. Counted'
    BY <1>2, <1>3, <1>4, <2>1, <2>2 DEF Counted, Writes
  <2> QED
    BY <1>6, <2>3
<1>9. CASE LoadRows(r)
  <2> DEFINE parts == room[r].read \cup UNION {row.payload : row \in store.rows}
             bytes == {p \in store.rows \X Updates : p[2] \in p[1].payload}
             seqs == IF store.rows = {} THEN {room[r].readThrough}
                     ELSE {row.seq : row \in store.rows}
             doc == Ready(parts, {})
             held == parts \ doc
             size == Cardinality(room[r].read) + Cardinality(bytes)
  <2>1. PICK last \in seqs :
            /\ \A seq \in seqs : seq <= last
            /\ room' = [room EXCEPT ![r] = [room[r] EXCEPT
                 !.loaded = "yes",
                 !.doc = doc,
                 !.held = held,
                 !.storedRows = Cardinality(store.rows),
                 !.lastSeq = last,
                 !.size = size]]
    BY <1>9 DEF LoadRows
  <2> HIDE DEF parts, bytes, doc, held, size
  <2>2. /\ room'[r].loaded = "yes" /\ room'[r].lastSeq = last
        /\ room'[r].storedRows = Cardinality(store.rows)
    BY <1>0, <2>1 DEF RoomState
  <2>3. last = store.seq
    <3>1. CASE store.rows = {}
      <4>1. store.seq = store.through
        BY <1>1, <3>1 DEF Numbered
      <4> QED
        BY <1>5, <1>9, <2>1, <3>1, <4>1 DEF LoadRows
    <3>2. CASE store.rows # {}
      <4>1. /\ store.seq \in Nat /\ store.through \in Nat
            /\ \A row \in store.rows : row.seq \in Nat
        BY <1>0 DEF StoreState, Row
      <4>2. \A row \in store.rows : row.seq \in store.through + 1 .. store.seq
        BY <1>1 DEF Numbered
      <4>3. store.seq \in {row.seq : row \in store.rows}
        BY <1>1, <3>2, <4>1, <4>2 DEF Numbered
      <4>4. last \in {row.seq : row \in store.rows} /\ store.seq <= last
        BY <2>1, <3>2, <4>3
      <4> QED
        BY <4>1, <4>2, <4>4
    <3> QED
      BY <3>1, <3>2
  <2>4. Counted'
    BY <1>2, <1>3, <1>4, <2>2, <2>3 DEF Counted, Writes
  <2> QED
    BY <1>6, <2>4
<1> QED
  BY <1>7, <1>8, <1>9 DEF Load

\* Appending numbers the batch's rows past every stored one; recording and
\* compacting bring the room's counters level with the store again.
LEMMA CountFlushLoop ==
    ASSUME TypeInv, SizeInv, CountInv, FlushLoop
    PROVE  CountInv'
<1>0. /\ room \in [RoomIds -> RoomState] /\ store \in StoreState /\ tick \in Tick
      /\ IsFiniteSet(store.rows) /\ registry \in RoomIds \cup {NoRoom} /\ NoRoom \notin RoomIds
      /\ tick.phase = "rest" => tick = Resting
      /\ tick.phase # "rest" => tick.room \in RoomIds
  BY RoomsAssumption DEF TypeInv, TypeOK, InUseAreRooms
<1>1. CASE AppendFail \/ FoldFail
  BY <1>1, CountFault DEF AppendFail, FoldFail
<1> SUFFICES ASSUME ~AppendFail, ~FoldFail PROVE CountInv'
  BY <1>1
<1>3. UNCHANGED <<peer, deleting, faults>>
  BY DEF FlushLoop, TickStart, Take, AppendCommit, Record, Settle, FoldCommit, FoldDone,
         Report, TakeChanges, Unload
<1> SUFFICES ASSUME faults = 0 PROVE Lone' /\ Numbered' /\ Counted'
  BY <1>3 DEF CountInv
<1>2. Lone /\ Numbered /\ Counted
  BY DEF CountInv
<1>4. tick.phase # "rest" =>
          tick.room = registry /\ registry \in RoomIds /\ registry # NoRoom
          /\ Target = room[registry] /\ room[registry] \in RoomState
  BY <1>0, <1>2 DEF Lone, Target
<1>5. /\ Writes => room[registry].loaded = "yes"
      /\ tick.phase # "rest" /\ room[registry].loaded # "yes" => room[registry].storedRows = 0
  BY <1>4 DEF SizeInv, Loading, Writes
<1>6. store.seq \in Nat /\ store.through \in Nat /\ store.rows \in SUBSET Row
  BY <1>0 DEF StoreState
\* Steps that leave the counters and the store alone.
<1>7. ASSUME UNCHANGED <<registry, store>>, Even(tick.phase), Even(tick'.phase),
             tick'.room \in {registry, NoRoom},
             registry # NoRoom =>
               /\ room'[registry].loaded = room[registry].loaded
               /\ room'[registry].readThrough = room[registry].readThrough
               /\ room'[registry].lastSeq = room[registry].lastSeq
               /\ room'[registry].storedRows = room[registry].storedRows
      PROVE  Lone' /\ Numbered' /\ Counted'
  <2>1. CountInv'
    BY <1>3, <1>7, CountStill
  <2> QED
    BY <1>3, <2>1 DEF CountInv
<1>8. CASE TickStart("flush") \/ TickStart("evict")
  <2>1. /\ tick.phase = "rest" /\ tick'.phase = "take" /\ tick'.room = registry
        /\ UNCHANGED <<registry, room, store>>
    BY <1>8 DEF TickStart, Resting
  <2> QED
    BY <1>7, <2>1 DEF Even
<1>9. CASE Take
  <2>1. /\ tick.phase = "take" /\ room' = [room EXCEPT ![tick.room].pending = {}]
        /\ UNCHANGED <<registry, store>>
        /\ tick'.phase \in {"append", "settle", "report"} /\ tick'.room = tick.room
    BY <1>0, <1>9 DEF Take, Tick
  <2>2. /\ room'[registry].loaded = room[registry].loaded
        /\ room'[registry].readThrough = room[registry].readThrough
        /\ room'[registry].lastSeq = room[registry].lastSeq
        /\ room'[registry].storedRows = room[registry].storedRows
    BY <1>0, <1>4, <2>1 DEF RoomState
  <2> QED
    BY <1>4, <1>7, <2>1, <2>2 DEF Even
<1>10. CASE AppendCommit
  <2> DEFINE commit(count, chunk) ==
          LET payload == [i \in 1..count |-> {u \in tick.batch : chunk[u] = i}]
              rows == {[seq |-> store.seq + i, payload |-> payload[i]] : i \in 1..count}
          IN /\ store' = [store EXCEPT !.exists = TRUE, !.rows = @ \cup rows,
                                       !.seq = @ + count]
             /\ tick' = [tick EXCEPT !.phase = "appended", !.rows = count,
                                     !.through = store.seq + count]
  <2>1. tick.phase = "append" /\ UNCHANGED <<registry, room>> /\ tick.batch \in SUBSET Updates
    BY <1>0, <1>10 DEF AppendCommit, Tick
  <2>2. PICK count \in 1..Cardinality(tick.batch) :
            \E chunk \in Surjection(tick.batch, 1..count) : commit(count, chunk)
    BY <1>10 DEF AppendCommit
  <2>3. PICK chunk \in Surjection(tick.batch, 1..count) : commit(count, chunk)
    BY <2>2
  <2> DEFINE payload == [i \in 1..count |-> {u \in tick.batch : chunk[u] = i}]
             new == {[seq |-> store.seq + i, payload |-> payload[i]] : i \in 1..count}
  <2>4. /\ count \in Nat /\ count >= 1
        /\ payload \in [1..count -> SUBSET Updates]
    BY <2>1, Counts
  <2>5. /\ store'.exists /\ store'.rows = store.rows \cup new
        /\ store'.seq = store.seq + count /\ store'.through = store.through
    BY <1>0, <2>3 DEF StoreState
  <2>6. /\ tick'.phase = "appended" /\ tick'.rows = count /\ tick'.through = store.seq + count
        /\ tick'.room = tick.room
    BY <1>0, <2>3 DEF Tick
  <2> HIDE DEF payload
  <2>7. \A row \in new : row.seq \in store.seq + 1 .. store.seq + count
    BY <1>6, <2>4
  <2>8. store.seq + count \in {row.seq : row \in new}
    <3>1. [seq |-> store.seq + count, payload |-> payload[count]] \in new
      BY <2>4
    <3> HIDE DEF new
    <3> QED
      BY <3>1
  <2>9. \A row \in store.rows : row.seq \in store.through + 1 .. store.seq
    BY <1>2 DEF Numbered
  <2>10. \A row \in store.rows : row.seq \in Nat /\ row.seq <= store.seq
    BY <1>6, <2>9 DEF Row
  <2>11. Cardinality(store.rows \cup new) = Cardinality(store.rows) + count
    <3> DEFINE f == [i \in 1..count |-> [seq |-> store.seq + i, payload |-> payload[i]]]
    <3>1. /\ f \in [1..count -> Row] /\ \A i \in 1..count : f[i].seq = store.seq + i
          /\ \A row : row \in new <=> \E i \in 1..count : row = f[i]
      BY <1>6, <2>4 DEF Row
    <3>2. \A row \in store.rows : row.seq <= store.seq
      BY <2>10
    <3> DEFINE rows == store.rows
               seq == store.seq
    <3>3. rows \in SUBSET Row
      BY <1>6
    <3>4. IsFiniteSet(rows) /\ seq \in Nat /\ count \in Nat
      BY <1>0, <1>6, <2>4
    <3>5. \A row \in rows : row.seq <= seq
      BY <3>2
    <3>6. f \in [1..count -> Row]
      BY <3>1
    <3>7. \A i \in 1..count : f[i].seq = seq + i
      BY <3>1
    <3>8. \A row : row \in new <=> \E i \in 1..count : row = f[i]
      BY <3>1
    <3> HIDE DEF f, new, rows, seq
    <3>9. Cardinality(rows \cup new) = Cardinality(rows) + count
      BY <3>3, <3>4, <3>5, <3>6, <3>7, <3>8, CountAppend, Zenon
    <3> QED
      BY <3>9 DEF rows
  <2> HIDE DEF new
  <2>12. Numbered'
    <3>1. store.through <= store.seq
      BY <1>2, <1>6, <2>9, <2>10 DEF Numbered
    <3>2. \A row \in store'.rows : row.seq \in store'.through + 1 .. store'.seq
      BY <1>6, <2>4, <2>5, <2>7, <2>9, <3>1
    <3> QED
      BY <2>5, <2>8, <3>2 DEF Numbered
  <2>13. /\ room[registry].loaded = "yes" /\ room[registry].lastSeq = store.seq
         /\ room[registry].storedRows = Cardinality(store.rows)
    BY <1>2, <1>4, <1>5, <2>1 DEF Writes, Counted
  <2>14. Counted'
    BY <1>4, <1>6, <2>1, <2>4, <2>5, <2>6, <2>11, <2>13 DEF Counted
  <2>15. Lone'
    BY <1>2, <1>3, <2>1, <2>6 DEF Lone
  <2> QED
    BY <2>12, <2>14, <2>15
<1>11. CASE Record
  <2> DEFINE last == IF tick.through > Target.lastSeq THEN tick.through ELSE Target.lastSeq
  <2>1. /\ tick.phase = "appended" /\ UNCHANGED <<registry, store>>
        /\ room' = [room EXCEPT ![tick.room] = [Target EXCEPT
              !.lastSeq = last, !.storedRows = @ + tick.rows]]
        /\ tick'.phase = "settle" /\ tick'.room = tick.room
    BY <1>0, <1>11 DEF Record, Tick
  <2>2. /\ room[registry].loaded = "yes"
        /\ tick.through = store.seq /\ room[registry].lastSeq <= store.seq
        /\ room[registry].storedRows + tick.rows = Cardinality(store.rows)
    BY <1>2, <1>4, <1>5, <2>1 DEF Counted, Writes
  <2>3. last = store.seq
    BY <1>4, <1>6, <2>1, <2>2 DEF RoomState
  <2> HIDE DEF last
  <2>4. /\ room'[registry].loaded = "yes" /\ room'[registry].lastSeq = store.seq
        /\ room'[registry].storedRows = Cardinality(store.rows)
    BY <1>0, <1>4, <2>1, <2>2, <2>3 DEF RoomState
  <2>5. Counted'
    BY <2>1, <2>4 DEF Counted
  <2>6. Lone' /\ Numbered'
    BY <1>2, <1>3, <2>1 DEF Lone, Numbered
  <2> QED
    BY <2>5, <2>6
<1>12. CASE Settle
  <2>1. tick.phase = "settle" /\ UNCHANGED <<registry, room, store>>
    BY <1>12 DEF Settle
  <2>2. CASE ~Due
    <3>1. tick'.phase \in {"unload", "report"} /\ tick'.room = tick.room
      BY <1>0, <1>12, <2>2 DEF Settle, Tick
    <3> QED
      BY <1>4, <1>7, <2>1, <3>1 DEF Even
  <2>3. CASE Due
    <3>1. tick'.phase = "fold" /\ tick'.through = Target.lastSeq /\ tick'.room = tick.room
      BY <1>0, <1>12, <2>3 DEF Settle, Tick
    <3>2. room[registry].loaded = "yes"
      BY <1>4, <1>5, <2>1, <2>3 DEF Due, RoomState
    <3>3. Counted'
      BY <1>2, <1>4, <2>1, <3>1, <3>2 DEF Counted
    <3>4. Lone' /\ Numbered'
      BY <1>2, <1>3, <2>1, <3>1 DEF Lone, Numbered
    <3> QED
      BY <3>3, <3>4
  <2> QED
    BY <2>2, <2>3
<1>13. CASE FoldCommit
  <2>1. tick.phase = "fold" /\ UNCHANGED <<registry, room>>
    BY <1>13 DEF FoldCommit
  <2>2. /\ store'.exists /\ store'.through = tick.through /\ store'.seq = store.seq
        /\ store'.rows = {row \in store.rows : row.seq > tick.through}
        /\ tick'.phase = "folded" /\ tick'.room = tick.room
    BY <1>0, <1>13 DEF FoldCommit, StoreState, Tick
  <2>3. /\ room[registry].loaded = "yes" /\ room[registry].lastSeq = store.seq
        /\ tick.through = store.seq
    BY <1>2, <1>4, <1>5, <2>1 DEF Counted, Writes
  <2>4. store'.rows = {}
    <3>1. \A row \in store.rows : row.seq \in store.through + 1 .. store.seq
      BY <1>2 DEF Numbered
    <3> QED
      BY <1>6, <2>2, <2>3, <3>1 DEF Row
  <2>5. Numbered'
    BY <2>2, <2>3, <2>4 DEF Numbered
  <2>6. Counted'
    BY <2>1, <2>2, <2>3, <2>4 DEF Counted
  <2>7. Lone'
    BY <1>2, <1>3, <2>1, <2>2 DEF Lone
  <2> QED
    BY <2>5, <2>6, <2>7
<1>14. CASE FoldDone
  <2> DEFINE size == Cardinality(tick.snapshot) + Cardinality(Target.pending)
  <2>1. /\ tick.phase = "folded" /\ UNCHANGED <<registry, store>>
        /\ room' = [room EXCEPT ![tick.room] = [Target EXCEPT !.storedRows = 0, !.size = size]]
        /\ tick'.phase \in {"unload", "report"} /\ tick'.room = tick.room
    BY <1>0, <1>14 DEF FoldDone, Tick
  <2> HIDE DEF size
  <2>2. /\ room[registry].loaded = "yes" /\ room[registry].lastSeq = store.seq
        /\ store.rows = {}
    BY <1>2, <1>4, <1>5, <2>1 DEF Counted, Writes
  <2>3. /\ room'[registry].loaded = "yes" /\ room'[registry].lastSeq = store.seq
        /\ room'[registry].storedRows = 0
    BY <1>0, <1>4, <2>1, <2>2 DEF RoomState
  <2>4. Counted'
    BY <2>1, <2>2, <2>3, FS_EmptySet DEF Counted
  <2>5. Lone' /\ Numbered'
    BY <1>2, <1>3, <2>1 DEF Lone, Numbered
  <2> QED
    BY <2>4, <2>5
<1>15. CASE Report \/ TakeChanges
  <2>1. /\ tick.phase \in {"report", "unload"} /\ UNCHANGED <<registry, store>>
        /\ tick'.phase \in {"rest", "decide"} /\ tick'.room \in {tick.room, NoRoom}
    BY <1>0, <1>15 DEF Report, TakeChanges, Resting, Tick
  <2>2. PICK left : room' = [room EXCEPT ![tick.room].changes = left]
    BY <1>15 DEF Report, TakeChanges
  <2>3. /\ room'[registry].loaded = room[registry].loaded
        /\ room'[registry].readThrough = room[registry].readThrough
        /\ room'[registry].lastSeq = room[registry].lastSeq
        /\ room'[registry].storedRows = room[registry].storedRows
    BY <1>0, <1>4, <2>1, <2>2 DEF RoomState
  <2> QED
    BY <1>4, <1>7, <2>1, <2>3 DEF Even
<1>16. CASE Unload
  <2>1. /\ tick.phase = "decide" /\ tick'.phase = "rest" /\ tick'.room = NoRoom
        /\ UNCHANGED <<room, store>>
    BY <1>16 DEF Unload, Resting
  <2>2. CASE ~MayUnload
    BY <1>7, <1>16, <2>1, <2>2 DEF Unload, Even
  <2>3. CASE MayUnload
    <3>1. registry' = NoRoom /\ \A s \in Sessions : peer[s].room # registry
      BY <1>4, <1>16, <2>1, <2>3 DEF Unload, MayUnload, HasPeers
    <3>2. Lone'
      BY <1>2, <1>3, <2>1, <3>1 DEF Lone
    <3> QED
      BY <1>2, <2>1, <3>1, <3>2 DEF Numbered, Counted
  <2> QED
    BY <2>2, <2>3
<1> QED
  BY <1>8, <1>9, <1>10, <1>11, <1>12, <1>13, <1>14, <1>15, <1>16 DEF FlushLoop

\* Every step keeps the invariant.
LEMMA CountStep == TypeInv /\ SizeInv /\ CountInv /\ [Next]_vars => CountInv'
<1> SUFFICES ASSUME TypeInv, SizeInv, CountInv, [Next]_vars PROVE CountInv'
  OBVIOUS
<1>1. CASE Delete
  <2>1. CASE Discard
    BY <2>1, CountFault DEF Discard
  <2>2. CASE DeleteCommit \/ DeleteFail
    BY <2>2, CountFault DEF DeleteCommit, DeleteFail, CountInv, Lone
  <2> QED
    BY <1>1, <2>1, <2>2 DEF Delete
<1>2. CASE Server
  <2>1. CASE Stop
    BY <2>1, CountStill DEF Stop
  <2>2. CASE FlushAll
    <3>1. /\ UNCHANGED <<registry, room, peer, store, deleting, faults>> /\ tick.phase = "rest"
          /\ tick' = tick \/ (tick'.phase = "take" /\ tick'.room = registry)
      BY <2>2 DEF FlushAll, Resting
    <3> QED
      BY <3>1, CountStill DEF Even
  <2>3. CASE Reboot
    <3>1. /\ registry' = NoRoom /\ ~deleting' /\ tick'.room = NoRoom
          /\ \A s \in Sessions : peer'[s].room = NoRoom
          /\ UNCHANGED <<store, faults>>
      BY <2>3 DEF Reboot, Out, Resting
    <3> QED
      BY <3>1 DEF CountInv, Lone, Numbered, Counted
  <2> QED
    BY <1>2, <2>1, <2>2, <2>3 DEF Server, Crash, Exit
<1>3. CASE UNCHANGED vars
  BY <1>3, CountStill DEF vars
<1> QED
  BY <1>1, <1>2, <1>3, CountSession, CountLoad, CountFlushLoop DEF Next

\* Until a store call fails, a request is dropped or a DELETE comes, a room at
\* rest counts exactly the stored rows and knows the newest, for any number of
\* updates, sessions, rooms, chunkings of a batch, crashes and restarts: no
\* compaction is skipped and none deletes a row it does not fold (room.rs
\* record_rows, compact, load_from).
THEOREM CountersMatchStoreTheorem == Spec => []CountersMatchStore
<1>1. Init => CountInv
  BY DEF Init, CountInv, Lone, Numbered, Counted, Out, Resting, NoDocument
<1>2. CountInv => CountersMatchStore
  BY DEF CountInv, Counted, Numbered, CountersMatchStore
<1> QED
  BY <1>1, <1>2, SizeInit, SizeStep, CountStep, TypeInvariant, PTL DEF Spec

-----------------------------------------------------------------------------
(***************************************************************************)
(* Rooms implements DurableDocument (KeepsItsPromise), and a graceful      *)
(* shutdown saves everything, for every value of the constants, as long as *)
(* nobody deletes the document.                                            *)
(***************************************************************************)

\* With an update, what it builds on.
Closed(S) == \A u \in S : Requires[u] \subseteq S

\* Without DELETE there is one room: the registered one.
OneRoom ==
    /\ ~deleting
    /\ \A s \in Sessions :
          /\ peer[s].room \in {registry, NoRoom}
          /\ peer[s].at = "in" => room[registry].loaded = "yes"
    /\ tick.room \in {registry, NoRoom}

\* What is stored, and what the loop is about to store, can be loaded whole.
StoreInv ==
    /\ ~store.exists => Stored = {}
    /\ Closed(Stored)
    /\ Closed(Stored \cup tick.batch)

\* A pass that writes is about a loaded room, and a compaction never writes a
\* snapshot that misses a stored update or holds one the room does not.
PassInv ==
    /\ tick.phase \notin {"append", "appended"} => tick.batch = {}
    /\ tick.phase = "appended" => tick.batch \subseteq Stored
    /\ Writes => room[registry].loaded = "yes"
    /\ tick.phase = "fold" =>
          /\ Closed(tick.snapshot)
          /\ Stored \subseteq tick.snapshot
          /\ tick.snapshot \subseteq room[registry].doc

\* A loaded room holds what is stored, what it queued and what is being written,
\* and no more; an unloaded one holds nothing, and the snapshot a load has read
\* is still the stored one.
RoomInv ==
    registry # NoRoom =>
        IF room[registry].loaded = "yes"
        THEN /\ room[registry].doc = Stored \cup room[registry].pending \cup tick.batch
             /\ Closed(room[registry].doc)
        ELSE /\ room[registry].doc = {}
             /\ room[registry].pending = {}
             /\ room[registry].storedRows = 0
             /\ room[registry].loaded = "reading" =>
                   store.exists /\ room[registry].read = store.snapshot

\* The inductive invariant behind KeepsItsPromise.
PromiseInv == OneRoom /\ StoreInv /\ PassInv /\ RoomInv

\* A step DurableDocument allows.
Keeps == [Durable!Next]_(Durable!vars)

\* What is stored depends on the store alone.
LEMMA StoredSame ==
    ASSUME UNCHANGED store
    PROVE  UNCHANGED Stored
  BY DEF Stored

\* A session is in the registered room.
LEMMA PeerRoom ==
    ASSUME TypeInv, PromiseInv, NEW s \in Sessions, peer[s].at # "out"
    PROVE  peer[s].room = registry /\ registry \in RoomIds /\ registry # NoRoom
<1>1. NoRoom \notin RoomIds
  BY RoomsAssumption
<1>2. peer[s].room \in RoomIds
  BY DEF TypeInv, InUseAreRooms
<1>3. peer[s].room \in {registry, NoRoom}
  BY DEF PromiseInv, OneRoom
<1> QED
  BY <1>1, <1>2, <1>3

\* Joining neither shows nor hides an update.
LEMMA JoinKeeps ==
    ASSUME TypeInv, PromiseInv, NEW s \in Sessions, Join(s)
    PROVE  PromiseInv' /\ Keeps
<1>0. /\ room \in [RoomIds -> RoomState] /\ peer \in [Sessions -> PeerState]
      /\ registry \in RoomIds \cup {NoRoom} /\ NoRoom \notin RoomIds
      /\ IF tick.phase = "rest" THEN tick = Resting ELSE tick.room \in RoomIds
  BY RoomsAssumption DEF TypeInv, TypeOK, InUseAreRooms
<1>1. PICK r \in RoomIds :
          /\ IF registry = NoRoom
             THEN registry' = r /\ room' = [room EXCEPT ![r] = NewRoom]
             ELSE r = registry /\ UNCHANGED <<registry, room>>
          /\ peer' = [peer EXCEPT ![s] = [at |-> "joining", room |-> r]]
  BY DEF Join
<1>2. UNCHANGED <<tick, store, process, deleting, faults, restarts>> /\ UNCHANGED Stored
  BY StoredSame DEF Join
<1>3. CASE registry = NoRoom
  <2>1. tick = Resting
    BY <1>0, <1>3 DEF PromiseInv, OneRoom
  <2>2. registry' = r /\ room'[r] = NewRoom
    BY <1>0, <1>1, <1>3
  <2>3. OneRoom'
    <3>1. ASSUME NEW t \in Sessions
          PROVE  peer'[t].room \in {r, NoRoom} /\ peer'[t].at # "in"
      BY <1>0, <1>1, <1>3, <3>1 DEF PromiseInv, OneRoom, TypeInv, InUseAreRooms, Out
    <3> QED
      BY <1>2, <2>1, <2>2, <3>1 DEF PromiseInv, OneRoom, Resting
  <2>4. StoreInv'
    BY <1>2 DEF PromiseInv, StoreInv, Closed
  <2>5. PassInv'
    BY <1>2, <2>1 DEF PromiseInv, PassInv, Writes, Resting
  <2>6. RoomInv'
    BY <2>2 DEF RoomInv, NewRoom
  <2>7. UNCHANGED Content
    BY <1>2, <1>3, <2>2 DEF Content, NewRoom
  <2> QED
    BY <1>2, <2>3, <2>4, <2>5, <2>6, <2>7 DEF PromiseInv, Keeps, Durable!vars
<1>4. CASE registry # NoRoom
  <2>1. UNCHANGED <<registry, room>>
    BY <1>1, <1>4
  <2>2. OneRoom'
    <3>1. ASSUME NEW t \in Sessions
          PROVE  /\ peer'[t].room \in {registry, NoRoom}
                 /\ peer'[t].at = "in" => room[registry].loaded = "yes"
      BY <1>0, <1>1, <1>4, <3>1 DEF PromiseInv, OneRoom
    <3> QED
      BY <1>2, <2>1, <3>1 DEF PromiseInv, OneRoom
  <2>3. StoreInv' /\ PassInv' /\ RoomInv' /\ UNCHANGED Content
    BY <1>2, <2>1 DEF PromiseInv, StoreInv, PassInv, RoomInv, Writes, Closed, Content
  <2> QED
    BY <1>2, <2>2, <2>3 DEF PromiseInv, Keeps, Durable!vars
<1> QED
  BY <1>3, <1>4

\* Enter and Leave change nothing but the session.
LEMMA PeerKeeps ==
    ASSUME TypeInv, PromiseInv, NEW s \in Sessions, Enter(s) \/ Leave(s)
    PROVE  PromiseInv' /\ Keeps
<1>0. peer \in [Sessions -> PeerState]
      /\ peer[s].at # "out" => peer[s].room \in RoomIds
  BY DEF TypeInv, TypeOK, InUseAreRooms
<1>1. UNCHANGED <<registry, room, tick, store, deleting, restarts>> /\ UNCHANGED Stored
  BY StoredSame DEF Enter, Leave
<1>2. OneRoom'
  <2>1. ASSUME NEW t \in Sessions
        PROVE  /\ peer'[t].room \in {registry, NoRoom}
               /\ peer'[t].at = "in" => room[registry].loaded = "yes"
    <3>1. CASE Enter(s)
      <4>1. peer[s].room = registry /\ room[registry].loaded = "yes"
        BY <3>1, PeerRoom DEF Enter
      <4> QED
        BY <1>0, <2>1, <3>1, <4>1 DEF Enter, PromiseInv, OneRoom, PeerState
    <3>2. CASE Leave(s)
      BY <1>0, <2>1, <3>2 DEF Leave, PromiseInv, OneRoom, Out
    <3> QED
      BY <3>1, <3>2
  <2> QED
    BY <1>1, <2>1 DEF PromiseInv, OneRoom
<1>3. StoreInv' /\ PassInv' /\ RoomInv' /\ UNCHANGED Content
  BY <1>1 DEF PromiseInv, StoreInv, PassInv, RoomInv, Writes, Closed, Content
<1> QED
  BY <1>1, <1>2, <1>3 DEF PromiseInv, Keeps, Durable!vars

\* A load that fails or is dropped: the room stays unloaded.
LEMMA LoadFailKeeps ==
    ASSUME TypeInv, PromiseInv, NEW s \in Sessions, LoadFail(s) \/ Cancel(s)
    PROVE  PromiseInv' /\ Keeps
<1> DEFINE r == peer[s].room
<1>0. /\ room \in [RoomIds -> RoomState] /\ peer \in [Sessions -> PeerState]
      /\ r = registry /\ r \in RoomIds /\ registry # NoRoom
      /\ room[r].loaded # "yes"
  BY PeerRoom DEF LoadFail, Cancel, TypeInv, TypeOK
<1>1. /\ peer' = [peer EXCEPT ![s] = Out]
      /\ UNCHANGED <<registry, tick, store, deleting, restarts>> /\ UNCHANGED Stored
  BY StoredSame DEF LoadFail, Cancel
<1>2. /\ room'[r].loaded \in {"no", room[r].loaded}
      /\ room'[r].doc = room[r].doc
      /\ room'[r].pending = room[r].pending
      /\ room'[r].storedRows = room[r].storedRows
      /\ room'[r].read = room[r].read
  <2>1. CASE LoadFail(s)
    BY <1>0, <2>1 DEF LoadFail, RoomState
  <2>2. CASE Cancel(s)
    <3>1. PICK loaded \in {"no"} \cup {room[r].loaded : t \in Waiting(s)} :
              room' = [room EXCEPT ![r] = [room[r] EXCEPT
                           !.loaded = loaded, !.leaked = @ + 1]]
      BY <2>2 DEF Cancel
    <3>2. loaded \in {"no", room[r].loaded}
      BY <3>1
    <3> QED
      BY <1>0, <3>1, <3>2 DEF RoomState
  <2> QED
    BY <2>1, <2>2
<1>3. OneRoom'
  <2>1. ASSUME NEW t \in Sessions
        PROVE  peer'[t].room \in {registry, NoRoom} /\ peer'[t].at # "in"
    BY <1>0, <1>1, <2>1 DEF PromiseInv, OneRoom, Out
  <2> QED
    BY <1>1, <2>1 DEF PromiseInv, OneRoom
<1>4. StoreInv'
  BY <1>1 DEF PromiseInv, StoreInv, Closed
<1>5. PassInv'
  BY <1>0, <1>1 DEF PromiseInv, PassInv, Writes
<1>6. RoomInv'
  BY <1>0, <1>1, <1>2 DEF PromiseInv, RoomInv
<1>7. UNCHANGED Content
  BY <1>0, <1>1, <1>2 DEF Content
<1> QED
  BY <1>1, <1>3, <1>4, <1>5, <1>6, <1>7 DEF PromiseInv, Keeps, Durable!vars

\* A load yields what the store holds.
LEMMA LoadKeeps ==
    ASSUME TypeInv, PromiseInv, NEW r \in RoomIds, Load(r)
    PROVE  PromiseInv' /\ Keeps
<1>0. /\ room \in [RoomIds -> RoomState] /\ store \in StoreState
      /\ r = registry /\ registry # NoRoom
      /\ room[r].loaded \in {"no", "reading"}
      /\ room[r].doc = {} /\ room[r].pending = {} /\ room[r].storedRows = 0
      /\ tick.batch = {} /\ ~Writes
      /\ \A s \in Sessions : peer[s].at # "in"
  <2>1. r = registry /\ registry # NoRoom
    <3>1. PICK s \in Sessions : peer[s] = [at |-> "joining", room |-> r]
      BY DEF Load, LoadSnapshot, LoadRows
    <3> QED
      BY <3>1, PeerRoom
  <2>2. room[r].loaded \in {"no", "reading"}
    BY DEF Load, LoadSnapshot, LoadRows
  <2>3. ~Writes /\ tick.batch = {}
    BY <2>1, <2>2 DEF PromiseInv, PassInv, Writes
  <2> QED
    BY <2>1, <2>2, <2>3 DEF TypeInv, TypeOK, PromiseInv, RoomInv, OneRoom
<1>1. UNCHANGED <<registry, peer, tick, store, deleting, restarts>> /\ UNCHANGED Stored
  BY StoredSame DEF Load, LoadSnapshot, LoadRows
<1>2. OneRoom' /\ StoreInv' /\ PassInv'
  BY <1>0, <1>1 DEF PromiseInv, OneRoom, StoreInv, PassInv, Writes, Closed
<1>3. /\ Content = Stored
      /\ Closed(Stored)
  BY <1>0 DEF Content, PromiseInv, StoreInv
<1>4. CASE LoadSnapshot(r) /\ store.exists
  <2>1. /\ room'[r].loaded = "reading" /\ room'[r].doc = {} /\ room'[r].pending = {}
        /\ room'[r].storedRows = 0 /\ room'[r].read = store.snapshot
    BY <1>0, <1>4 DEF LoadSnapshot, RoomState
  <2>2. RoomInv' /\ Content' = Stored
    BY <1>0, <1>1, <1>4, <2>1 DEF RoomInv, Content
  <2> QED
    BY <1>1, <1>2, <1>3, <2>2 DEF PromiseInv, Keeps, Durable!vars
<1>5. CASE LoadSnapshot(r) /\ ~store.exists
  <2>1. /\ room'[r].loaded = "yes" /\ room'[r].doc = {} /\ room'[r].pending = {}
    BY <1>0, <1>5 DEF LoadSnapshot, RoomState
  <2>2. Stored = {}
    BY <1>5 DEF PromiseInv, StoreInv
  <2>3. RoomInv' /\ Content' = Stored
    BY <1>0, <1>1, <2>1, <2>2 DEF RoomInv, Content, Closed
  <2> QED
    BY <1>1, <1>2, <1>3, <2>3 DEF PromiseInv, Keeps, Durable!vars
<1>6. CASE LoadRows(r)
  <2> DEFINE parts == room[r].read \cup UNION {row.payload : row \in store.rows}
  <2>1. parts = Stored
    BY <1>0, <1>6 DEF LoadRows, PromiseInv, RoomInv, Stored
  <2>2. Ready(parts, {}) = Stored
    BY <1>3, <2>1 DEF Ready, Closed
  <2>3. room'[r].loaded = "yes" /\ room'[r].doc = Stored /\ room'[r].pending = {}
    BY <1>0, <1>6, <2>2 DEF LoadRows, RoomState
  <2>4. RoomInv' /\ Content' = Stored
    BY <1>0, <1>1, <1>3, <2>3 DEF RoomInv, Content, Closed
  <2> QED
    BY <1>1, <1>2, <1>3, <2>4 DEF PromiseInv, Keeps, Durable!vars
<1> QED
  BY <1>4, <1>5, <1>6 DEF Load

\* An accepted update, with those it releases, joins the document and the queue.
LEMMA ApplyKeeps ==
    ASSUME TypeInv, PromiseInv, NEW s \in Sessions, NEW u \in Updates, Apply(s, u)
    PROVE  PromiseInv' /\ Keeps
<1> DEFINE r == peer[s].room
           waiting == room[r].held \cup {u}
           ready == Ready(waiting, room[r].doc)
           delta == ready \ room[r].doc
<1>0. /\ room \in [RoomIds -> RoomState] /\ r \in RoomIds
      /\ r = registry /\ registry # NoRoom /\ room[r].loaded = "yes"
      /\ room[r].doc = Stored \cup room[r].pending \cup tick.batch
      /\ Closed(room[r].doc)
  <2>1. peer[s].at = "in"
    BY DEF Apply
  <2>2. r = registry /\ registry \in RoomIds /\ registry # NoRoom
    BY <2>1, PeerRoom
  <2>3. room[r].loaded = "yes"
    BY <2>1, <2>2 DEF PromiseInv, OneRoom
  <2> QED
    BY <2>2, <2>3 DEF TypeInv, TypeOK, PromiseInv, RoomInv
<1>1. UNCHANGED <<registry, peer, tick, store, deleting, restarts>> /\ UNCHANGED Stored
  BY StoredSame DEF Apply
<1>2. room[r].held \in SUBSET Updates /\ room[r].doc \in SUBSET Updates
  BY <1>0 DEF RoomState
<1>3. Closed(room[r].doc \cup delta) /\ delta \in SUBSET Updates
  BY <1>0, <1>2, RoomsAssumption DEF Closed, Ready
<1>4. room' = [room EXCEPT ![r] = [room[r] EXCEPT
            !.held = waiting \ ready,
            !.doc = @ \cup delta,
            !.size = @ + Cardinality(delta),
            !.changes = @ \cup delta,
            !.pending = @ \cup delta]]
  BY DEF Apply
<1> HIDE DEF waiting, ready, delta
<1>5. /\ room'[r].loaded = "yes"
      /\ room'[r].doc = room[r].doc \cup delta
      /\ room'[r].pending = room[r].pending \cup delta
  BY <1>0, <1>4 DEF RoomState
<1>6. OneRoom'
  BY <1>0, <1>1, <1>5 DEF PromiseInv, OneRoom
<1>7. StoreInv'
  BY <1>1 DEF PromiseInv, StoreInv, Closed
<1>8. PassInv'
  BY <1>0, <1>1, <1>5 DEF PromiseInv, PassInv, Writes, Closed
<1>9. RoomInv'
  BY <1>0, <1>1, <1>3, <1>5 DEF RoomInv, Closed
<1>10. Content = room[r].doc /\ Content' = room[r].doc \cup delta
  BY <1>0, <1>1, <1>5 DEF Content
<1>11. Durable!Accept
  BY <1>1, <1>2, <1>3, <1>10 DEF Durable!Accept
<1> QED
  BY <1>6, <1>7, <1>8, <1>9, <1>11 DEF PromiseInv, Keeps, Durable!Next

\* A pass that begins keeps the promise, whatever its mode.
LEMMA StartKeeps ==
    ASSUME TypeInv, PromiseInv, NEW mode, registry # NoRoom, tick.phase = "rest",
           tick' = [Resting EXCEPT !.phase = "take", !.room = registry, !.mode = mode],
           UNCHANGED <<registry, room, peer, store, deleting, restarts>>
    PROVE  PromiseInv' /\ Keeps
<1>1. /\ tick.batch = {} /\ tick'.batch = {} /\ tick'.phase = "take" /\ tick'.room = registry
      /\ UNCHANGED Stored
  BY StoredSame DEF PromiseInv, PassInv, Resting
<1>2. OneRoom'
  BY <1>1 DEF PromiseInv, OneRoom
<1>3. StoreInv' /\ PassInv' /\ RoomInv' /\ UNCHANGED Content
  BY <1>1 DEF PromiseInv, StoreInv, PassInv, RoomInv, Writes, Closed, Content
<1> QED
  BY <1>1, <1>2, <1>3 DEF PromiseInv, Keeps, Durable!vars

\* What GiveUp leaves: no batch, the same room or none.
LEMMA GiveUpQuiet ==
    ASSUME tick \in Tick, GiveUp
    PROVE  /\ tick'.phase \in {"rest", "report", "unload"}
           /\ tick'.batch = {}
           /\ tick'.room \in {tick.room, NoRoom}
<1>1. tick.mode \in {"flush", "evict", "final"}
  BY DEF Tick
<1>2. CASE tick.mode = "evict"
  BY <1>2 DEF GiveUp, Resting
<1>3. CASE tick.mode \in {"flush", "final"}
  <2>1. PICK phase \in {"report", "unload"} :
            tick' = [tick EXCEPT !.phase = phase, !.batch = {}]
    BY <1>3 DEF GiveUp
  <2> QED
    BY <2>1 DEF Tick
<1> QED
  BY <1>1, <1>2, <1>3

\* Every step of a pass keeps the promise: appending and folding are saves, the
\* rest changes nothing a peer or a restart can see.
LEMMA FlushLoopKeeps ==
    ASSUME TypeInv, PromiseInv, FlushLoop
    PROVE  PromiseInv' /\ Keeps
<1>0. /\ room \in [RoomIds -> RoomState] /\ tick \in Tick /\ store \in StoreState
      /\ tick.phase # "rest" =>
            /\ tick.room = registry /\ registry \in RoomIds /\ registry # NoRoom
            /\ Target = room[registry]
      /\ room[registry].loaded # "yes" => ~Writes
  <2>1. NoRoom \notin RoomIds
    BY RoomsAssumption
  <2> QED
    BY <2>1 DEF TypeInv, TypeOK, InUseAreRooms, PromiseInv, OneRoom, PassInv, Target
<1>1. ASSUME NEW mode \in {"flush", "evict"}, TickStart(mode)
      PROVE  PromiseInv' /\ Keeps
  BY <1>1, StartKeeps DEF TickStart
\* A step of the loop that writes no room's document or queue.
<1>2. ASSUME UNCHANGED <<registry, peer, store, deleting, restarts>>,
             tick'.room \in {registry, NoRoom},
             tick'.batch = {}, tick.batch \subseteq Stored,
             tick'.phase \notin {"append", "appended", "fold", "folded"},
             registry # NoRoom =>
                /\ room'[registry].loaded = room[registry].loaded
                /\ room'[registry].doc = room[registry].doc
                /\ room'[registry].pending = room[registry].pending
                /\ room'[registry].read = room[registry].read
                /\ room[registry].loaded # "yes" =>
                     room'[registry].storedRows = room[registry].storedRows
      PROVE  PromiseInv' /\ Keeps
  <2>1. UNCHANGED Stored /\ tick.batch \cup Stored = Stored
    BY <1>2, StoredSame
  <2>2. OneRoom'
    <3>1. ASSUME NEW t \in Sessions
          PROVE  /\ peer'[t].room \in {registry, NoRoom}
                 /\ peer'[t].at = "in" => room'[registry].loaded = "yes"
      BY <1>2, <3>1, PeerRoom DEF PromiseInv, OneRoom
    <3> QED
      BY <1>2, <3>1 DEF PromiseInv, OneRoom
  <2>3. StoreInv' /\ PassInv'
    BY <1>2, <2>1 DEF PromiseInv, StoreInv, PassInv, Writes, Closed
  <2>4. RoomInv'
    BY <1>2, <2>1 DEF PromiseInv, RoomInv, Closed
  <2>5. UNCHANGED Content
    BY <1>2, <2>1 DEF Content
  <2> QED
    BY <1>2, <2>1, <2>2, <2>3, <2>4, <2>5 DEF PromiseInv, Keeps, Durable!vars
<1>3. CASE Take
  <2> DEFINE next == IF Target.pending # {} THEN "append"
                     ELSE IF Forced THEN "settle" ELSE "report"
  <2>1. /\ tick.phase = "take"
        /\ tick' = [tick EXCEPT !.batch = Target.pending, !.phase = next]
        /\ room' = [room EXCEPT ![registry].pending = {}]
        /\ UNCHANGED <<registry, peer, store, deleting, restarts>> /\ UNCHANGED Stored
    BY <1>0, <1>3, StoredSame DEF Take
  <2>2. /\ tick'.batch = room[registry].pending /\ tick'.phase = next
        /\ tick'.room = registry
    BY <1>0, <2>1 DEF Tick
  <2>3. /\ room'[registry].loaded = room[registry].loaded
        /\ room'[registry].doc = room[registry].doc
        /\ room'[registry].pending = {}
        /\ room'[registry].read = room[registry].read
        /\ room'[registry].storedRows = room[registry].storedRows
    BY <1>0, <2>1 DEF RoomState
  <2>4. tick.batch = {}
    BY <2>1 DEF PromiseInv, PassInv
  <2>5. OneRoom'
    BY <2>1, <2>2, <2>3 DEF PromiseInv, OneRoom
  <2>6. IF room[registry].loaded = "yes"
        THEN room[registry].doc = Stored \cup tick'.batch /\ Closed(room[registry].doc)
        ELSE tick'.batch = {} /\ next \in {"settle", "report"}
    BY <1>0, <2>1, <2>2, <2>4 DEF PromiseInv, RoomInv
  <2>7. StoreInv'
    BY <2>1, <2>4, <2>6 DEF PromiseInv, StoreInv, Closed
  <2>8. PassInv'
    BY <1>0, <2>1, <2>2, <2>3, <2>6 DEF PassInv, Writes
  <2>9. RoomInv'
    BY <1>0, <2>1, <2>3, <2>6 DEF PromiseInv, RoomInv, Closed
  <2>10. UNCHANGED Content
    BY <2>1, <2>3 DEF Content
  <2> QED
    BY <2>1, <2>5, <2>7, <2>8, <2>9, <2>10 DEF PromiseInv, Keeps, Durable!vars
<1>4. CASE AppendCommit
  <2> DEFINE commit(count, chunk) ==
          LET payload == [i \in 1..count |-> {u \in tick.batch : chunk[u] = i}]
              rows == {[seq |-> store.seq + i, payload |-> payload[i]] : i \in 1..count}
          IN /\ store' = [store EXCEPT !.exists = TRUE, !.rows = @ \cup rows,
                                       !.seq = @ + count]
             /\ tick' = [tick EXCEPT !.phase = "appended", !.rows = count,
                                     !.through = store.seq + count]
  <2>1. PICK count \in 1..Cardinality(tick.batch) :
            \E chunk \in Surjection(tick.batch, 1..count) : commit(count, chunk)
    BY <1>4 DEF AppendCommit
  <2>2. PICK chunk \in Surjection(tick.batch, 1..count) : commit(count, chunk)
    BY <2>1
  <2> DEFINE payload == [i \in 1..count |-> {u \in tick.batch : chunk[u] = i}]
             rows == {[seq |-> store.seq + i, payload |-> payload[i]] : i \in 1..count}
  <2>3. UNION {row.payload : row \in rows} = tick.batch
    <3>1. \A u \in tick.batch : chunk[u] \in 1..count
      BY DEF Surjection
    <3>2. ASSUME NEW u \in tick.batch
          PROVE  u \in UNION {row.payload : row \in rows}
      <4>1. [seq |-> store.seq + chunk[u], payload |-> payload[chunk[u]]] \in rows
        BY <3>1
      <4>2. u \in payload[chunk[u]]
        BY <3>1
      <4> DEFINE row == [seq |-> store.seq + chunk[u], payload |-> payload[chunk[u]]]
      <4>3. row \in rows /\ u \in row.payload
        BY <4>1, <4>2
      <4> HIDE DEF row, rows
      <4> QED
        BY <4>3
    <3>3. ASSUME NEW row \in rows
          PROVE  row.payload \subseteq tick.batch
      OBVIOUS
    <3> QED
      BY <3>2, <3>3
  <2>4. /\ tick.phase = "append"
        /\ store'.exists /\ store'.snapshot = store.snapshot
        /\ store'.rows = store.rows \cup rows
        /\ UNCHANGED <<registry, room, peer, deleting, restarts>>
    BY <1>0, <1>4, <2>2 DEF AppendCommit, StoreState
  <2>5. tick'.phase = "appended" /\ tick'.room = tick.room /\ tick'.batch = tick.batch
    BY <1>0, <2>2 DEF Tick
  <2> HIDE DEF rows
  <2>6. Stored' = Stored \cup tick.batch
    BY <2>3, <2>4 DEF Stored
  <2>7. room[registry].loaded = "yes"
    BY <2>4 DEF PromiseInv, PassInv, Writes
  <2>8. OneRoom'
    BY <1>0, <2>4, <2>5 DEF PromiseInv, OneRoom
  <2>9. StoreInv'
    BY <2>4, <2>5, <2>6 DEF PromiseInv, StoreInv, Closed
  <2>10. PassInv'
    BY <2>4, <2>5, <2>6, <2>7 DEF PassInv, Writes
  <2>11. RoomInv'
    BY <2>4, <2>5, <2>6, <2>7 DEF PromiseInv, RoomInv, Closed
  <2>12. /\ UNCHANGED Content
         /\ Stored \subseteq Stored' /\ Stored' \subseteq Content
    BY <1>0, <2>4, <2>6, <2>7 DEF Content, PromiseInv, RoomInv
  <2>13. Durable!Save
    BY <2>4, <2>12 DEF Durable!Save
  <2> QED
    BY <2>8, <2>9, <2>10, <2>11, <2>13 DEF PromiseInv, Keeps, Durable!Next
<1>5. CASE Record
  <2>1. /\ tick.phase = "appended"
        /\ tick' = [tick EXCEPT !.phase = "settle", !.batch = {}]
        /\ UNCHANGED <<registry, peer, store, deleting, restarts>>
    BY <1>5 DEF Record
  <2>2. tick'.phase = "settle" /\ tick'.batch = {} /\ tick'.room = registry
    BY <1>0, <2>1 DEF Tick
  <2>3. tick.batch \subseteq Stored /\ room[registry].loaded = "yes"
    BY <2>1 DEF PromiseInv, PassInv, Writes
  <2>4. /\ room'[registry].loaded = room[registry].loaded
        /\ room'[registry].doc = room[registry].doc
        /\ room'[registry].pending = room[registry].pending
        /\ room'[registry].read = room[registry].read
    BY <1>0, <1>5, <2>1 DEF Record, RoomState
  <2> QED
    BY <1>2, <2>1, <2>2, <2>3, <2>4
<1>6. CASE AppendFail
  <2>1. /\ tick.phase \in {"append", "appended"}
        /\ room' = [room EXCEPT ![registry].pending = tick.batch \cup @]
        /\ UNCHANGED <<registry, peer, store, deleting, restarts>> /\ UNCHANGED Stored
        /\ tick'.phase \in {"rest", "report", "unload"} /\ tick'.batch = {}
        /\ tick'.room \in {registry, NoRoom}
    BY <1>0, <1>6, GiveUpQuiet, StoredSame DEF AppendFail
  <2>2. /\ room'[registry].loaded = room[registry].loaded
        /\ room'[registry].doc = room[registry].doc
        /\ room'[registry].pending = tick.batch \cup room[registry].pending
    BY <1>0, <2>1 DEF RoomState
  <2>3. room[registry].loaded = "yes"
    BY <2>1 DEF PromiseInv, PassInv, Writes
  <2>4. OneRoom'
    BY <2>1, <2>2 DEF PromiseInv, OneRoom
  <2>5. StoreInv'
    BY <2>1 DEF PromiseInv, StoreInv, Closed
  <2>6. PassInv'
    BY <2>1 DEF PassInv, Writes
  <2>7. RoomInv'
    BY <2>1, <2>2, <2>3 DEF PromiseInv, RoomInv, Closed
  <2>8. UNCHANGED Content
    BY <2>1, <2>2 DEF Content
  <2> QED
    BY <2>1, <2>4, <2>5, <2>6, <2>7, <2>8 DEF PromiseInv, Keeps, Durable!vars
<1>7. CASE Settle
  <2>1. /\ tick.phase = "settle" /\ tick.batch = {}
        /\ UNCHANGED <<registry, room, peer, store, deleting, restarts>> /\ UNCHANGED Stored
    BY <1>7, StoredSame DEF Settle, PromiseInv, PassInv
  <2>2. CASE ~Due
    <3>1. PICK phase \in {"unload", "report"} : tick' = [tick EXCEPT !.phase = phase]
      BY <1>7, <2>2 DEF Settle
    <3>2. tick'.phase = phase /\ tick'.batch = {} /\ tick'.room = registry
      BY <1>0, <2>1, <3>1 DEF Tick
    <3> QED
      BY <1>2, <2>1, <3>2
  <2>3. CASE Due
    <3>1. tick' = [tick EXCEPT !.phase = "fold", !.snapshot = Target.doc,
                               !.through = Target.lastSeq]
      BY <1>7, <2>3 DEF Settle
    <3>2. /\ tick'.phase = "fold" /\ tick'.snapshot = room[registry].doc
          /\ tick'.batch = {} /\ tick'.room = registry
      BY <1>0, <2>1, <3>1 DEF Tick
    <3>3. room[registry].loaded = "yes"
      BY <1>0, <2>1, <2>3 DEF Due, PromiseInv, RoomInv
    <3>4. OneRoom' /\ StoreInv'
      BY <2>1, <3>2 DEF PromiseInv, OneRoom, StoreInv, Closed
    <3>5. PassInv'
      BY <1>0, <2>1, <3>2, <3>3 DEF PromiseInv, PassInv, RoomInv, Writes, Closed
    <3>6. RoomInv' /\ UNCHANGED Content
      BY <2>1, <3>2 DEF PromiseInv, RoomInv, Closed, Content
    <3> QED
      BY <2>1, <3>4, <3>5, <3>6 DEF PromiseInv, Keeps, Durable!vars
  <2> QED
    BY <2>2, <2>3
<1>8. CASE FoldCommit
  <2> DEFINE rest == {row \in store.rows : row.seq > tick.through}
  <2>1. /\ tick.phase = "fold" /\ tick.batch = {}
        /\ room[registry].loaded = "yes"
        /\ Closed(tick.snapshot) /\ Stored \subseteq tick.snapshot
        /\ tick.snapshot \subseteq room[registry].doc
        /\ UNCHANGED <<registry, room, peer, deleting, restarts>>
        /\ tick' = [tick EXCEPT !.phase = "folded"]
    BY <1>8 DEF FoldCommit, PromiseInv, PassInv, Writes
  <2>2. store'.exists /\ store'.snapshot = tick.snapshot /\ store'.rows = rest
    BY <1>0, <1>8 DEF FoldCommit, StoreState
  <2>3. Stored' = tick.snapshot
    BY <2>1, <2>2 DEF Stored
  <2>4. tick'.phase = "folded" /\ tick'.batch = {} /\ tick'.room = registry
    BY <1>0, <2>1 DEF Tick
  <2>5. OneRoom' /\ StoreInv' /\ PassInv'
    BY <2>1, <2>2, <2>3, <2>4 DEF PromiseInv, OneRoom, StoreInv, PassInv, Writes, Closed
  <2>6. RoomInv'
    BY <1>0, <2>1, <2>3, <2>4 DEF PromiseInv, RoomInv, Closed
  <2>7. /\ UNCHANGED Content
        /\ Stored \subseteq Stored' /\ Stored' \subseteq Content
    BY <1>0, <2>1, <2>3 DEF Content
  <2>8. Durable!Save
    BY <2>1, <2>7 DEF Durable!Save
  <2> QED
    BY <2>5, <2>6, <2>8 DEF PromiseInv, Keeps, Durable!Next
<1>9. CASE FoldDone
  <2>1. /\ tick.phase = "folded" /\ tick.batch = {} /\ room[registry].loaded = "yes"
        /\ UNCHANGED <<registry, peer, store, deleting, restarts>>
    BY <1>9 DEF FoldDone, PromiseInv, PassInv, Writes
  <2>2. PICK phase \in {"unload", "report"} : tick' = [tick EXCEPT !.phase = phase]
    BY <1>9 DEF FoldDone
  <2>3. tick'.phase = phase /\ tick'.batch = {} /\ tick'.room = registry
    BY <1>0, <2>1, <2>2 DEF Tick
  <2>4. /\ room'[registry].loaded = room[registry].loaded
        /\ room'[registry].doc = room[registry].doc
        /\ room'[registry].pending = room[registry].pending
        /\ room'[registry].read = room[registry].read
    BY <1>0, <1>9, <2>1 DEF FoldDone, RoomState
  <2> QED
    BY <1>2, <2>1, <2>3, <2>4
<1>10. CASE FoldFail
  <2>1. /\ tick.phase \in {"fold", "folded"} /\ tick.batch = {}
        /\ UNCHANGED <<registry, room, peer, store, deleting, restarts>>
        /\ tick'.phase \in {"rest", "report", "unload"} /\ tick'.batch = {}
        /\ tick'.room \in {registry, NoRoom}
    BY <1>0, <1>10, GiveUpQuiet DEF FoldFail, PromiseInv, PassInv
  <2> QED
    BY <1>2, <2>1
<1>11. CASE Report \/ TakeChanges
  <2>1. /\ tick.phase \in {"report", "unload"} /\ tick.batch = {}
        /\ UNCHANGED <<registry, peer, store, deleting, restarts>>
    BY <1>11 DEF Report, TakeChanges, PromiseInv, PassInv
  <2>2. /\ tick'.phase \in {"rest", "decide"} /\ tick'.batch = {}
        /\ tick'.room \in {registry, NoRoom}
    BY <1>0, <1>11, <2>1 DEF Report, TakeChanges, Resting, Tick
  <2>3. PICK left : room' = [room EXCEPT ![registry].changes = left]
    BY <1>0, <1>11, <2>1 DEF Report, TakeChanges
  <2>4. /\ room'[registry].loaded = room[registry].loaded
        /\ room'[registry].doc = room[registry].doc
        /\ room'[registry].pending = room[registry].pending
        /\ room'[registry].read = room[registry].read
        /\ room'[registry].storedRows = room[registry].storedRows
    BY <1>0, <2>1, <2>3 DEF RoomState
  <2> QED
    BY <1>2, <2>1, <2>2, <2>4
<1>12. CASE Unload
  <2>1. /\ tick.phase = "decide" /\ tick.batch = {}
        /\ tick'.phase = "rest" /\ tick'.batch = {} /\ tick'.room = NoRoom
        /\ UNCHANGED <<room, peer, store, deleting, restarts>> /\ UNCHANGED Stored
    BY <1>12, StoredSame DEF Unload, PromiseInv, PassInv, Resting
  <2>2. CASE ~MayUnload
    <3>1. registry' = registry
      BY <1>12, <2>2 DEF Unload
    <3> QED
      BY <1>2, <2>1, <3>1
  <2>3. CASE MayUnload
    <3>1. registry' = NoRoom /\ room[registry].pending = {}
          /\ \A s \in Sessions : peer[s].room # registry
      BY <1>0, <1>12, <2>1, <2>3 DEF Unload, MayUnload, HasPeers
    <3>2. OneRoom'
      <4>1. \A s \in Sessions : peer[s].at # "in"
        BY <3>1, PeerRoom
      <4> QED
        BY <2>1, <3>1, <4>1 DEF PromiseInv, OneRoom
    <3>3. StoreInv' /\ PassInv' /\ RoomInv'
      BY <2>1, <3>1 DEF PromiseInv, StoreInv, PassInv, RoomInv, Writes, Closed
    <3>4. Content' = Stored /\ Content = Stored
      BY <1>0, <2>1, <3>1 DEF Content, PromiseInv, RoomInv
    <3> QED
      BY <2>1, <3>2, <3>3, <3>4 DEF PromiseInv, Keeps, Durable!vars
  <2> QED
    BY <2>2, <2>3
<1> QED
  BY <1>1, <1>3, <1>4, <1>5, <1>6, <1>7, <1>8, <1>9, <1>10, <1>11, <1>12 DEF FlushLoop

\* Stopping keeps the promise, and a restart starts over from the store.
LEMMA ServerKeeps ==
    ASSUME TypeInv, PromiseInv, Server
    PROVE  PromiseInv' /\ Keeps
<1>1. CASE Stop
  <2>1. UNCHANGED <<registry, room, peer, tick, store, deleting, restarts>> /\ UNCHANGED Stored
    BY <1>1, StoredSame DEF Stop
  <2>2. PromiseInv' /\ UNCHANGED Content
    BY <2>1 DEF PromiseInv, OneRoom, StoreInv, PassInv, RoomInv, Writes, Closed, Content
  <2> QED
    BY <2>1, <2>2 DEF Keeps, Durable!vars
<1>2. CASE FlushAll
  <2>1. CASE registry = NoRoom
    <3>1. UNCHANGED <<registry, room, peer, tick, store, deleting, restarts>> /\ UNCHANGED Stored
      BY <1>2, <2>1, StoredSame DEF FlushAll
    <3>2. PromiseInv' /\ UNCHANGED Content
      BY <3>1 DEF PromiseInv, OneRoom, StoreInv, PassInv, RoomInv, Writes, Closed, Content
    <3> QED
      BY <3>1, <3>2 DEF Keeps, Durable!vars
  <2>2. CASE registry # NoRoom
    BY <1>2, <2>2, StartKeeps DEF FlushAll
  <2> QED
    BY <2>1, <2>2
<1>3. CASE Reboot
  <2>1. /\ registry' = NoRoom /\ tick' = Resting /\ ~deleting' /\ UNCHANGED store
        /\ peer' = [s \in Sessions |-> Out] /\ restarts' = restarts + 1
        /\ UNCHANGED Stored
    BY <1>3, StoredSame DEF Reboot
  <2>2. OneRoom'
    BY <2>1 DEF OneRoom, Out, Resting
  <2>3. StoreInv' /\ PassInv' /\ RoomInv'
    BY <2>1 DEF PromiseInv, StoreInv, PassInv, RoomInv, Writes, Closed, Resting
  <2>4. Content' = Stored
    BY <2>1 DEF Content
  <2>5. Durable!Restart
    BY <2>1, <2>4 DEF Durable!Restart
  <2> QED
    BY <2>2, <2>3, <2>5 DEF PromiseInv, Keeps, Durable!Next
<1> QED
  BY <1>1, <1>2, <1>3 DEF Server, Crash, Exit

\* The store is empty to begin with.
LEMMA PromiseInit == Init => PromiseInv /\ Durable!Init
<1> SUFFICES ASSUME Init PROVE PromiseInv /\ Durable!Init
  OBVIOUS
<1>1. Stored = {} /\ ~store.exists
  BY DEF Init, NoDocument, Stored
<1>2. PromiseInv
  BY <1>1 DEF Init, PromiseInv, OneRoom, StoreInv, PassInv, RoomInv, Writes, Closed, Out, Resting
<1>3. Durable!Init
  BY <1>1 DEF Init, Durable!Init, Content
<1> QED
  BY <1>2, <1>3

\* Every step keeps the invariant and is one DurableDocument allows.
LEMMA PromiseStep ==
    ASSUME "delete" \notin Events, TypeInv, PromiseInv, [Next]_vars
    PROVE  PromiseInv' /\ Keeps
<1>1. ASSUME NEW s \in Sessions, Session(s) PROVE PromiseInv' /\ Keeps
  BY <1>1, JoinKeeps, PeerKeeps, LoadFailKeeps, ApplyKeeps DEF Session
<1>2. ASSUME Delete PROVE FALSE
  BY <1>2 DEF Delete, Discard, DeleteCommit, DeleteFail, Fault, PromiseInv, OneRoom
<1>3. CASE UNCHANGED vars
  <2>1. UNCHANGED Stored /\ UNCHANGED Content
    BY <1>3 DEF vars, Stored, Content
  <2>2. PromiseInv'
    BY <1>3, <2>1 DEF vars, PromiseInv, OneRoom, StoreInv, PassInv, RoomInv, Writes, Closed
  <2> QED
    BY <1>3, <2>1, <2>2 DEF vars, Keeps, Durable!vars
<1> QED
  BY <1>1, <1>2, <1>3, LoadKeeps, FlushLoopKeeps, ServerKeeps DEF Next

\* Without DELETE, and for any number of sessions and updates, of failed or
\* doubtful store calls, dropped requests, crashes, shutdowns and restarts, one
\* document's write-behind implements DurableDocument: nothing but a restart ever
\* gives up an accepted update, and a restart only what was not stored.
THEOREM KeepsItsPromiseTheorem ==
    ASSUME "delete" \notin Events
    PROVE  Spec => KeepsItsPromise
<1>1. TypeInv /\ PromiseInv /\ [Next]_vars => PromiseInv' /\ Keeps
  BY PromiseStep
<1> QED
  BY <1>1, PromiseInit, TypeInvariant, PTL DEF Spec, KeepsItsPromise, Durable!Spec, Keeps

-----------------------------------------------------------------------------
(* The final flush. *)

\* The sessions are gone: the final flush runs, or has ended without a failure.
Final == process = "flushed" \/ tick.mode = "final"

\* Once it has taken what its room had queued, nothing joins the queue again,
\* unless an append fails, which is counted.
Finishing ==
    /\ Final => \A s \in Sessions : peer[s] = Out
    /\ tick.mode = "final" =>
          /\ process \in {"stopping", "failed"}
          /\ tick.phase \in {"take", "append", "appended", "settle", "fold", "folded", "unload"}
          /\ process = "stopping" /\ tick.phase # "take" => room[registry].pending = {}
    /\ process = "flushed" =>
          /\ tick.phase = "rest"
          /\ registry # NoRoom => room[registry].pending = {}

\* The flush loop: passes before the last one leave the process as it was.
LEMMA FinishingFlushLoop ==
    ASSUME TypeInv, PromiseInv, Finishing, FlushLoop
    PROVE  Finishing'
<1>0. /\ room \in [RoomIds -> RoomState] /\ tick \in Tick
      /\ process \in {"up", "stopping", "flushed", "failed"}
      /\ tick.phase = "rest" => tick = Resting
      /\ tick.phase # "rest" => tick.room = registry /\ registry \in RoomIds /\ Target = room[registry]
  <2>1. NoRoom \notin RoomIds
    BY RoomsAssumption
  <2> QED
    BY <2>1 DEF TypeInv, TypeOK, InUseAreRooms, PromiseInv, OneRoom, Target
<1>1. UNCHANGED peer
  BY DEF FlushLoop, TickStart, Take, AppendCommit, Record, AppendFail, Settle, FoldCommit,
         FoldDone, FoldFail, Report, TakeChanges, Unload
<1>2. process # "flushed"
  BY DEF Finishing, FlushLoop, TickStart, Take, AppendCommit, Record, AppendFail, Settle,
         FoldCommit, FoldDone, FoldFail, Report, TakeChanges, Unload
\* A pass that is not the last one.
<1>3. ASSUME UNCHANGED process, tick'.mode # "final"
      PROVE  Finishing'
  BY <1>2, <1>3 DEF Finishing, Final
\* The last pass goes on.
<1>4. ASSUME tick.mode = "final", UNCHANGED registry, tick'.mode = "final",
             process' \in {process, "failed"},
             tick'.phase \in {"append", "appended", "settle", "fold", "folded", "unload"},
             process' = "stopping" => room'[registry].pending = {}
      PROVE  Finishing'
  BY <1>1, <1>2, <1>4 DEF Finishing, Final
<1>5. tick.mode = "final" /\ process = "stopping" /\ tick.phase # "take" => Target.pending = {}
  BY <1>0 DEF Finishing
<1>6. tick.mode = "final" => process \in {"stopping", "failed"} /\ tick.phase # "rest"
  BY DEF Finishing
<1>7. CASE TickStart("flush") \/ TickStart("evict")
  BY <1>3, <1>7 DEF TickStart, Resting
<1>8. CASE Take
  <2>1. /\ tick.phase = "take" /\ room' = [room EXCEPT ![tick.room].pending = {}]
        /\ UNCHANGED <<registry, process>>
        /\ tick'.mode = tick.mode
        /\ tick'.phase = IF Target.pending # {} THEN "append"
                         ELSE IF Forced THEN "settle" ELSE "report"
    BY <1>0, <1>8 DEF Take, Tick
  <2>2. room'[registry].pending = {}
    BY <1>0, <2>1 DEF RoomState
  <2> QED
    BY <1>3, <1>4, <2>1, <2>2 DEF Forced
<1>9. CASE AppendCommit
  <2>1. /\ tick.phase = "append" /\ UNCHANGED <<registry, room, process>>
        /\ tick'.mode = tick.mode /\ tick'.phase = "appended"
    BY <1>0, <1>9 DEF AppendCommit, Tick
  <2> QED
    BY <1>0, <1>3, <1>4, <1>5, <2>1
<1>10. CASE Record
  <2>1. /\ tick.phase = "appended" /\ UNCHANGED <<registry, process>>
        /\ tick'.mode = tick.mode /\ tick'.phase = "settle"
    BY <1>0, <1>10 DEF Record, Tick
  <2>2. room'[registry].pending = Target.pending
    BY <1>0, <1>10, <2>1 DEF Record, RoomState
  <2> QED
    BY <1>3, <1>4, <1>5, <2>1, <2>2
<1>11. CASE AppendFail \/ FoldFail
  <2>1. GiveUp /\ UNCHANGED registry /\ tick.phase # "rest"
    BY <1>11 DEF AppendFail, FoldFail
  <2>2. CASE tick.mode = "final"
    <3>1. process' = "failed" /\ tick' = [tick EXCEPT !.phase = "unload", !.batch = {}]
      BY <2>1, <2>2 DEF GiveUp
    <3>2. tick'.mode = "final" /\ tick'.phase = "unload"
      BY <1>0, <2>2, <3>1 DEF Tick
    <3> QED
      BY <1>4, <2>1, <2>2, <3>1, <3>2
  <2>3. CASE tick.mode # "final"
    <3>1. tick.mode \in {"flush", "evict"} /\ UNCHANGED process
      BY <1>0, <2>1, <2>3 DEF GiveUp, Tick
    <3>2. tick'.mode # "final"
      <4>1. CASE tick.mode = "flush"
        BY <1>0, <2>1, <4>1 DEF GiveUp, Tick
      <4>2. CASE tick.mode = "evict"
        BY <2>1, <4>2 DEF GiveUp, Resting
      <4> QED
        BY <3>1, <4>1, <4>2
    <3> QED
      BY <1>3, <3>1, <3>2
  <2> QED
    BY <2>2, <2>3
<1>12. CASE Settle
  <2>1. /\ tick.phase = "settle" /\ UNCHANGED <<registry, room, process>>
        /\ tick'.mode = tick.mode
        /\ tick'.phase = IF Due THEN "fold" ELSE IF Forced THEN "unload" ELSE "report"
    BY <1>0, <1>12 DEF Settle, Tick
  <2> QED
    BY <1>0, <1>3, <1>4, <1>5, <2>1 DEF Forced
<1>13. CASE FoldCommit
  <2>1. /\ tick.phase = "fold" /\ UNCHANGED <<registry, room, process>>
        /\ tick'.mode = tick.mode /\ tick'.phase = "folded"
    BY <1>0, <1>13 DEF FoldCommit, Tick
  <2> QED
    BY <1>0, <1>3, <1>4, <1>5, <2>1
<1>14. CASE FoldDone
  <2>1. /\ tick.phase = "folded" /\ UNCHANGED <<registry, process>>
        /\ tick'.mode = tick.mode
        /\ tick'.phase = IF Forced THEN "unload" ELSE "report"
    BY <1>0, <1>14 DEF FoldDone, Tick
  <2>2. room'[registry].pending = Target.pending
    BY <1>0, <1>14, <2>1 DEF FoldDone, RoomState
  <2> QED
    BY <1>3, <1>4, <1>5, <2>1, <2>2 DEF Forced
<1>15. CASE Report
  <2>1. tick.phase = "report" /\ UNCHANGED process /\ tick'.mode # "final"
    BY <1>15 DEF Report, Resting
  <2> QED
    BY <1>3, <2>1
<1>16. CASE TakeChanges
  <2>1. /\ tick.phase = "unload" /\ UNCHANGED registry
        /\ room' = [room EXCEPT ![tick.room].changes = {}]
    BY <1>16 DEF TakeChanges
  <2>2. CASE tick.mode # "final"
    <3>1. UNCHANGED process /\ tick'.mode = tick.mode
      BY <1>0, <1>16, <2>2 DEF TakeChanges, Tick
    <3> QED
      BY <1>3, <2>2, <3>1
  <2>3. CASE tick.mode = "final"
    <3>1. /\ tick'.mode = "flush" /\ tick'.phase = "rest"
          /\ process' = IF process = "failed" THEN "failed" ELSE "flushed"
      BY <1>16, <2>3 DEF TakeChanges, Resting
    <3>2. room'[registry].pending = Target.pending
      BY <1>0, <2>1 DEF RoomState
    <3>3. process' = "flushed" => room'[registry].pending = {}
      BY <1>5, <1>6, <2>1, <2>3, <3>1, <3>2
    <3> QED
      BY <1>1, <2>1, <2>3, <3>1, <3>3 DEF Finishing, Final
  <2> QED
    BY <2>2, <2>3
<1>17. CASE Unload
  <2>1. tick.phase = "decide" /\ UNCHANGED process /\ tick'.mode # "final"
    BY <1>17 DEF Unload, Resting
  <2> QED
    BY <1>3, <2>1
<1> QED
  BY <1>7, <1>8, <1>9, <1>10, <1>11, <1>12, <1>13, <1>14, <1>15, <1>16, <1>17 DEF FlushLoop

\* Nobody joins, loads or edits once the final flush has begun, unless a socket
\* outlives the drain.
LEMMA FinishingStep ==
    ASSUME "delete" \notin Events, "linger" \notin Events,
           TypeInv, PromiseInv, Finishing, [Next]_vars
    PROVE  Finishing'
<1>1. ASSUME UNCHANGED <<tick, process>>, ~Final
      PROVE  Finishing'
  BY <1>1 DEF Finishing, Final
<1>2. ASSUME NEW s \in Sessions, Session(s)
      PROVE  Finishing'
  <2>1. UNCHANGED <<tick, process>>
    BY <1>2 DEF Session, Join, Enter, LoadFail, Cancel, Leave, Apply
  <2>2. ~Final
    <3>1. CASE Join(s)
      BY <3>1 DEF Join, Finishing, Final
    <3>2. CASE ~Join(s)
      <4>1. peer[s].at # "out"
        BY <1>2, <3>2 DEF Session, Enter, LoadFail, Cancel, Leave, Apply
      <4> QED
        BY <4>1 DEF Finishing, Out
    <3> QED
      BY <3>1, <3>2
  <2> QED
    BY <1>1, <2>1, <2>2
<1>3. ASSUME NEW r \in RoomIds, Load(r)
      PROVE  Finishing'
  <2>1. UNCHANGED <<tick, process>> /\ \E s \in Sessions : peer[s] = [at |-> "joining", room |-> r]
    BY <1>3 DEF Load, LoadSnapshot, LoadRows
  <2>2. ~Final
    BY <2>1 DEF Finishing, Out
  <2> QED
    BY <1>1, <2>1, <2>2
<1>4. ASSUME Delete PROVE FALSE
  BY <1>4 DEF Delete, Discard, DeleteCommit, DeleteFail, Fault, PromiseInv, OneRoom
<1>5. CASE Stop
  <2>1. process = "up" /\ process' = "stopping" /\ UNCHANGED tick
    BY <1>5 DEF Stop
  <2>2. tick.mode # "final"
    BY <2>1 DEF Finishing
  <2> QED
    BY <2>1, <2>2 DEF Finishing, Final
<1>6. CASE FlushAll
  <2>1. /\ process = "stopping" /\ tick.phase = "rest" /\ \A s \in Sessions : peer[s] = Out
        /\ UNCHANGED <<registry, room, peer>>
        /\ IF registry = NoRoom THEN process' = "flushed" /\ UNCHANGED tick
           ELSE /\ tick'.phase = "take" /\ tick'.mode = "final" /\ UNCHANGED process
    BY <1>6 DEF FlushAll, Resting
  <2> QED
    BY <2>1 DEF Finishing, Final
<1>7. CASE Reboot
  BY <1>7 DEF Reboot, Finishing, Final, Resting
<1>8. CASE UNCHANGED vars
  BY <1>8 DEF vars, Finishing, Final
<1> QED
  BY <1>2, <1>3, <1>4, <1>5, <1>6, <1>7, <1>8, FinishingFlushLoop DEF Next, Server, Crash, Exit

\* A graceful shutdown that reports no failure leaves nothing behind: for any
\* number of updates, sessions and restarts, and whatever failed before, the store
\* holds the whole document when the process says it is flushed; provided the
\* sockets closed within SOCKET_DRAIN and nobody deletes the document (server.rs
\* run, rooms.rs flush_all, finish).
THEOREM GracefulExitSavesAllTheorem ==
    ASSUME "delete" \notin Events, "linger" \notin Events
    PROVE  Spec => []GracefulExitSavesAll
<1>1. Init => Finishing
  BY DEF Init, Finishing, Final, Resting
<1>2. PromiseInv /\ Finishing => GracefulExitSavesAll
  <2> SUFFICES ASSUME PromiseInv, Finishing, process = "flushed" PROVE Content \subseteq Stored
    BY DEF GracefulExitSavesAll
  <2>1. tick.batch = {}
    BY DEF Finishing, PromiseInv, PassInv
  <2>2. CASE registry # NoRoom /\ room[registry].loaded = "yes"
    <3>1. room[registry].doc = Stored
      BY <2>1, <2>2 DEF Finishing, PromiseInv, RoomInv
    <3> QED
      BY <2>2, <3>1 DEF Content
  <2>3. CASE ~(registry # NoRoom /\ room[registry].loaded = "yes")
    BY <2>3 DEF Content
  <2> QED
    BY <2>2, <2>3
<1>3. TypeInv /\ PromiseInv /\ Finishing /\ [Next]_vars => PromiseInv' /\ Finishing'
  BY PromiseStep, FinishingStep
<1> QED
  BY <1>1, <1>2, <1>3, PromiseInit, TypeInvariant, PTL DEF Spec
=============================================================================
