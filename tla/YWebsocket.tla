----------------------------- MODULE YWebsocket -----------------------------
(***************************************************************************)
(* The y-websocket transport of canvist Sync: stock clients, each with its *)
(* replica of one document, the two directions of their sockets, and the   *)
(* server's session for each (ywebsocket.rs, session.rs) in a room whose   *)
(* broadcast channel (room.rs `fanout`) carries every change to every      *)
(* peer, skips a peer's own messages, and loses the oldest message of a    *)
(* peer that falls behind.                                                 *)
(*                                                                         *)
(* Data as in Rooms: an update is an element of Updates, a replica and a   *)
(* message's payload are sets of updates, Requires[u] is what u builds on. *)
(* Each action handles one frame or one broadcast, as one turn of the      *)
(* session's `select!` does.  Persistence is the subject of Rooms: here an *)
(* eviction keeps the document and a crash keeps some of it.               *)
(*                                                                         *)
(* A client that loses its connection is a client whose session ended: the *)
(* frames in flight are lost, and the ones the server would still read are *)
(* as if read before.                                                      *)
(***************************************************************************)
EXTENDS Integers, FiniteSets, Sequences

CONSTANTS
    Clients,         \* y-websocket clients of the document
    Readers,         \* those whose token has Scope::Read
    Updates,         \* the edits they may make
    Requires,        \* [Updates -> SUBSET Updates]: earlier edits it builds on
    Server,          \* the sender of a broadcast that is no client's
    FanoutCapacity,  \* room.rs FANOUT_CAPACITY
    SocketBuffer,    \* frames a socket takes before the server has to wait
    MaxDocument,     \* SyncConfig.max_document_bytes, in updates
    Events,          \* the kinds of trouble that may happen: see EventKinds
    MaxEvents        \* bound: how many of them

EventKinds == {"pause",     \* the project's free plan is full for a while
               "presence",  \* a client publishes awareness
               "drop",      \* a connection breaks, or is found dead
               "evict",     \* the room is unloaded while nobody is in it
               "delete",    \* DELETE /v1/documents/{name}
               "crash"}     \* the server restarts, gracefully or not

ASSUME YWebsocketAssumption ==
    /\ Server \notin Clients
    /\ Readers \subseteq Clients
    /\ Requires \in [Updates -> SUBSET Updates]
    /\ \A u \in Updates : /\ u \notin Requires[u]
                          /\ \A v \in Requires[u] : Requires[v] \subseteq Requires[u]
    /\ FanoutCapacity \in Nat \ {0}
    /\ SocketBuffer \in Nat
    /\ MaxDocument \in Nat
    /\ Events \subseteq EventKinds
    /\ MaxEvents \in Nat

VARIABLES
    replica,  \* what each client's Y.Doc holds
    up,       \* frames each client sent and the server has not read
    down,     \* frames the server sent each client and it has not read
    session,  \* the server's session of each client
    rooms,    \* the document's rooms so far; the last one is registered
    events    \* troubles so far (bounded by MaxEvents)

vars == <<replica, up, down, session, rooms, events>>

-----------------------------------------------------------------------------
(* Frames, broadcasts, sessions, rooms. *)

\* protocol.rs: a sync step 1 carries a state vector, here the updates it
\* covers; step 2 and update messages carry updates.  Frames without either
\* (awareness, keepalive) are "update"s of nothing.
Frame == [kind: {"step1", "update"}, content: SUBSET Updates]
Step1(have) == [kind |-> "step1", content |-> have]
Update(delta) == [kind |-> "update", content |-> delta]

\* room.rs Fanout: Message, or Closed.
Fanout == [from: Clients \cup {Server}, closed: BOOLEAN, content: SUBSET Updates]
Message(from, delta) == [from |-> from, closed |-> FALSE, content |-> delta]
Closed == [from |-> Server, closed |-> TRUE, content |-> {}]

\* `admitting` and `holding` are the two halves of wait_for_admission, `greet`
\* and `relay` the two of serve.  `queue` is the session's broadcast receiver:
\* what it has not read, and whether something it had not read was overwritten.
SessionState ==
    [at: {"off", "admitting", "holding", "greet", "relay"}, paused: BOOLEAN,
     room: Nat, queue: Seq(Fanout), lagged: BOOLEAN]
Off == [at |-> "off", paused |-> FALSE, room |-> 0, queue |-> <<>>, lagged |-> FALSE]

RoomState == [doc: SUBSET Updates, held: SUBSET Updates]

Registered == Len(rooms)
In(c) == session[c].at \in {"greet", "relay"}
Present(r) == {c \in Clients : In(c) /\ session[c].room = r}

\* All updates a sequence of frames or broadcasts carries.
Carried(seq) == UNION {seq[i].content : i \in DOMAIN seq}
CarriedUpdates(frames) ==
    UNION {frames[i].content : i \in {j \in DOMAIN frames : frames[j].kind = "update"}}
HasStep1(frames) == \E i \in DOMAIN frames : frames[i].kind = "step1"

Happens(kind) ==
    /\ kind \in Events
    /\ events < MaxEvents
    /\ events' = events + 1

\* Mutant of Ready: nothing is held back.
ReadyAtOnce(updates, known) == updates

\* reorder.rs: of `updates`, those that can apply to a document of `known`
\* once every other one that can has been applied.
Ready(updates, known) == {u \in updates : Requires[u] \subseteq known \cup updates}

-----------------------------------------------------------------------------
Init ==
    /\ replica = [c \in Clients |-> {}]
    /\ up = [c \in Clients |-> <<>>]
    /\ down = [c \in Clients |-> <<>>]
    /\ session = [c \in Clients |-> Off]
    /\ rooms = <<[doc |-> {}, held |-> {}]>>
    /\ events = 0

(***************************************************************************)
(* The client (external: y-websocket's WebsocketProvider).                 *)
(***************************************************************************)

\* On open it sends its step 1 at once.
Connect(c) ==
    /\ session[c].at = "off"
    /\ session' = [session EXCEPT ![c] = [Off EXCEPT !.at = "admitting"]]
    /\ up' = [up EXCEPT ![c] = <<Step1(replica[c])>>]
    /\ UNCHANGED <<replica, down, rooms, events>>

\* An edit somebody has made.
Made == UNION {replica[c] : c \in Clients} \cup UNION {rooms[r].doc \cup rooms[r].held : r \in DOMAIN rooms}

\* A new edit, sent at once if connected, synchronised or not.
Edit(c, u) ==
    /\ u \notin Made
    /\ Requires[u] \subseteq replica[c]
    /\ replica' = [replica EXCEPT ![c] = @ \cup {u}]
    /\ IF session[c].at = "off"
       THEN UNCHANGED up
       ELSE up' = [up EXCEPT ![c] = Append(@, Update({u}))]
    /\ UNCHANGED <<down, session, rooms, events>>

\* It answers a step 1 with a step 2 of what the other side lacks.
Receive(c) ==
    /\ down[c] # <<>>
    /\ LET frame == Head(down[c])
       IN IF frame.kind = "step1"
          THEN /\ up' = [up EXCEPT ![c] = Append(@, Update(replica[c] \ frame.content))]
               /\ UNCHANGED replica
          ELSE /\ replica' = [replica EXCEPT ![c] = @ \cup frame.content]
               /\ UNCHANGED up
    /\ down' = [down EXCEPT ![c] = Tail(@)]
    /\ UNCHANGED <<session, rooms, events>>

(***************************************************************************)
(* The room.                                                               *)
(***************************************************************************)

\* tokio's broadcast channel: a full receiver loses its oldest message, and
\* learns that it lagged before it reads on.
Enqueue(s, message) ==
    IF Len(s.queue) < FanoutCapacity
    THEN [s EXCEPT !.queue = Append(@, message)]
    ELSE [s EXCEPT !.queue = Append(Tail(@), message), !.lagged = TRUE]

\* Room::send and Room::close: to every receiver of the room.
Broadcast(sessions, r, message) ==
    [c \in Clients |-> IF c \in Present(r) THEN Enqueue(sessions[c], message)
                       ELSE sessions[c]]

\* Room::apply: refuse what does not fit; otherwise integrate through Reorder,
\* and broadcast what changed, if anything did.
Apply(from, r, updates) ==
    LET waiting == rooms[r].held \cup updates
        ready == Ready(waiting, rooms[r].doc)
        delta == ready \ rooms[r].doc
    IN IF Cardinality(rooms[r].doc) + Cardinality(updates) > MaxDocument
       THEN UNCHANGED <<session, rooms>>
       ELSE /\ rooms' = [rooms EXCEPT ![r] = [doc |-> rooms[r].doc \cup delta,
                                              held |-> waiting \ ready]]
            /\ session' = IF delta = {} THEN session
                          ELSE Broadcast(session, r, Message(from, delta))

(***************************************************************************)
(* The server's session.                                                   *)
(***************************************************************************)

\* A session ends: Room::leave, and the socket is closed.
End(c) ==
    /\ session' = [session EXCEPT ![c] = Off]
    /\ up' = [up EXCEPT ![c] = <<>>]
    /\ down' = [down EXCEPT ![c] = <<>>]

\* wait_for_admission: the document is over the plan's limit.
Pause(c) ==
    /\ Happens("pause")
    /\ session[c].at = "admitting"
    /\ session' = [session EXCEPT ![c].at = "holding", ![c].paused = TRUE]
    /\ UNCHANGED <<replica, up, down, rooms>>

\* hold: what a paused client sends is read and dropped.
Hold(c) ==
    /\ session[c].at = "holding"
    /\ up[c] # <<>>
    /\ up' = [up EXCEPT ![c] = Tail(@)]
    /\ UNCHANGED <<replica, down, session, rooms, events>>

\* pause_recheck has passed.
Recheck(c) ==
    /\ session[c].at = "holding"
    /\ session' = [session EXCEPT ![c].at = "admitting"]
    /\ UNCHANGED <<replica, up, down, rooms, events>>

\* Admitted: Rooms::join subscribes the session to the registered room.
Join(c) ==
    /\ session[c].at = "admitting"
    /\ session' = [session EXCEPT ![c].at = "greet", ![c].room = Registered]
    /\ UNCHANGED <<replica, up, down, rooms, events>>

\* Mutants of Greet: a paused client gets no document, or no step 1.
GreetWithoutDocument(c) ==
    /\ session[c].at = "greet"
    /\ down' = [down EXCEPT ![c] = Append(@, Step1(rooms[session[c].room].doc))]
    /\ session' = [session EXCEPT ![c].at = "relay"]
    /\ UNCHANGED <<replica, up, rooms, events>>

GreetWithoutStep1(c) ==
    /\ session[c].at = "greet"
    /\ down' = [down EXCEPT ![c] = Append(@, Update(rooms[session[c].room].doc))]
    /\ session' = [session EXCEPT ![c].at = "relay"]
    /\ UNCHANGED <<replica, up, rooms, events>>

\* Connection::greet: the room's step 1, and the whole document for a client
\* that was paused.
Greet(c) ==
    /\ session[c].at = "greet"
    /\ LET doc == rooms[session[c].room].doc
           greeting == IF session[c].paused THEN <<Step1(doc), Update(doc)>>
                       ELSE <<Step1(doc)>>
       IN down' = [down EXCEPT ![c] = @ \o greeting]
    /\ session' = [session EXCEPT ![c].at = "relay"]
    /\ UNCHANGED <<replica, up, rooms, events>>

\* Connection::incoming and Session::handle: answer a step 1 with a step 2;
\* apply an update, unless the client may only read.
Incoming(c) ==
    /\ session[c].at = "relay"
    /\ up[c] # <<>>
    /\ LET frame == Head(up[c])
           r == session[c].room
       IN IF frame.kind = "step1"
          THEN /\ Len(down[c]) < SocketBuffer
               /\ down' = [down EXCEPT ![c] = Append(@, Update(rooms[r].doc \ frame.content))]
               /\ UNCHANGED <<session, rooms>>
          ELSE /\ IF c \in Readers THEN UNCHANGED <<session, rooms>>
                  ELSE Apply(c, r, frame.content)
               /\ UNCHANGED down
    /\ up' = [up EXCEPT ![c] = Tail(@)]
    /\ UNCHANGED <<replica, events>>

\* Mutant of Outgoing: it reads on after it lagged.
OutgoingIgnoresLag(c) ==
    /\ session[c].at = "relay"
    /\ session[c].queue # <<>>
    /\ LET message == Head(session[c].queue)
       IN IF message.closed
          THEN End(c)
          ELSE /\ session' = [session EXCEPT ![c].queue = Tail(@), ![c].lagged = FALSE]
               /\ IF message.from = c
                  THEN UNCHANGED down
                  ELSE /\ Len(down[c]) < SocketBuffer
                       /\ down' = [down EXCEPT ![c] = Append(@, Update(message.content))]
               /\ UNCHANGED up
    /\ UNCHANGED <<replica, rooms, events>>

\* Connection::outgoing: a client that lagged is told to reconnect, a closed
\* room ends the session, its own messages are skipped.
Outgoing(c) ==
    /\ session[c].at = "relay"
    /\ IF session[c].lagged
       THEN End(c)
       ELSE /\ session[c].queue # <<>>
            /\ LET message == Head(session[c].queue)
               IN IF message.closed
                  THEN End(c)
                  ELSE /\ session' = [session EXCEPT ![c].queue = Tail(@)]
                       /\ IF message.from = c
                          THEN UNCHANGED down
                          ELSE /\ Len(down[c]) < SocketBuffer
                               /\ down' = [down EXCEPT ![c] = Append(@, Update(message.content))]
                       /\ UNCHANGED up
    /\ UNCHANGED <<replica, rooms, events>>

\* Session::handle of an awareness message: Room::apply_awareness broadcasts
\* it to the others.
Presence(c) ==
    /\ Happens("presence")
    /\ session[c].at = "relay"
    /\ session' = Broadcast(session, session[c].room, Message(c, {}))
    /\ UNCHANGED <<replica, up, down, rooms>>

\* The connection breaks, or ping finds it dead.
Drop(c) ==
    /\ Happens("drop")
    /\ session[c].at # "off"
    /\ End(c)
    /\ UNCHANGED <<replica, rooms>>

(***************************************************************************)
(* The document's rooms.                                                   *)
(***************************************************************************)

\* rooms.rs evict: nobody is in the room, and what it held back is dropped.
Evict ==
    /\ Happens("evict")
    /\ Present(Registered) = {}
    /\ rooms' = [rooms EXCEPT ![Registered].held = {}]
    /\ UNCHANGED <<replica, up, down, session>>

\* rooms.rs discard, room.rs close: the room is forgotten, its peers are told,
\* and the document is gone.
Delete ==
    /\ Happens("delete")
    /\ session' = Broadcast(session, Registered, Closed)
    /\ rooms' = Append(rooms, [doc |-> {}, held |-> {}])
    /\ UNCHANGED <<replica, up, down>>

\* A new server process, which loads what the old one had saved.
Restart ==
    /\ Happens("crash")
    /\ \E saved \in SUBSET rooms[Registered].doc :
        /\ Ready(saved, {}) = saved
        /\ rooms' = <<[doc |-> saved, held |-> {}]>>
    /\ session' = [c \in Clients |-> Off]
    /\ up' = [c \in Clients |-> <<>>]
    /\ down' = [c \in Clients |-> <<>>]
    /\ UNCHANGED replica

-----------------------------------------------------------------------------
Client(c) == Connect(c) \/ Receive(c) \/ \E u \in Updates : Edit(c, u)

Serve(c) ==
    \/ Pause(c) \/ Hold(c) \/ Recheck(c) \/ Join(c)
    \/ Greet(c) \/ Incoming(c) \/ Outgoing(c)
    \/ Presence(c) \/ Drop(c)

Next ==
    \/ \E c \in Clients : Client(c) \/ Serve(c)
    \/ Evict \/ Delete \/ Restart

Spec == Init /\ [][Next]_vars

-----------------------------------------------------------------------------
TypeOK ==
    /\ replica \in [Clients -> SUBSET Updates]
    /\ up \in [Clients -> Seq(Frame)]
    /\ down \in [Clients -> Seq(Frame)]
    /\ session \in [Clients -> SessionState]
    /\ rooms \in Seq(RoomState)
    /\ rooms # <<>>
    /\ \A c \in Clients : /\ In(c) => session[c].room \in DOMAIN rooms
                          /\ Len(session[c].queue) <= FanoutCapacity
    /\ events \in 0..MaxEvents

\* What c will get without asking again: what it has, what is on the wire to
\* it, and what its receiver holds from others.
Coming(c) ==
    replica[c] \cup CarriedUpdates(down[c])
        \cup UNION {session[c].queue[i].content :
                      i \in {j \in DOMAIN session[c].queue : session[c].queue[j].from # c}}

\* A client being relayed misses nothing: every update its room holds has
\* reached it, or is on the way, or will be in the answer to its step 1 or in
\* its greeting; or it is about to be told to reconnect.  Joins, frames dropped while
\* paused, overwritten broadcasts and skipped own messages leave no silent gap
\* (ywebsocket.rs serve, greet, outgoing; room.rs join, apply).
NothingMissed ==
    \A c \in Clients : In(c) =>
        \/ session[c].lagged
        \/ HasStep1(up[c])
        \/ session[c].at = "greet" /\ session[c].paused
        \/ rooms[session[c].room].doc \subseteq Coming(c)

\* What a client that may write holds is in its room, or on the way there, or
\* will be in its answer to the room's step 1; unless the document is full.  Edits made
\* before, during and after a pause or a disconnection are not lost
\* (ywebsocket.rs hold, greet; session.rs apply; room.rs apply).
NothingForgotten ==
    \A c \in Clients \ Readers : session[c].at = "relay" =>
        LET r == session[c].room
        IN \/ HasStep1(down[c])
           \/ Cardinality(rooms[r].doc) + Cardinality(replica[c]) > MaxDocument
           \/ replica[c] \subseteq rooms[r].doc \cup rooms[r].held \cup CarriedUpdates(up[c])

\* A broadcast may overtake the answer to a client's step 1 and so build on
\* what the client lacks; but then the answer that fills the hole is on its
\* way: a client never waits for an edit that only a reconnection would bring
\* (room.rs apply broadcasts in order under the lock; ywebsocket.rs outgoing).
NoHoles ==
    \A c \in Clients : (session[c].at = "relay" /\ ~session[c].lagged) =>
        \/ HasStep1(up[c])
        \/ \A u \in replica[c] :
              Requires[u] \subseteq replica[c] \cup CarriedUpdates(down[c])

-----------------------------------------------------------------------------
(***************************************************************************)
(* Liveness.  A client reconnects and reads what it is sent; a session     *)
(* reads its socket and its receiver, whichever is ready (select! polls    *)
(* its branches fairly); a paused session checks again, and events are     *)
(* finite, so at last it is admitted.  Clients owe no edits.               *)
(***************************************************************************)
Fairness ==
    \A c \in Clients :
        /\ WF_vars(Connect(c))
        /\ WF_vars(Receive(c))
        /\ WF_vars(Recheck(c))
        /\ WF_vars(Join(c))
        /\ WF_vars(Greet(c))
        /\ WF_vars(Incoming(c))
        /\ WF_vars(Outgoing(c))

FairSpec == Spec /\ Fairness

\* In the end, every client has every update of the document, and the
\* document has every update of a client that may write.
Converges ==
    <>[](\A c \in Clients :
            /\ rooms[Registered].doc \subseteq replica[c]
            /\ c \in Readers \/ replica[c] \subseteq rooms[Registered].doc)
=============================================================================
