------------------------------ MODULE Presence ------------------------------
(***************************************************************************)
(* Who is in a document: the table of awareness states a room of the       *)
(* server keeps (awareness.rs), the peers that join and leave it and the   *)
(* broadcasts between them (room.rs, ywebsocket.rs), and clients that      *)
(* speak through canvist_collab's SyncSession and its Presence (sync.rs,   *)
(* presence.rs), each with what it holds of everybody.                     *)
(*                                                                         *)
(* A state is the clock it was published at and whether it is there or     *)
(* withdrawn (null); its JSON and its size are left out.  A client owns    *)
(* one awareness id, which it keeps when it connects again; a connection   *)
(* is a peer of its own.  Documents travel beside this: see YWebsocket.    *)
(***************************************************************************)
EXTENDS Integers, FiniteSets, Sequences, Functions

CONSTANTS
    Clients,         \* the clients, and their awareness ids
    MaxConnections,  \* bound: how often each of them may connect
    MaxOpened,       \* bound: how many connections there may be in all
    MaxClocks,       \* bound: clients publish while their clocks add up to less
    MaxStates,       \* awareness.rs MAX_STATES_PER_PEER
    FanoutCapacity,  \* room.rs FANOUT_CAPACITY
    SocketBuffer     \* frames a socket takes before the server has to wait

ASSUME PresenceAssumption ==
    /\ IsFiniteSet(Clients)
    /\ MaxConnections \in Nat
    /\ MaxOpened \in Nat
    /\ MaxClocks \in Nat
    /\ MaxStates \in Nat \ {0}
    /\ FanoutCapacity \in Nat \ {0}
    /\ SocketBuffer \in Nat \ {0}

VARIABLES
    states,   \* the room's AwarenessTable
    peer,     \* the server's side of each connection
    up,       \* what the client sent on it and the server has not read
    down,     \* what the server sent on it and the client has not read
    socket,   \* which of its connections a client believes it has, or 0
    shown,    \* each client's Awareness: the states it holds, its own included
    changed   \* presence.rs `changed`

vars == <<states, peer, up, down, socket, shown, changed>>

-----------------------------------------------------------------------------
(* States, updates, connections. *)

State == [clock: Nat, here: BOOLEAN]
Unknown == [clock |-> 0, here |-> FALSE]

\* AwarenessUpdate: the states of some clients.
Only(k, s) == [j \in {k} |-> s]
Is(update) ==
    /\ DOMAIN update \subseteq Clients
    /\ \A k \in DOMAIN update : update[k] \in State

\* Mutant of Withdrawn: a clock too late.
WithdrawnTwice(s) == [clock |-> s.clock + 2, here |-> FALSE]

\* awareness.rs remove_peer: what tells others that a state is gone.
Withdrawn(s) == [clock |-> s.clock + 1, here |-> FALSE]

\* y-protocols' clock rule: a newer clock wins, an equal one may withdraw.
Newer(old, new) ==
    \/ old.clock < new.clock
    \/ old.clock = new.clock /\ old.here /\ ~new.here

\* A client's n-th connection is <<client, n>>, a peer of its own.
Connections == Clients \X (1..MaxConnections)
Client(p) == p[1]
Current(c) == <<c, socket[c]>>
Open(p) == socket[Client(p)] = p[2]

\* A connection is accepted, joins the room, is greeted and then relayed.
\* `queue` is its broadcast receiver, `lagged` whether a message it had not
\* read was overwritten.
Stages == {"new", "accepted", "joined", "relay", "left"}
Peer(at) == [at |-> at, queue |-> <<>>, lagged |-> FALSE]
In(p) == peer[p].at \in {"joined", "relay"}

\* tokio's broadcast channel: a full receiver loses its oldest message.
Enqueue(s, m) ==
    IF Len(s.queue) < FanoutCapacity
    THEN [s EXCEPT !.queue = Append(@, m)]
    ELSE [s EXCEPT !.queue = Append(Tail(@), m), !.lagged = TRUE]

\* The sender of a broadcast that is nobody's: everyone is told.
Nobody == <<>>

\* room.rs send: to every receiver, if there is anything to say.
Broadcast(from, update) ==
    [p \in Connections |->
        IF update # <<>> /\ In(p)
        THEN Enqueue(peer[p], [from |-> from, update |-> update])
        ELSE peer[p]]

\* Frames on the connections, with `update` sent on p if it says anything.
Sent(frames, p, update) ==
    IF update = <<>> THEN frames ELSE [frames EXCEPT ![p] = Append(@, update)]

-----------------------------------------------------------------------------
Init ==
    /\ states = <<>>
    /\ peer = [p \in Connections |-> Peer("new")]
    /\ up = [p \in Connections |-> <<>>]
    /\ down = [p \in Connections |-> <<>>]
    /\ socket = [c \in Clients |-> 0]
    /\ shown = [c \in Clients |-> [k \in Clients |-> Unknown]]
    /\ changed = [c \in Clients |-> FALSE]

(***************************************************************************)
(* The client: presence.rs and sync.rs.                                    *)
(***************************************************************************)
\* set_local and clear_local: a new clock, and something to flush.
Publish(c, here) ==
    /\ FoldFunction(+, 0, [k \in Clients |-> shown[k][k].clock]) < MaxClocks
    /\ shown' = [shown EXCEPT ![c][c] = [clock |-> @.clock + 1, here |-> here]]
    /\ changed' = [changed EXCEPT ![c] = TRUE]
    /\ UNCHANGED <<states, peer, up, down, socket>>

SetLocal(c) == Publish(c, TRUE)
ClearLocal(c) == shown[c][c].here /\ Publish(c, FALSE)

\* flush, while the host has a connection: the client's own state, once.
Flush(c) ==
    /\ socket[c] # 0
    /\ changed[c]
    /\ changed' = [changed EXCEPT ![c] = FALSE]
    /\ up' = Sent(up, Current(c), Only(c, shown[c][c]))
    /\ UNCHANGED <<states, peer, down, socket, shown>>

\* Presence::update: every state the client holds.
Held(c) == Restrict(shown[c], {k \in Clients : shown[c][k].here})

\* SyncSession::open: the greeting.
Connect(c) ==
    /\ socket[c] = 0
    /\ \E n \in 1..MaxConnections :
          /\ peer[<<c, n>>].at = "new"
          /\ Cardinality({p \in Connections : peer[p].at # "new"}) < MaxOpened
          /\ \A m \in 1..(n - 1) : peer[<<c, m>>].at # "new"
          /\ socket' = [socket EXCEPT ![c] = n]
          /\ peer' = [peer EXCEPT ![<<c, n>>].at = "accepted"]
          /\ up' = Sent(up, <<c, n>>, Held(c))
    /\ UNCHANGED <<states, down, shown, changed>>

\* Awareness::apply_update (external: yrs).  A client that finds itself
\* withdrawn stays, at a later clock.
Applied(c, update) ==
    [k \in Clients |->
        IF k \notin DOMAIN update THEN shown[c][k]
        ELSE IF ~Newer(shown[c][k], update[k]) THEN shown[c][k]
        ELSE IF k = c /\ shown[c][c].here /\ ~update[c].here
             THEN [clock |-> update[c].clock + 1, here |-> TRUE]
        ELSE update[k]]

\* SyncSession::handle_message, an awareness message.
Receive(c) ==
    /\ socket[c] # 0
    /\ down[Current(c)] # <<>>
    /\ shown' = [shown EXCEPT ![c] = Applied(c, Head(down[Current(c)]))]
    /\ down' = [down EXCEPT ![Current(c)] = Tail(@)]
    /\ UNCHANGED <<states, peer, up, socket, changed>>

\* The client's socket breaks, or is closed by the server.
Lose(c) ==
    /\ socket[c] # 0
    /\ socket' = [socket EXCEPT ![c] = 0]
    /\ down' = [down EXCEPT ![Current(c)] = <<>>]
    /\ UNCHANGED <<states, peer, up, shown, changed>>

(***************************************************************************)
(* The server: awareness.rs, room.rs, ywebsocket.rs.                       *)
(***************************************************************************)
\* Room::join.
Join(p) ==
    /\ peer[p].at = "accepted"
    /\ peer' = [peer EXCEPT ![p].at = "joined"]
    /\ UNCHANGED <<states, up, down, socket, shown, changed>>

\* AwarenessTable::snapshot: the states that are there.
Snapshot ==
    [k \in {j \in DOMAIN states : states[j].here} |->
        [clock |-> states[k].clock, here |-> TRUE]]

\* Mutant of Greet: the state vector only.
GreetWithoutPresence(p) ==
    /\ peer[p].at = "joined"
    /\ peer' = [peer EXCEPT ![p].at = "relay"]
    /\ UNCHANGED <<states, up, down, socket, shown, changed>>

\* Connection::greet.
Greet(p) ==
    /\ peer[p].at = "joined"
    /\ peer' = [peer EXCEPT ![p].at = "relay"]
    /\ down' = IF Open(p) THEN Sent(down, p, Snapshot) ELSE down
    /\ UNCHANGED <<states, up, socket, shown, changed>>

\* AwarenessTable::accepts: newer states of clients p introduced, and states
\* of clients nobody introduced while p introduced few enough; which of those
\* depends on the order of a HashMap.
Owned(p) == {k \in DOMAIN states : states[k].owner = p}
Accepts(p, update, accepted) ==
    LET new == DOMAIN update \ DOMAIN states
        room == MaxStates - Cardinality(Owned(p))
        some == accepted \cap new
    IN /\ accepted \ new = {k \in Owned(p) \cap DOMAIN update : Newer(states[k], update[k])}
       /\ some = new \/ Cardinality(some) = room
       /\ Cardinality(some) <= room

\* Connection::incoming and Room::apply_awareness.
Incoming(p) ==
    /\ peer[p].at = "relay"
    /\ up[p] # <<>>
    /\ LET update == Head(up[p])
       IN \E accepted \in SUBSET DOMAIN update :
            /\ Accepts(p, update, accepted)
            /\ states' = [k \in DOMAIN states \cup accepted |->
                            IF k \in accepted
                            THEN [clock |-> update[k].clock, here |-> update[k].here, owner |-> p]
                            ELSE states[k]]
            /\ peer' = Broadcast(p, Restrict(update, accepted))
    /\ up' = [up EXCEPT ![p] = Tail(@)]
    /\ UNCHANGED <<down, socket, shown, changed>>

\* Connection::outgoing: a message, unless it is the peer's own.
Outgoing(p) ==
    /\ peer[p].at = "relay"
    /\ ~peer[p].lagged
    /\ peer[p].queue # <<>>
    /\ Open(p) => Len(down[p]) < SocketBuffer
    /\ LET m == Head(peer[p].queue)
       IN down' = IF Open(p) /\ m.from # p THEN Sent(down, p, m.update) ELSE down
    /\ peer' = [peer EXCEPT ![p].queue = Tail(@)]
    /\ UNCHANGED <<states, up, socket, shown, changed>>

\* Room::leave, once the peer fell behind, or its socket is found broken or
\* dead: what it introduced is withdrawn.
Leave(p) ==
    /\ In(p)
    /\ \/ ~Open(p)
       \/ peer[p].at = "relay" /\ peer[p].lagged
    /\ LET removed == {k \in Owned(p) : states[k].here}
           withdrawn == [k \in removed |-> Withdrawn(states[k])]
       IN peer' = [Broadcast(Nobody, withdrawn) EXCEPT ![p] = Peer("left")]
    /\ states' = Restrict(states, DOMAIN states \ Owned(p))
    /\ up' = [up EXCEPT ![p] = <<>>]
    /\ UNCHANGED <<down, socket, shown, changed>>

Next ==
    \/ \E c \in Clients :
        SetLocal(c) \/ ClearLocal(c) \/ Flush(c) \/ Connect(c) \/ Receive(c) \/ Lose(c)
    \/ \E p \in Connections :
        Join(p) \/ Greet(p) \/ Incoming(p) \/ Outgoing(p) \/ Leave(p)

Spec == Init /\ [][Next]_vars

-----------------------------------------------------------------------------
TypeOK ==
    /\ DOMAIN states \subseteq Clients
    /\ \A k \in DOMAIN states :
          states[k] \in [clock: Nat, here: BOOLEAN, owner: Connections]
    /\ \A p \in Connections :
          /\ peer[p].at \in Stages /\ peer[p].lagged \in BOOLEAN
          /\ Len(peer[p].queue) <= FanoutCapacity
          /\ \A m \in Range(peer[p].queue) :
                m.from \in Connections \cup {Nobody} /\ Is(m.update)
          /\ \A u \in Range(up[p]) \cup Range(down[p]) : Is(u)
    /\ socket \in [Clients -> 0..MaxConnections]
    /\ shown \in [Clients -> [Clients -> State]]
    /\ changed \in [Clients -> BOOLEAN]

\* What is on the way to the client of p.
Coming(p) ==
    Range(down[p]) \cup {m.update : m \in {n \in Range(peer[p].queue) : n.from # p}}

\* No presence is missed: of each state the room shows, a client that is
\* relayed has that clock or a later one, or it is on the way to it, or the
\* client is about to be told to connect again.  Joining before the table is
\* read, skipping a peer's own messages, overwritten broadcasts and a peer
\* that joins again before it left leave no gap (room.rs join, leave,
\* apply_awareness; session.rs greeting; awareness.rs snapshot).
NoPresenceMissed ==
    \A p \in Connections : (peer[p].at = "relay" /\ Open(p) /\ ~peer[p].lagged) =>
        \A k \in DOMAIN states \ {Client(p)} : states[k].here =>
            \/ shown[Client(p)][k].clock >= states[k].clock
            \/ \E u \in Coming(p) : k \in DOMAIN u /\ u[k].clock >= states[k].clock

\* Nothing that is said of a client anywhere runs ahead of its own clock by
\* more than the one of its withdrawal: a client that was withdrawn, however
\* often it went and came, is seen again after publishing twice unless another
\* connection introduced it (awareness.rs remove_peer, accepts; presence.rs).
Near(k, s) == s.clock <= shown[k][k].clock + (IF s.here THEN 0 ELSE 1)
ClocksStayNear ==
    /\ \A c, k \in Clients : Near(k, shown[c][k])
    /\ \A k \in DOMAIN states : Near(k, states[k])
    /\ \A p \in Connections :
          \A u \in Range(up[p]) \cup Range(down[p])
                      \cup {m.update : m \in Range(peer[p].queue)} :
             \A k \in DOMAIN u : Near(k, u[k])

-----------------------------------------------------------------------------
(* What comments say and the code does not do. *)

\* At rest, whom a client shows is connected (presence.rs Collaborator).
\* Refuted: a SyncSession greets with all it holds, those who left meanwhile
\* included, and so introduces them to the room again.
AtRest ==
    /\ \A p \in Connections :
          /\ up[p] = <<>> /\ down[p] = <<>> /\ peer[p].queue = <<>>
          /\ In(p) => Open(p)
    /\ \A c \in Clients : socket[c] # 0 => peer[Current(c)].at = "relay"
CollaboratorsAreConnected ==
    AtRest => \A c, k \in Clients :
                 (socket[c] # 0 /\ k # c /\ shown[c][k].here) => socket[k] # 0
=============================================================================
