--------------------------- MODULE Presence_proofs ---------------------------
(***************************************************************************)
(* Of presence, for any number of clients, connections and states and      *)
(* channels of any size: no relayed client misses a state its room shows,  *)
(* and no clock said of a client runs away from the client's own.          *)
(***************************************************************************)
EXTENDS Presence, TLAPS, SequenceTheorems

(***************************************************************************)
(* Channels as the sets of what is in them.                                *)
(***************************************************************************)
\* What is appended is in it, and nothing else is new.
LEMMA RangeAppend ==
    ASSUME NEW S, NEW s \in Seq(S), NEW e \in S
    PROVE  /\ Append(s, e) \in Seq(S)
           /\ Range(Append(s, e)) = Range(s) \cup {e}
<1>1. /\ Append(s, e) \in Seq(S)
      /\ Len(Append(s, e)) = Len(s) + 1
      /\ \A i \in 1..Len(s) : Append(s, e)[i] = s[i]
      /\ Append(s, e)[Len(s) + 1] = e
  BY AppendProperties
<1>2. DOMAIN s = 1..Len(s) /\ DOMAIN Append(s, e) = 1..(Len(s) + 1) /\ Len(s) \in Nat
  BY <1>1, LenProperties
<1> QED
  BY <1>1, <1>2 DEF Range

\* What is left, and the first one, were in it.
LEMMA RangeTail ==
    ASSUME NEW S, NEW s \in Seq(S), s # <<>>
    PROVE  /\ Head(s) \in S
           /\ Tail(s) \in Seq(S)
           /\ Len(Tail(s)) = Len(s) - 1
           /\ Range(s) = {Head(s)} \cup Range(Tail(s))
<1>1. /\ Head(s) \in S
      /\ Tail(s) \in Seq(S)
      /\ Len(Tail(s)) = Len(s) - 1
      /\ \A i \in 1..Len(Tail(s)) : Tail(s)[i] = s[i + 1]
  BY HeadTailProperties
<1>2. DOMAIN s = 1..Len(s) /\ DOMAIN Tail(s) = 1..(Len(s) - 1) /\ Len(s) \in Nat \ {0}
  BY <1>1, LenProperties, EmptySeq
<1>3. Head(s) = s[1]
  OBVIOUS
<1>5. ASSUME NEW i \in 1..Len(s)
      PROVE  s[i] \in {Head(s)} \cup Range(Tail(s))
  <2>1. CASE i = 1
    BY <2>1, <1>3
  <2>2. CASE i # 1
    <3>1. i - 1 \in 1..(Len(s) - 1) /\ (i - 1) + 1 = i
      BY <2>2, <1>2
    <3>2. Tail(s)[i - 1] = s[i]
      BY <3>1, <1>1
    <3> QED
      BY <3>1, <3>2, <1>2 DEF Range
  <2> QED
    BY <2>1, <2>2
<1>6. {Head(s)} \cup Range(Tail(s)) \subseteq Range(s)
  <2>1. 1 \in 1..Len(s) /\ \A i \in 1..(Len(s) - 1) : i + 1 \in 1..Len(s)
    BY <1>2
  <2> QED
    BY <1>1, <1>2, <1>3, <2>1 DEF Range
<1> QED
  BY <1>1, <1>2, <1>5, <1>6 DEF Range

(***************************************************************************)
(* Types.                                                                  *)
(***************************************************************************)
Updates == UNION {[S -> State] : S \in SUBSET Clients}
Message == [from: Connections \cup {Nobody}, update: Updates]
PeerState == [at: Stages, queue: Seq(Message), lagged: BOOLEAN]
Entry == [clock: Nat, here: BOOLEAN, owner: Connections]

Frames == [Connections -> Seq(Updates)]
Peers == [Connections -> PeerState]
Tables == UNION {[S -> Entry] : S \in SUBSET Clients}
Views == [Clients -> [Clients -> State]]

Typed ==
    /\ states \in Tables
    /\ peer \in Peers
    /\ \A p \in Connections : Len(peer[p].queue) <= FanoutCapacity
    /\ up \in Frames
    /\ down \in Frames
    /\ socket \in [Clients -> 0..MaxConnections]
    /\ shown \in Views
    /\ changed \in [Clients -> BOOLEAN]

\* What a function says of some clients is an update.
LEMMA UpdateIs ==
    ASSUME NEW u
    PROVE  u \in Updates <=> \E S \in SUBSET Clients : u \in [S -> State]
  BY DEF Updates

LEMMA UpdateFields ==
    ASSUME NEW u \in Updates
    PROVE  /\ DOMAIN u \subseteq Clients
           /\ \A k \in DOMAIN u : u[k] \in State /\ u[k].clock \in Nat /\ u[k].here \in BOOLEAN
           /\ u # <<>> \/ DOMAIN u = {}
<1>1. PICK S \in SUBSET Clients : u \in [S -> State]
  BY DEF Updates
<1> QED
  BY <1>1 DEF State

LEMMA TableFields ==
    ASSUME NEW t \in Tables
    PROVE  /\ DOMAIN t \subseteq Clients
           /\ \A k \in DOMAIN t : /\ t[k].clock \in Nat
                                  /\ t[k].here \in BOOLEAN
                                  /\ t[k].owner \in Connections
<1>1. PICK S \in SUBSET Clients : t \in [S -> Entry]
  BY DEF Tables
<1> QED
  BY <1>1 DEF Entry

\* The first connection of a client is its own.
LEMMA ConnectionFields ==
    ASSUME NEW p \in Connections
    PROVE  /\ Client(p) \in Clients
           /\ p[2] \in 1..MaxConnections
           /\ p = <<Client(p), p[2]>>
  BY DEF Connections, Client

(***************************************************************************)
(* Channels.                                                               *)
(***************************************************************************)

\* A frame that is sent is on that connection, and nothing else is new.
LEMMA SentFrames ==
    ASSUME NEW f \in Frames, NEW p \in Connections, NEW u \in Updates
    PROVE  /\ Sent(f, p, u) \in Frames
           /\ \A q \in Connections \ {p} : Sent(f, p, u)[q] = f[q]
           /\ Range(Sent(f, p, u)[p]) \subseteq Range(f[p]) \cup {u}
           /\ Range(f[p]) \subseteq Range(Sent(f, p, u)[p])
           /\ u # <<>> => u \in Range(Sent(f, p, u)[p])
<1>1. f[p] \in Seq(Updates)
  BY DEF Frames
<1>2. CASE u = <<>>
  BY <1>2 DEF Sent
<1>3. CASE u # <<>>
  <2> DEFINE s == Append(f[p], u)
  <2>1. s \in Seq(Updates) /\ Range(s) = Range(f[p]) \cup {u}
    BY <1>1, RangeAppend
  <2>2. Sent(f, p, u) = [f EXCEPT ![p] = s]
    BY <1>3 DEF Sent
  <2> HIDE DEF s
  <2>3. /\ [f EXCEPT ![p] = s] \in Frames
        /\ [f EXCEPT ![p] = s][p] = s
        /\ \A q \in Connections \ {p} : [f EXCEPT ![p] = s][q] = f[q]
    BY <2>1 DEF Frames
  <2> QED
    BY <2>1, <2>2, <2>3
<1> QED
  BY <1>2, <1>3

\* The first frame of a connection was on it.
LEMMA TakenFrames ==
    ASSUME NEW f \in Frames, NEW p \in Connections, f[p] # <<>>
    PROVE  /\ Head(f[p]) \in Updates
           /\ [f EXCEPT ![p] = Tail(@)] \in Frames
           /\ \A q \in Connections \ {p} : [f EXCEPT ![p] = Tail(@)][q] = f[q]
           /\ Range(f[p]) = {Head(f[p])} \cup Range([f EXCEPT ![p] = Tail(@)][p])
<1>1. f[p] \in Seq(Updates)
  BY DEF Frames
<1>2. /\ Head(f[p]) \in Updates
      /\ Tail(f[p]) \in Seq(Updates)
      /\ Range(f[p]) = {Head(f[p])} \cup Range(Tail(f[p]))
  BY <1>1, RangeTail
<1> DEFINE s == Tail(f[p])
<1> HIDE DEF s
<1>3. /\ [f EXCEPT ![p] = s] \in Frames
      /\ [f EXCEPT ![p] = s][p] = s
      /\ \A q \in Connections \ {p} : [f EXCEPT ![p] = s][q] = f[q]
  BY <1>2 DEF Frames, s
<1> QED
  BY <1>2, <1>3 DEF s

\* A connection that ends carries nothing.
LEMMA EndedFrames ==
    ASSUME NEW f \in Frames, NEW p \in Connections
    PROVE  /\ [f EXCEPT ![p] = <<>>] \in Frames
           /\ \A q \in Connections \ {p} : [f EXCEPT ![p] = <<>>][q] = f[q]
           /\ Range([f EXCEPT ![p] = <<>>][p]) = {}
<1>1. <<>> \in Seq(Updates) /\ Range(<<>>) = {}
  BY EmptySeq DEF Range
<1> QED
  BY <1>1 DEF Frames

\* A receiver that did not fall behind has all it had, and the new message.
LEMMA Enqueued ==
    ASSUME NEW s \in PeerState, NEW m \in Message, Len(s.queue) <= FanoutCapacity
    PROVE  /\ Enqueue(s, m) \in PeerState
           /\ Enqueue(s, m).at = s.at
           /\ Len(Enqueue(s, m).queue) <= FanoutCapacity
           /\ Range(Enqueue(s, m).queue) \subseteq Range(s.queue) \cup {m}
           /\ ~Enqueue(s, m).lagged =>
                 ~s.lagged /\ Range(Enqueue(s, m).queue) = Range(s.queue) \cup {m}
<1>1. s.queue \in Seq(Message) /\ Len(s.queue) \in Nat /\ s.at \in Stages /\ s.lagged \in BOOLEAN
  BY LenProperties DEF PeerState
<1>2. CASE Len(s.queue) < FanoutCapacity
  <2> DEFINE a == Append(s.queue, m)
  <2>1. a \in Seq(Message) /\ Range(a) = Range(s.queue) \cup {m} /\ Len(a) = Len(s.queue) + 1
    BY <1>1, RangeAppend, AppendProperties
  <2>2. Enqueue(s, m) = [s EXCEPT !.queue = a]
    BY <1>2 DEF Enqueue
  <2> HIDE DEF a
  <2>3. /\ [s EXCEPT !.queue = a] \in PeerState
        /\ [s EXCEPT !.queue = a].queue = a
        /\ [s EXCEPT !.queue = a].at = s.at
        /\ [s EXCEPT !.queue = a].lagged = s.lagged
    BY <2>1 DEF PeerState
  <2> QED
    BY <1>1, <1>2, <2>1, <2>2, <2>3, PresenceAssumption
<1>3. CASE Len(s.queue) >= FanoutCapacity
  <2> DEFINE t == Tail(s.queue)
             a == Append(t, m)
  <2>1. s.queue # <<>>
    BY <1>1, <1>3, PresenceAssumption, EmptySeq
  <2>2. t \in Seq(Message) /\ Len(t) = Len(s.queue) - 1 /\ Range(t) \subseteq Range(s.queue)
    BY <1>1, <2>1, RangeTail
  <2>3. Enqueue(s, m) = [s EXCEPT !.queue = a, !.lagged = TRUE]
    BY <1>1, <1>3, PresenceAssumption DEF Enqueue
  <2> HIDE DEF t
  <2>4. a \in Seq(Message) /\ Range(a) = Range(t) \cup {m} /\ Len(a) = Len(t) + 1
    BY <2>2, RangeAppend, AppendProperties
  <2> HIDE DEF a
  <2>5. /\ [s EXCEPT !.queue = a, !.lagged = TRUE] \in PeerState
        /\ [s EXCEPT !.queue = a, !.lagged = TRUE].queue = a
        /\ [s EXCEPT !.queue = a, !.lagged = TRUE].at = s.at
        /\ [s EXCEPT !.queue = a, !.lagged = TRUE].lagged
    BY <2>4 DEF PeerState
  <2> QED
    BY <1>1, <1>3, <2>2, <2>3, <2>4, <2>5, PresenceAssumption
<1> QED
  BY <1>1, <1>2, <1>3, PresenceAssumption

\* What a broadcast does to each peer: whoever is in the room and keeps up has
\* it beside all he had.
LEMMA Told ==
    ASSUME peer \in Peers, \A q \in Connections : Len(peer[q].queue) <= FanoutCapacity,
           NEW from \in Connections \cup {Nobody}, NEW u \in Updates
    PROVE  LET b == Broadcast(from, u)
               m == [from |-> from, update |-> u]
           IN /\ b \in Peers
              /\ \A q \in Connections :
                    /\ b[q].at = peer[q].at
                    /\ Len(b[q].queue) <= FanoutCapacity
                    /\ \A n \in Range(b[q].queue) : n \in Range(peer[q].queue) \/ n = m
                    /\ ~b[q].lagged =>
                          /\ ~peer[q].lagged
                          /\ Range(peer[q].queue) \subseteq Range(b[q].queue)
                          /\ In(q) /\ u # <<>> => m \in Range(b[q].queue)
<1> DEFINE b == Broadcast(from, u)
           m == [from |-> from, update |-> u]
<1>1. m \in Message
  BY DEF Message
<1>2. \A q \in Connections : peer[q] \in PeerState
  BY DEF Peers
<1>3. \A q \in Connections : b[q] = IF u # <<>> /\ In(q) THEN Enqueue(peer[q], m) ELSE peer[q]
  BY DEF Broadcast
<1>4. DOMAIN b = Connections /\ b = [q \in Connections |-> b[q]]
  BY DEF Broadcast
<1> HIDE DEF b, m
<1>5. ASSUME NEW q \in Connections
      PROVE  /\ b[q] \in PeerState
             /\ b[q].at = peer[q].at
             /\ Len(b[q].queue) <= FanoutCapacity
             /\ \A n \in Range(b[q].queue) : n \in Range(peer[q].queue) \/ n = m
             /\ ~b[q].lagged =>
                   /\ ~peer[q].lagged
                   /\ Range(peer[q].queue) \subseteq Range(b[q].queue)
                   /\ In(q) /\ u # <<>> => m \in Range(b[q].queue)
  <2>1. CASE u # <<>> /\ In(q)
    <3> DEFINE t == Enqueue(peer[q], m)
    <3>1. /\ t \in PeerState
          /\ t.at = peer[q].at
          /\ Len(t.queue) <= FanoutCapacity
          /\ Range(t.queue) \subseteq Range(peer[q].queue) \cup {m}
          /\ ~t.lagged => ~peer[q].lagged /\ Range(t.queue) = Range(peer[q].queue) \cup {m}
      BY <1>1, <1>2, Enqueued
    <3>2. b[q] = t
      BY <1>3, <2>1
    <3> HIDE DEF t
    <3> QED
      BY <3>1, <3>2
  <2>2. CASE ~(u # <<>> /\ In(q))
    BY <1>2, <1>3, <2>2
  <2> QED
    BY <2>1, <2>2
<1>6. b \in Peers
  BY <1>4, <1>5 DEF Peers
<1> QED
  BY <1>5, <1>6 DEF b, m

(***************************************************************************)
(* What clients hold.                                                      *)
(***************************************************************************)

\* What a client holds after an update: no clock goes back, what the update
\* says of others is there or was overtaken, and nothing else is new.
LEMMA AppliedView ==
    ASSUME shown \in Views, NEW c \in Clients, NEW u \in Updates
    PROVE  LET a == Applied(c, u)
           IN /\ a \in [Clients -> State]
              /\ \A k \in Clients : shown[c][k].clock <= a[k].clock
              /\ \A k \in DOMAIN u \ {c} : u[k].clock <= a[k].clock
              /\ \A k \in Clients \ {c} : a[k] = shown[c][k] \/ (k \in DOMAIN u /\ a[k] = u[k])
<1> DEFINE a == Applied(c, u)
           v == shown[c]
<1>1. \A k \in Clients : v[k] \in State /\ v[k].clock \in Nat /\ v[k].here \in BOOLEAN
  BY DEF Views, State
<1>2. /\ DOMAIN u \subseteq Clients
      /\ \A k \in DOMAIN u : u[k] \in State /\ u[k].clock \in Nat /\ u[k].here \in BOOLEAN
  BY UpdateFields
<1>3. /\ a = [k \in Clients |-> a[k]]
      /\ \A k \in Clients : a[k] =
            IF k \notin DOMAIN u THEN v[k]
            ELSE IF ~Newer(v[k], u[k]) THEN v[k]
            ELSE IF k = c /\ v[c].here /\ ~u[c].here THEN [clock |-> u[c].clock + 1, here |-> TRUE]
            ELSE u[k]
  BY DEF Applied
<1> HIDE DEF a, v
<1>4. ASSUME NEW k \in Clients
      PROVE  /\ a[k] \in State
             /\ v[k].clock <= a[k].clock
             /\ k \in DOMAIN u \ {c} => u[k].clock <= a[k].clock
             /\ k # c => a[k] = v[k] \/ (k \in DOMAIN u /\ a[k] = u[k])
  <2>1. CASE k \notin DOMAIN u
    BY <1>1, <1>3, <2>1
  <2>2. CASE k \in DOMAIN u /\ ~Newer(v[k], u[k])
    <3>1. a[k] = v[k]
      BY <1>3, <2>2
    <3>2. u[k].clock <= v[k].clock
      BY <1>1, <1>2, <2>2 DEF Newer
    <3> QED
      BY <1>1, <3>1, <3>2
  <2>3. CASE k \in DOMAIN u /\ Newer(v[k], u[k]) /\ k = c /\ v[c].here /\ ~u[c].here
    <3>1. a[k] = [clock |-> u[k].clock + 1, here |-> TRUE]
      BY <1>3, <2>3
    <3>2. v[k].clock <= u[k].clock
      BY <1>1, <1>2, <2>3 DEF Newer
    <3>3. a[k].clock = u[k].clock + 1 /\ a[k] \in State
      BY <1>2, <2>3, <3>1 DEF State
    <3> QED
      BY <1>1, <1>2, <2>3, <3>2, <3>3
  <2>4. CASE k \in DOMAIN u /\ Newer(v[k], u[k]) /\ ~(k = c /\ v[c].here /\ ~u[c].here)
    <3>1. a[k] = u[k]
      BY <1>3, <2>4
    <3>2. v[k].clock <= u[k].clock
      BY <1>1, <1>2, <2>4 DEF Newer
    <3> QED
      BY <1>1, <1>2, <2>4, <3>1, <3>2
  <2> QED
    BY <2>1, <2>2, <2>3, <2>4
<1>5. a \in [Clients -> State]
  BY <1>3, <1>4
<1>6. DOMAIN u \ {c} \subseteq Clients
  BY <1>2
<1> QED
  BY <1>4, <1>5, <1>6 DEF a, v

(***************************************************************************)
(* What a step may add to each variable.                                   *)
(***************************************************************************)

\* A client says what it holds.
UpEffect ==
    \A p \in Connections : \A u \in Range(up'[p]) :
        \/ u \in Range(up[p])
        \/ \A k \in DOMAIN u : u[k] = shown[Client(p)][k]

\* The server says what was broadcast, or what the table shows.
DownEffect ==
    \A p \in Connections : \A u \in Range(down'[p]) :
        \/ u \in Range(down[p])
        \/ \E m \in Range(peer[p].queue) : u = m.update
        \/ \A k \in DOMAIN u : /\ k \in DOMAIN states
                               /\ states[k].here
                               /\ u[k].clock = states[k].clock
                               /\ u[k].here

\* It broadcasts what a client says, or withdraws what the table shows.
QueueEffect ==
    \A p \in Connections : \A m \in Range(peer'[p].queue) :
        \/ m \in Range(peer[p].queue)
        \/ \E q \in Connections : \E u \in Range(up[q]) :
              \A k \in DOMAIN m.update : k \in DOMAIN u /\ m.update[k] = u[k]
        \/ \A k \in DOMAIN m.update : /\ k \in DOMAIN states
                                      /\ states[k].here
                                      /\ m.update[k] = Withdrawn(states[k])

\* The table takes what a client says.
TableEffect ==
    \A k \in DOMAIN states' :
        \/ k \in DOMAIN states /\ states'[k] = states[k]
        \/ \E q \in Connections : \E u \in Range(up[q]) :
              /\ k \in DOMAIN u
              /\ states'[k].clock = u[k].clock
              /\ states'[k].here = u[k].here

\* No clock goes back, and of others a client learns from the server.
ViewEffect ==
    \A c, k \in Clients :
        /\ shown[c][k].clock <= shown'[c][k].clock
        /\ k # c => \/ shown'[c][k] = shown[c][k]
                    \/ \E p \in Connections : \E u \in Range(down[p]) :
                          k \in DOMAIN u /\ shown'[c][k] = u[k]

\* Nothing is added where nothing changes.
LEMMA Unmoved ==
    ASSUME Typed
    PROVE  /\ up' = up => UpEffect
           /\ down' = down => DownEffect
           /\ peer' = peer => QueueEffect
           /\ states' = states => TableEffect
           /\ shown' = shown => ViewEffect
<1>1. \A c, k \in Clients : shown[c][k].clock \in Nat
  BY DEF Typed, Views, State
<1>2. shown' = shown => ViewEffect
  BY <1>1 DEF ViewEffect
<1> QED
  BY <1>2 DEF UpEffect, DownEffect, QueueEffect, TableEffect

\* A peer that changes but in how far it is.
LEMMA Moved ==
    ASSUME Typed, NEW p \in Connections, NEW at \in Stages, peer' = [peer EXCEPT ![p].at = at]
    PROVE  /\ peer' \in Peers
           /\ peer'[p].at = at
           /\ \A q \in Connections : /\ peer'[q].queue = peer[q].queue
                                     /\ peer'[q].lagged = peer[q].lagged
                                     /\ q # p => peer'[q] = peer[q]
           /\ QueueEffect
<1>1. /\ peer \in Peers
      /\ peer[p] \in PeerState
  BY DEF Typed, Peers
<1> DEFINE s == [peer[p] EXCEPT !.at = at]
<1>2. s \in PeerState /\ s.at = at /\ s.queue = peer[p].queue /\ s.lagged = peer[p].lagged
  BY <1>1 DEF PeerState
<1>3. peer' = [peer EXCEPT ![p] = s]
  OBVIOUS
<1> HIDE DEF s
<1>4. peer' \in Peers
  BY <1>1, <1>2, <1>3 DEF Peers
<1>5. /\ peer'[p] = s
      /\ \A q \in Connections \ {p} : peer'[q] = peer[q]
  BY <1>1, <1>3 DEF Peers
<1>6. \A q \in Connections : peer'[q].queue = peer[q].queue
  BY <1>2, <1>5
<1>7. QueueEffect
  BY <1>6 DEF QueueEffect
<1> QED
  BY <1>2, <1>4, <1>5, <1>6, <1>7

Effect == UpEffect /\ DownEffect /\ QueueEffect /\ TableEffect /\ ViewEffect

(***************************************************************************)
(* The client's steps.                                                     *)
(***************************************************************************)
LEMMA PublishStep ==
    ASSUME Typed, NEW c \in Clients, NEW here \in BOOLEAN, Publish(c, here)
    PROVE  Typed' /\ Effect
<1> DEFINE s == [clock |-> shown[c][c].clock + 1, here |-> here]
           v == [shown[c] EXCEPT ![c] = s]
<1>1. /\ \A d \in Clients : shown[d] \in [Clients -> State]
      /\ \A d, k \in Clients : shown[d][k].clock \in Nat
  BY DEF Typed, Views, State
<1>2. shown' = [shown EXCEPT ![c] = v]
  BY DEF Publish
<1>3. s \in State /\ s.clock = shown[c][c].clock + 1
  BY <1>1 DEF State
<1> HIDE DEF s
<1>4. v \in [Clients -> State] /\ v[c] = s /\ \A k \in Clients \ {c} : v[k] = shown[c][k]
  BY <1>1, <1>3
<1> HIDE DEF v
<1>5. /\ shown' \in Views
      /\ shown'[c] = v
      /\ \A d \in Clients \ {c} : shown'[d] = shown[d]
  BY <1>2, <1>4 DEF Typed, Views
<1>6. ViewEffect
  <2> SUFFICES ASSUME NEW d \in Clients, NEW k \in Clients
               PROVE  /\ shown[d][k].clock <= shown'[d][k].clock
                      /\ k # d => shown'[d][k] = shown[d][k]
    BY DEF ViewEffect
  <2> QED
    BY <1>1, <1>3, <1>4, <1>5
<1>7. changed' \in [Clients -> BOOLEAN]
  BY DEF Publish, Typed
<1>8. UpEffect /\ DownEffect /\ QueueEffect /\ TableEffect
  BY Unmoved DEF Publish
<1> QED
  BY <1>5, <1>6, <1>7, <1>8 DEF Publish, Typed, Effect

LEMMA FlushStep ==
    ASSUME Typed, NEW c \in Clients, Flush(c)
    PROVE  Typed' /\ Effect
<1> DEFINE u == Only(c, shown[c][c])
           p == Current(c)
<1>1. p \in Connections /\ Client(p) = c
  BY DEF Flush, Typed, Connections, Current, Client
<1>2. u \in Updates
  BY UpdateIs DEF Only, Typed, Views
<1>3. \A k \in DOMAIN u : u[k] = shown[c][k]
  BY DEF Only
<1>4. up' = Sent(up, p, u)
  BY DEF Flush
<1> HIDE DEF u, p
<1>5. /\ up' \in Frames
      /\ \A q \in Connections \ {p} : up'[q] = up[q]
      /\ Range(up'[p]) \subseteq Range(up[p]) \cup {u}
  BY <1>1, <1>2, <1>4, SentFrames DEF Typed
<1>6. UpEffect
  BY <1>1, <1>3, <1>5 DEF UpEffect
<1>7. DownEffect /\ QueueEffect /\ TableEffect /\ ViewEffect
  BY Unmoved DEF Flush
<1>8. changed' \in [Clients -> BOOLEAN]
  BY DEF Flush, Typed
<1> QED
  BY <1>5, <1>6, <1>7, <1>8 DEF Flush, Typed, Effect

LEMMA ConnectStep ==
    ASSUME Typed, NEW c \in Clients, Connect(c)
    PROVE  Typed' /\ Effect
<1>1. PICK n \in 1..MaxConnections :
         /\ socket' = [socket EXCEPT ![c] = n]
         /\ peer' = [peer EXCEPT ![<<c, n>>].at = "accepted"]
         /\ up' = Sent(up, <<c, n>>, Held(c))
  BY DEF Connect
<1> DEFINE u == Held(c)
           p == <<c, n>>
<1>2. p \in Connections /\ Client(p) = c
  BY DEF Connections, Client
<1>3. \A k \in DOMAIN u : u[k] = shown[c][k]
  BY DEF Held, Restrict
<1>4. u \in Updates
  <2>1. u \in [{k \in Clients : shown[c][k].here} -> State]
    BY DEF Held, Restrict, Typed, Views
  <2> QED
    BY <2>1, UpdateIs
<1>5. up' = Sent(up, p, u)
  BY <1>1
<1> HIDE DEF u, p
<1>6. /\ up' \in Frames
      /\ \A q \in Connections \ {p} : up'[q] = up[q]
      /\ Range(up'[p]) \subseteq Range(up[p]) \cup {u}
  BY <1>2, <1>4, <1>5, SentFrames DEF Typed
<1>7. UpEffect
  BY <1>2, <1>3, <1>6 DEF UpEffect
<1>8. peer' = [peer EXCEPT ![p].at = "accepted"] /\ "accepted" \in Stages
  BY <1>1 DEF p, Stages
<1>9. /\ peer' \in Peers
      /\ \A q \in Connections : peer'[q].queue = peer[q].queue
      /\ QueueEffect
  BY <1>2, <1>8, Moved
<1>10. DownEffect /\ TableEffect /\ ViewEffect
  BY Unmoved DEF Connect
<1>11. socket' \in [Clients -> 0..MaxConnections]
  <2>1. n \in 0..MaxConnections
    BY PresenceAssumption
  <2> QED
    BY <1>1, <2>1 DEF Typed
<1> QED
  BY <1>6, <1>7, <1>9, <1>10, <1>11 DEF Connect, Typed, Effect

LEMMA ReceiveStep ==
    ASSUME Typed, NEW c \in Clients, Receive(c)
    PROVE  Typed' /\ Effect
<1> DEFINE p == Current(c)
           u == Head(down[p])
           a == Applied(c, u)
<1>1. p \in Connections
  BY DEF Receive, Typed, Connections, Current
<1>2. down[p] # <<>> /\ down' = [down EXCEPT ![p] = Tail(@)] /\ shown' = [shown EXCEPT ![c] = a]
  BY DEF Receive
<1>3. /\ u \in Updates
      /\ down' \in Frames
      /\ \A q \in Connections \ {p} : down'[q] = down[q]
      /\ Range(down[p]) = {u} \cup Range(down'[p])
  <2>1. down \in Frames
    BY DEF Typed
  <2> HIDE DEF p
  <2>2. /\ Head(down[p]) \in Updates
        /\ [down EXCEPT ![p] = Tail(@)] \in Frames
        /\ \A q \in Connections \ {p} : [down EXCEPT ![p] = Tail(@)][q] = down[q]
        /\ Range(down[p]) = {Head(down[p])} \cup Range([down EXCEPT ![p] = Tail(@)][p])
    BY <1>1, <1>2, <2>1, TakenFrames
  <2> QED
    BY <1>2, <2>2
<1>4. /\ a \in [Clients -> State]
      /\ \A k \in Clients : shown[c][k].clock <= a[k].clock
      /\ \A k \in Clients \ {c} : a[k] = shown[c][k] \/ (k \in DOMAIN u /\ a[k] = u[k])
  <2> HIDE DEF u
  <2> QED
    BY <1>3, AppliedView DEF Typed
<1> HIDE DEF a, u, p
<1>5. /\ shown' \in Views
      /\ shown'[c] = a
      /\ \A d \in Clients \ {c} : shown'[d] = shown[d]
  BY <1>2, <1>4 DEF Typed, Views
<1>6. ViewEffect
  <2> SUFFICES ASSUME NEW d \in Clients, NEW k \in Clients
               PROVE  /\ shown[d][k].clock <= shown'[d][k].clock
                      /\ k # d => \/ shown'[d][k] = shown[d][k]
                                  \/ \E q \in Connections : \E w \in Range(down[q]) :
                                        k \in DOMAIN w /\ shown'[d][k] = w[k]
    BY DEF ViewEffect
  <2>1. CASE d = c
    BY <1>1, <1>3, <1>4, <1>5, <2>1
  <2>2. CASE d # c
    <3>1. shown[d][k].clock \in Nat
      BY DEF Typed, Views, State
    <3> QED
      BY <1>5, <2>2, <3>1
  <2> QED
    BY <2>1, <2>2
<1>7. DownEffect
  BY <1>3 DEF DownEffect
<1>8. UpEffect /\ QueueEffect /\ TableEffect
  BY Unmoved DEF Receive
<1> QED
  BY <1>3, <1>5, <1>6, <1>7, <1>8 DEF Receive, Typed, Effect

LEMMA LoseStep ==
    ASSUME Typed, NEW c \in Clients, Lose(c)
    PROVE  Typed' /\ Effect
<1> DEFINE p == Current(c)
<1>1. p \in Connections
  BY DEF Lose, Typed, Connections, Current
<1>2. down' = [down EXCEPT ![p] = <<>>]
  BY DEF Lose
<1> HIDE DEF p
<1>3. /\ down' \in Frames
      /\ \A q \in Connections \ {p} : down'[q] = down[q]
      /\ Range(down'[p]) = {}
  BY <1>1, <1>2, EndedFrames DEF Typed
<1>4. DownEffect
  BY <1>3 DEF DownEffect
<1>5. UpEffect /\ QueueEffect /\ TableEffect /\ ViewEffect
  BY Unmoved DEF Lose
<1>6. socket' \in [Clients -> 0..MaxConnections]
  BY PresenceAssumption DEF Lose, Typed
<1> QED
  BY <1>3, <1>4, <1>5, <1>6 DEF Lose, Typed, Effect

(***************************************************************************)
(* The server's steps.                                                     *)
(***************************************************************************)
LEMMA JoinStep ==
    ASSUME Typed, NEW p \in Connections, Join(p)
    PROVE  Typed' /\ Effect
<1>1. peer' = [peer EXCEPT ![p].at = "joined"] /\ "joined" \in Stages
  BY DEF Join, Stages
<1>2. /\ peer' \in Peers
      /\ \A q \in Connections : peer'[q].queue = peer[q].queue
      /\ QueueEffect
  BY <1>1, Moved
<1>3. UpEffect /\ DownEffect /\ TableEffect /\ ViewEffect
  BY Unmoved DEF Join
<1> QED
  BY <1>2, <1>3 DEF Join, Typed, Effect

\* What the table shows is an update, and says what the table says.
LEMMA SnapshotFields ==
    ASSUME Typed
    PROVE  /\ Snapshot \in Updates
           /\ DOMAIN Snapshot = {k \in DOMAIN states : states[k].here}
           /\ \A k \in DOMAIN Snapshot : Snapshot[k].clock = states[k].clock /\ Snapshot[k].here
<1> DEFINE S == {k \in DOMAIN states : states[k].here}
<1>1. S \in SUBSET Clients /\ \A k \in S : [clock |-> states[k].clock, here |-> TRUE] \in State
  BY TableFields DEF Typed, State
<1>2. Snapshot = [k \in S |-> [clock |-> states[k].clock, here |-> TRUE]]
  BY DEF Snapshot
<1>3. Snapshot \in [S -> State]
  BY <1>1, <1>2
<1> QED
  BY <1>1, <1>2, <1>3, UpdateIs

LEMMA GreetStep ==
    ASSUME Typed, NEW p \in Connections, Greet(p)
    PROVE  Typed' /\ Effect
<1>1. peer' = [peer EXCEPT ![p].at = "relay"] /\ "relay" \in Stages
  BY DEF Greet, Stages
<1>2. /\ peer' \in Peers
      /\ \A q \in Connections : peer'[q].queue = peer[q].queue
      /\ QueueEffect
  BY <1>1, Moved
<1>3. UpEffect /\ TableEffect /\ ViewEffect
  BY Unmoved DEF Greet
<1>4. down' \in Frames /\ DownEffect
  <2>1. CASE ~Open(p)
    BY <2>1, Unmoved DEF Greet, Typed
  <2>2. CASE Open(p)
    <3>1. down' = Sent(down, p, Snapshot)
      BY <2>2 DEF Greet
    <3>2. /\ down' \in Frames
          /\ \A q \in Connections \ {p} : down'[q] = down[q]
          /\ Range(down'[p]) \subseteq Range(down[p]) \cup {Snapshot}
      BY <3>1, SentFrames, SnapshotFields DEF Typed
    <3> QED
      BY <3>2, SnapshotFields DEF DownEffect
  <2> QED
    BY <2>1, <2>2
<1> QED
  BY <1>2, <1>3, <1>4 DEF Greet, Typed, Effect

\* What the table takes of an update: of clients in it, what it says.
LEMMA Taken ==
    ASSUME Typed, NEW p \in Connections, Incoming(p)
    PROVE  /\ up[p] # <<>>
           /\ Head(up[p]) \in Updates
           /\ Head(up[p]) \in Range(up[p])
           /\ up' \in Frames
           /\ UpEffect
           /\ \A q \in Connections : Range(up'[q]) \subseteq Range(up[q])
           /\ \E accepted \in SUBSET DOMAIN Head(up[p]) :
                 /\ Accepts(p, Head(up[p]), accepted)
                 /\ Restrict(Head(up[p]), accepted) \in Updates
                 /\ peer' = Broadcast(p, Restrict(Head(up[p]), accepted))
                 /\ states' \in Tables
                 /\ DOMAIN states' = DOMAIN states \cup accepted
                 /\ \A k \in DOMAIN states \ accepted : states'[k] = states[k]
                 /\ \A k \in accepted : /\ states'[k].clock = Head(up[p])[k].clock
                                        /\ states'[k].here = Head(up[p])[k].here
<1>1. up \in Frames /\ up[p] # <<>> /\ up' = [up EXCEPT ![p] = Tail(@)]
  BY DEF Typed, Incoming
<1>2. /\ Head(up[p]) \in Updates
      /\ [up EXCEPT ![p] = Tail(@)] \in Frames
      /\ \A q \in Connections \ {p} : [up EXCEPT ![p] = Tail(@)][q] = up[q]
      /\ Range(up[p]) = {Head(up[p])} \cup Range([up EXCEPT ![p] = Tail(@)][p])
  BY <1>1, TakenFrames
<1> DEFINE u == Head(up[p])
<1>3. PICK accepted \in SUBSET DOMAIN u :
         /\ Accepts(p, u, accepted)
         /\ states' = [k \in DOMAIN states \cup accepted |->
                         IF k \in accepted
                         THEN [clock |-> u[k].clock, here |-> u[k].here, owner |-> p]
                         ELSE states[k]]
         /\ peer' = Broadcast(p, Restrict(u, accepted))
  BY DEF Incoming
<1>4. up' \in Frames /\ \A q \in Connections : Range(up'[q]) \subseteq Range(up[q])
  BY <1>1, <1>2
<1> HIDE DEF u
<1>5. /\ DOMAIN u \subseteq Clients
      /\ \A k \in DOMAIN u : u[k] \in State /\ u[k].clock \in Nat /\ u[k].here \in BOOLEAN
  BY <1>2, UpdateFields DEF u
<1>6. Restrict(u, accepted) \in Updates
  <2>1. Restrict(u, accepted) \in [accepted -> State]
    BY <1>3, <1>5 DEF Restrict
  <2>2. accepted \in SUBSET Clients
    BY <1>3, <1>5
  <2> QED
    BY <2>1, <2>2, UpdateIs
<1>7. /\ DOMAIN states' = DOMAIN states \cup accepted
      /\ \A k \in DOMAIN states \ accepted : states'[k] = states[k]
      /\ \A k \in accepted :
            states'[k] = [clock |-> u[k].clock, here |-> u[k].here, owner |-> p]
  BY <1>3
<1>8. states' \in Tables
  <2> DEFINE S == DOMAIN states \cup accepted
  <2>1. PICK T \in SUBSET Clients : states \in [T -> Entry]
    BY DEF Typed, Tables
  <2>2. \A k \in S : states'[k] \in Entry
    BY <1>3, <1>5, <1>7, <2>1 DEF Entry
  <2>3. S \in SUBSET Clients
    BY <1>3, <1>5, <2>1
  <2>4. states' = [k \in S |-> states'[k]]
    BY <1>3
  <2> HIDE DEF S
  <2>5. states' \in [S -> Entry]
    BY <2>2, <2>4
  <2> QED
    BY <2>3, <2>5 DEF Tables
<1>9. \A k \in accepted : states'[k].clock = u[k].clock /\ states'[k].here = u[k].here
  BY <1>7
<1>10. UpEffect
  BY <1>4 DEF UpEffect
<1> QED
  BY <1>1, <1>2, <1>3, <1>4, <1>6, <1>7, <1>8, <1>9, <1>10 DEF u

LEMMA IncomingStep ==
    ASSUME Typed, NEW p \in Connections, Incoming(p)
    PROVE  Typed' /\ Effect
<1> DEFINE u == Head(up[p])
<1>1. u \in Updates /\ u \in Range(up[p]) /\ up' \in Frames /\ UpEffect
  BY Taken
<1>2. PICK accepted \in SUBSET DOMAIN u :
         /\ Restrict(u, accepted) \in Updates
         /\ peer' = Broadcast(p, Restrict(u, accepted))
         /\ states' \in Tables
         /\ DOMAIN states' = DOMAIN states \cup accepted
         /\ \A k \in DOMAIN states \ accepted : states'[k] = states[k]
         /\ \A k \in accepted : /\ states'[k].clock = u[k].clock
                                /\ states'[k].here = u[k].here
  BY Taken
<1> DEFINE w == Restrict(u, accepted)
<1>3. \A k \in DOMAIN w : k \in DOMAIN u /\ w[k] = u[k]
  BY <1>2 DEF Restrict
<1> HIDE DEF u, w
<1>4. /\ peer' \in Peers
      /\ \A q \in Connections :
            /\ Len(peer'[q].queue) <= FanoutCapacity
            /\ \A n \in Range(peer'[q].queue) :
                  n \in Range(peer[q].queue) \/ n = [from |-> p, update |-> w]
  BY <1>2, Told DEF Typed, w
<1>5. QueueEffect
  <2> SUFFICES ASSUME NEW q \in Connections, NEW m \in Range(peer'[q].queue),
                      m \notin Range(peer[q].queue)
               PROVE  \A k \in DOMAIN m.update : k \in DOMAIN u /\ m.update[k] = u[k]
    BY <1>1 DEF QueueEffect
  <2> QED
    BY <1>3, <1>4
<1>6. TableEffect
  BY <1>1, <1>2 DEF TableEffect
<1>7. DownEffect /\ ViewEffect
  BY Unmoved DEF Incoming
<1> QED
  BY <1>1, <1>2, <1>4, <1>5, <1>6, <1>7 DEF Incoming, Typed, Effect

\* A peer that takes a message off its receiver.
LEMMA Dequeued ==
    ASSUME Typed, NEW p \in Connections, peer[p].queue # <<>>,
           peer' = [peer EXCEPT ![p].queue = Tail(@)]
    PROVE  /\ peer' \in Peers
           /\ peer'[p].at = peer[p].at
           /\ peer'[p].lagged = peer[p].lagged
           /\ Head(peer[p].queue) \in Message
           /\ Len(peer'[p].queue) <= FanoutCapacity
           /\ Range(peer[p].queue) = {Head(peer[p].queue)} \cup Range(peer'[p].queue)
           /\ \A q \in Connections \ {p} : peer'[q] = peer[q]
           /\ QueueEffect
<1>1. peer \in Peers /\ peer[p] \in PeerState /\ Len(peer[p].queue) <= FanoutCapacity
  BY DEF Typed, Peers
<1>2. peer[p].queue \in Seq(Message)
  BY <1>1 DEF PeerState
<1> DEFINE t == Tail(peer[p].queue)
           s == [peer[p] EXCEPT !.queue = t]
<1>3. /\ Head(peer[p].queue) \in Message
      /\ t \in Seq(Message)
      /\ Len(t) = Len(peer[p].queue) - 1
      /\ Range(peer[p].queue) = {Head(peer[p].queue)} \cup Range(t)
  BY <1>2, RangeTail
<1>4. peer' = [peer EXCEPT ![p] = s]
  OBVIOUS
<1> HIDE DEF t
<1>5. s \in PeerState /\ s.queue = t /\ s.at = peer[p].at /\ s.lagged = peer[p].lagged
  BY <1>1, <1>3 DEF PeerState
<1> HIDE DEF s
<1>6. peer' \in Peers /\ peer'[p] = s /\ \A q \in Connections \ {p} : peer'[q] = peer[q]
  BY <1>1, <1>4, <1>5 DEF Peers
<1>7. Len(t) <= FanoutCapacity
  <2>1. Len(peer[p].queue) \in Nat
    BY <1>2, LenProperties
  <2> QED
    BY <1>1, <1>3, <2>1, PresenceAssumption
<1>8. QueueEffect
  BY <1>3, <1>5, <1>6 DEF QueueEffect
<1> QED
  BY <1>3, <1>5, <1>6, <1>7, <1>8

LEMMA OutgoingStep ==
    ASSUME Typed, NEW p \in Connections, Outgoing(p)
    PROVE  Typed' /\ Effect
<1> DEFINE m == Head(peer[p].queue)
<1>1. peer[p].queue # <<>> /\ peer' = [peer EXCEPT ![p].queue = Tail(@)]
  BY DEF Outgoing
<1>2. /\ peer' \in Peers
      /\ m \in Message
      /\ Len(peer'[p].queue) <= FanoutCapacity
      /\ m \in Range(peer[p].queue)
      /\ \A q \in Connections \ {p} : peer'[q] = peer[q]
      /\ QueueEffect
  BY <1>1, Dequeued
<1>3. m.update \in Updates
  BY <1>2 DEF Message
<1>4. down' = down \/ down' = Sent(down, p, m.update)
  BY DEF Outgoing
<1> HIDE DEF m
<1>5. down' \in Frames /\ DownEffect
  <2>1. CASE down' = down
    BY <2>1, Unmoved DEF Typed
  <2>2. CASE down' = Sent(down, p, m.update)
    <3>1. /\ down' \in Frames
          /\ \A q \in Connections \ {p} : down'[q] = down[q]
          /\ Range(down'[p]) \subseteq Range(down[p]) \cup {m.update}
      BY <1>3, <2>2, SentFrames DEF Typed
    <3> QED
      BY <1>2, <3>1 DEF DownEffect
  <2> QED
    BY <1>4, <2>1, <2>2
<1>6. UpEffect /\ TableEffect /\ ViewEffect
  BY Unmoved DEF Outgoing
<1> QED
  BY <1>2, <1>5, <1>6 DEF Outgoing, Typed, Effect

\* What is withdrawn when a peer leaves, and what is left of the table.
LEMMA Gone ==
    ASSUME Typed, NEW p \in Connections, Leave(p)
    PROVE  \E w \in Updates :
              /\ \A k \in DOMAIN w : /\ k \in DOMAIN states
                                     /\ states[k].here
                                     /\ w[k] = Withdrawn(states[k])
              /\ peer' = [Broadcast(Nobody, w) EXCEPT ![p] = Peer("left")]
              /\ states' \in Tables
              /\ DOMAIN states' \subseteq DOMAIN states
              /\ \A k \in DOMAIN states' : states'[k] = states[k]
<1> DEFINE removed == {k \in Owned(p) : states[k].here}
           w == [k \in removed |-> Withdrawn(states[k])]
<1>1. removed \in SUBSET Clients /\ \A k \in removed : k \in DOMAIN states /\ states[k].here
  BY TableFields DEF Owned, Typed
<1>2. \A k \in removed : Withdrawn(states[k]) \in State
  BY <1>1, TableFields DEF Withdrawn, Typed, State
<1>3. /\ peer' = [Broadcast(Nobody, w) EXCEPT ![p] = Peer("left")]
      /\ states' = Restrict(states, DOMAIN states \ Owned(p))
  BY DEF Leave
<1> HIDE DEF removed
<1>4. w \in [removed -> State]
  BY <1>2
<1>5. w \in Updates /\ \A k \in DOMAIN w : k \in removed /\ w[k] = Withdrawn(states[k])
  BY <1>1, <1>4, UpdateIs
<1> HIDE DEF w
<1>6. /\ DOMAIN states' \subseteq DOMAIN states
      /\ \A k \in DOMAIN states' : states'[k] = states[k]
  BY <1>3 DEF Restrict
<1>7. states' \in Tables
  <2> DEFINE S == DOMAIN states \ Owned(p)
  <2>1. PICK T \in SUBSET Clients : states \in [T -> Entry]
    BY DEF Typed, Tables
  <2>2. S \in SUBSET Clients /\ \A k \in S : states[k] \in Entry
    BY <2>1
  <2>3. states' = [k \in S |-> states[k]]
    BY <1>3 DEF Restrict
  <2> HIDE DEF S
  <2>4. states' \in [S -> Entry]
    BY <2>2, <2>3
  <2> QED
    BY <2>2, <2>4 DEF Tables
<1> QED
  BY <1>1, <1>3, <1>5, <1>6, <1>7

\* What a broadcast leaves of what was on the way to a peer that keeps up.
LEMMA KeepsUp ==
    ASSUME Typed, NEW from \in Connections \cup {Nobody}, NEW u \in Updates, NEW q \in Connections,
           ~Broadcast(from, u)[q].lagged
    PROVE  /\ Broadcast(from, u)[q].at = peer[q].at
           /\ ~peer[q].lagged
           /\ Range(peer[q].queue) \subseteq Range(Broadcast(from, u)[q].queue)
           /\ In(q) /\ u # <<>> =>
                 [from |-> from, update |-> u] \in Range(Broadcast(from, u)[q].queue)
<1>1. peer \in Peers /\ \A r \in Connections : Len(peer[r].queue) <= FanoutCapacity
  BY DEF Typed
<1> QED
  BY <1>1, Told

\* The peers once one left: it is as if it had never been there, and the
\* others were told.
LEMMA LeftPeers ==
    ASSUME Typed, NEW p \in Connections, NEW w \in Updates,
           peer' = [Broadcast(Nobody, w) EXCEPT ![p] = Peer("left")]
    PROVE  /\ peer' \in Peers
           /\ peer'[p] = Peer("left")
           /\ Range(peer'[p].queue) = {}
           /\ \A q \in Connections : Len(peer'[q].queue) <= FanoutCapacity
           /\ \A q \in Connections \ {p} : peer'[q] = Broadcast(Nobody, w)[q]
<1> DEFINE b == Broadcast(Nobody, w)
<1>1. b \in Peers /\ \A q \in Connections : Len(b[q].queue) <= FanoutCapacity
  BY Told DEF Typed
<1> HIDE DEF b
<1>2. <<>> \in Seq(Message) /\ Range(<<>>) = {} /\ Len(<<>>) = 0
  BY EmptySeq DEF Range
<1>3. /\ Peer("left") \in PeerState
      /\ Peer("left").queue = <<>>
  BY <1>2 DEF Peer, PeerState, Stages
<1>4. peer' = [b EXCEPT ![p] = Peer("left")]
  BY DEF b
<1>5. /\ peer' \in Peers
      /\ peer'[p] = Peer("left")
      /\ \A q \in Connections \ {p} : peer'[q] = b[q]
  BY <1>1, <1>3, <1>4 DEF Peers
<1> QED
  BY <1>1, <1>2, <1>3, <1>5, PresenceAssumption DEF b

LEMMA LeaveStep ==
    ASSUME Typed, NEW p \in Connections, Leave(p)
    PROVE  Typed' /\ Effect
<1>1. PICK w \in Updates :
         /\ \A k \in DOMAIN w : /\ k \in DOMAIN states
                                /\ states[k].here
                                /\ w[k] = Withdrawn(states[k])
         /\ peer' = [Broadcast(Nobody, w) EXCEPT ![p] = Peer("left")]
         /\ states' \in Tables
         /\ DOMAIN states' \subseteq DOMAIN states
         /\ \A k \in DOMAIN states' : states'[k] = states[k]
  BY Gone
<1>2. /\ peer' \in Peers
      /\ Range(peer'[p].queue) = {}
      /\ \A q \in Connections : Len(peer'[q].queue) <= FanoutCapacity
      /\ \A q \in Connections \ {p} : peer'[q] = Broadcast(Nobody, w)[q]
  BY <1>1, LeftPeers
<1>3. \A q \in Connections : \A n \in Range(Broadcast(Nobody, w)[q].queue) :
         n \in Range(peer[q].queue) \/ n = [from |-> Nobody, update |-> w]
  BY Told DEF Typed
<1>4. QueueEffect
  <2> SUFFICES ASSUME NEW q \in Connections, NEW m \in Range(peer'[q].queue),
                      m \notin Range(peer[q].queue)
               PROVE  \A k \in DOMAIN m.update : /\ k \in DOMAIN states
                                                 /\ states[k].here
                                                 /\ m.update[k] = Withdrawn(states[k])
    BY DEF QueueEffect
  <2>1. m = [from |-> Nobody, update |-> w]
    BY <1>2, <1>3
  <2> QED
    BY <1>1, <2>1
<1>5. TableEffect
  BY <1>1 DEF TableEffect
<1>6. up' = [up EXCEPT ![p] = <<>>]
  BY DEF Leave
<1>7. /\ up' \in Frames
      /\ \A q \in Connections \ {p} : up'[q] = up[q]
      /\ Range(up'[p]) = {}
  BY <1>6, EndedFrames DEF Typed
<1>8. UpEffect
  BY <1>7 DEF UpEffect
<1>9. DownEffect /\ ViewEffect
  BY Unmoved DEF Leave
<1> QED
  BY <1>1, <1>2, <1>4, <1>5, <1>7, <1>8, <1>9 DEF Leave, Typed, Effect

LEMMA Step ==
    ASSUME Typed, [Next]_vars
    PROVE  Typed' /\ Effect
<1>1. CASE UNCHANGED vars
  BY <1>1, Unmoved DEF vars, Typed, Effect
<1>2. ASSUME NEW c \in Clients, SetLocal(c) \/ ClearLocal(c)
      PROVE  Typed' /\ Effect
  BY <1>2, PublishStep DEF SetLocal, ClearLocal
<1>3. ASSUME NEW c \in Clients, Flush(c) \/ Connect(c) \/ Receive(c) \/ Lose(c)
      PROVE  Typed' /\ Effect
  BY <1>3, FlushStep, ConnectStep, ReceiveStep, LoseStep
<1>4. ASSUME NEW p \in Connections,
             Join(p) \/ Greet(p) \/ Incoming(p) \/ Outgoing(p) \/ Leave(p)
      PROVE  Typed' /\ Effect
  BY <1>4, JoinStep, GreetStep, IncomingStep, OutgoingStep, LeaveStep
<1> QED
  BY <1>1, <1>2, <1>3, <1>4 DEF Next

LEMMA InitTyped == Init => Typed
<1> SUFFICES ASSUME Init PROVE Typed
  OBVIOUS
<1>1. <<>> \in Seq(Updates) /\ <<>> \in Seq(Message) /\ Len(<<>>) = 0
  BY EmptySeq
<1>2. states \in Tables
  <2>1. states \in [{} -> Entry]
    BY DEF Init
  <2> QED
    BY <2>1 DEF Tables
<1>3. /\ peer \in Peers
      /\ \A p \in Connections : Len(peer[p].queue) <= FanoutCapacity
  BY <1>1, PresenceAssumption DEF Init, Peer, Peers, PeerState, Stages
<1>4. up \in Frames /\ down \in Frames
  BY <1>1 DEF Init, Frames
<1>5. socket \in [Clients -> 0..MaxConnections] /\ changed \in [Clients -> BOOLEAN]
  BY PresenceAssumption DEF Init
<1>6. shown \in Views
  BY DEF Init, Views, Unknown, State
<1> QED
  BY <1>2, <1>3, <1>4, <1>5, <1>6 DEF Typed

\* Every variable keeps its type, and no receiver outgrows its capacity.
THEOREM TypeCorrect == Spec => []TypeOK
<1>1. Typed /\ [Next]_vars => Typed'
  BY Step
<1>2. ASSUME Typed PROVE TypeOK
  <2>1. ASSUME NEW p \in Connections
        PROVE  /\ peer[p].at \in Stages /\ peer[p].lagged \in BOOLEAN
               /\ Len(peer[p].queue) <= FanoutCapacity
               /\ \A m \in Range(peer[p].queue) :
                     m.from \in Connections \cup {Nobody} /\ Is(m.update)
               /\ \A u \in Range(up[p]) \cup Range(down[p]) : Is(u)
    <3>1. peer[p] \in PeerState /\ up[p] \in Seq(Updates) /\ down[p] \in Seq(Updates)
      BY <1>2 DEF Typed, Peers, Frames
    <3>2. peer[p].queue \in Seq(Message)
      BY <3>1 DEF PeerState
    <3>3. /\ \A m \in Range(peer[p].queue) : m \in Message
          /\ \A u \in Range(up[p]) \cup Range(down[p]) : u \in Updates
      BY <3>1, <3>2 DEF Range
    <3>4. \A m \in Range(peer[p].queue) :
             m.from \in Connections \cup {Nobody} /\ m.update \in Updates
      BY <3>3 DEF Message
    <3>5. \A u \in Updates : Is(u)
      BY UpdateFields DEF Is
    <3> QED
      BY <1>2, <3>1, <3>3, <3>4, <3>5 DEF Typed, PeerState
  <2>2. DOMAIN states \subseteq Clients
    BY <1>2, TableFields DEF Typed
  <2>3. \A k \in DOMAIN states : states[k] \in Entry
    <3>1. PICK S \in SUBSET Clients : states \in [S -> Entry]
      BY <1>2 DEF Typed, Tables
    <3> QED
      BY <3>1
  <2> QED
    BY <1>2, <2>1, <2>2, <2>3 DEF TypeOK, Typed, Views, Entry
<1> QED
  BY InitTyped, <1>1, <1>2, PTL DEF Spec

(***************************************************************************)
(* Clocks.                                                                 *)
(***************************************************************************)

\* What an update says is near the clocks of those it is about.
NearAll(u) == \A k \in DOMAIN u : Near(k, u[k])

\* What is near a clock stays near it, and so do the updates.
LEMMA StaysNear ==
    ASSUME Typed, Typed', ViewEffect, NEW k \in Clients, NEW s, s.clock \in Nat,
           s.clock <= shown[k][k].clock + (IF s.here THEN 0 ELSE 1)
    PROVE  s.clock <= shown'[k][k].clock + (IF s.here THEN 0 ELSE 1)
<1>1. shown[k][k].clock \in Nat /\ shown'[k][k].clock \in Nat
  BY DEF Typed, Views, State
<1>2. shown[k][k].clock <= shown'[k][k].clock
  BY DEF ViewEffect
<1>3. CASE s.here
  BY <1>1, <1>2, <1>3
<1>4. CASE ~s.here
  BY <1>1, <1>2, <1>4
<1> QED
  BY <1>3, <1>4

\* The parts of the invariant.
ViewsNear == \A c, k \in Clients : Near(k, shown[c][k])
TableNear == \A k \in DOMAIN states : Near(k, states[k])
UpNear == \A p \in Connections : \A u \in Range(up[p]) : NearAll(u)
DownNear == \A p \in Connections : \A u \in Range(down[p]) : NearAll(u)
QueuesNear == \A p \in Connections : \A m \in Range(peer[p].queue) : NearAll(m.update)

LEMMA NearParts ==
    ClocksStayNear <=> ViewsNear /\ TableNear /\ UpNear /\ DownNear /\ QueuesNear
  BY DEF ClocksStayNear, ViewsNear, TableNear, UpNear, DownNear, QueuesNear, NearAll

\* What is in a channel is an update.
LEMMA Carried ==
    ASSUME Typed, NEW p \in Connections
    PROVE  /\ \A u \in Range(up[p]) \cup Range(down[p]) : u \in Updates
           /\ \A m \in Range(peer[p].queue) : m \in Message /\ m.update \in Updates
<1>1. peer[p] \in PeerState /\ up[p] \in Seq(Updates) /\ down[p] \in Seq(Updates)
  BY DEF Typed, Peers, Frames
<1>2. peer[p].queue \in Seq(Message)
  BY <1>1 DEF PeerState
<1>3. /\ \A m \in Range(peer[p].queue) : m \in Message
      /\ \A u \in Range(up[p]) \cup Range(down[p]) : u \in Updates
  BY <1>1, <1>2 DEF Range
<1> QED
  BY <1>3 DEF Message

\* A step keeps what was near: what it adds was said or shown before, or is
\* one clock past a state that is there.
LEMMA NearStep ==
    ASSUME Typed, Typed', Effect, ClocksStayNear
    PROVE  ClocksStayNear'
<1>0. ViewsNear /\ TableNear /\ UpNear /\ DownNear /\ QueuesNear
  BY NearParts
<1>1. ASSUME NEW k \in Clients, NEW s, s.clock \in Nat,
             s.clock <= shown[k][k].clock + (IF s.here THEN 0 ELSE 1)
      PROVE  s.clock <= shown'[k][k].clock + (IF s.here THEN 0 ELSE 1)
  BY <1>1, StaysNear DEF Effect
<1>2. \A c, k \in Clients : shown[c][k].clock \in Nat /\ shown[c][k].here \in BOOLEAN
  BY DEF Typed, Views, State
<1>3. /\ DOMAIN states \subseteq Clients
      /\ \A k \in DOMAIN states : states[k].clock \in Nat /\ states[k].here \in BOOLEAN
  BY TableFields DEF Typed
<1>4. ASSUME NEW u \in Updates, NearAll(u), NEW k \in DOMAIN u
      PROVE  /\ k \in Clients
             /\ u[k].clock \in Nat
             /\ u[k].clock <= shown'[k][k].clock + (IF u[k].here THEN 0 ELSE 1)
  <2>1. k \in Clients /\ u[k].clock \in Nat
    BY UpdateFields
  <2>2. u[k].clock <= shown[k][k].clock + (IF u[k].here THEN 0 ELSE 1)
    BY <1>4 DEF NearAll, Near
  <2> QED
    BY <1>1, <2>1, <2>2
<1>5. ViewsNear'
  <2> SUFFICES ASSUME NEW c \in Clients, NEW k \in Clients
               PROVE  shown'[c][k].clock <= shown'[k][k].clock + (IF shown'[c][k].here THEN 0 ELSE 1)
    BY DEF ViewsNear, Near
  <2>1. CASE k = c
    <3>1. shown'[k][k].clock \in Nat
      BY DEF Typed, Views, State
    <3> QED
      BY <2>1, <3>1
  <2>2. CASE k # c /\ shown'[c][k] = shown[c][k]
    BY <1>0, <1>1, <1>2, <2>2 DEF ViewsNear, Near
  <2>3. CASE k # c /\ shown'[c][k] # shown[c][k]
    <3>0. PICK p \in Connections :
             \E u \in Range(down[p]) : k \in DOMAIN u /\ shown'[c][k] = u[k]
      BY <2>3 DEF Effect, ViewEffect
    <3>1. PICK u \in Range(down[p]) : k \in DOMAIN u /\ shown'[c][k] = u[k]
      BY <3>0
    <3>2. u \in Updates /\ NearAll(u)
      BY <1>0, <3>1, Carried DEF DownNear
    <3> QED
      BY <1>4, <3>1, <3>2
  <2> QED
    BY <2>1, <2>2, <2>3
<1>6. TableNear'
  <2> SUFFICES ASSUME NEW k \in DOMAIN states'
               PROVE  states'[k].clock <= shown'[k][k].clock + (IF states'[k].here THEN 0 ELSE 1)
    BY DEF TableNear, Near
  <2>1. CASE k \in DOMAIN states /\ states'[k] = states[k]
    BY <1>0, <1>1, <1>3, <2>1 DEF TableNear, Near
  <2>2. CASE ~(k \in DOMAIN states /\ states'[k] = states[k])
    <3>0. PICK p \in Connections : \E u \in Range(up[p]) :
             k \in DOMAIN u /\ states'[k].clock = u[k].clock /\ states'[k].here = u[k].here
      BY <2>2 DEF Effect, TableEffect
    <3>1. PICK u \in Range(up[p]) :
             k \in DOMAIN u /\ states'[k].clock = u[k].clock /\ states'[k].here = u[k].here
      BY <3>0
    <3>2. u \in Updates /\ NearAll(u)
      BY <1>0, <3>1, Carried DEF UpNear
    <3> QED
      BY <1>4, <3>1, <3>2
  <2> QED
    BY <2>1, <2>2
<1>7. UpNear'
  <2> SUFFICES ASSUME NEW p \in Connections, NEW u \in Range(up'[p]), NEW k \in DOMAIN u
               PROVE  u[k].clock <= shown'[k][k].clock + (IF u[k].here THEN 0 ELSE 1)
    BY DEF UpNear, NearAll, Near
  <2>1. CASE u \in Range(up[p])
    <3>1. u \in Updates /\ NearAll(u)
      BY <1>0, <2>1, Carried DEF UpNear
    <3> QED
      BY <1>4, <3>1
  <2>2. CASE u \notin Range(up[p])
    <3>1. u[k] = shown[Client(p)][k] /\ Client(p) \in Clients
      BY <2>2, ConnectionFields DEF Effect, UpEffect
    <3>2. up'[p] \in Seq(Updates)
      BY DEF Typed, Frames
    <3>3. k \in Clients
      BY <3>2, UpdateFields DEF Range
    <3> QED
      BY <1>0, <1>1, <1>2, <3>1, <3>3 DEF ViewsNear, Near
  <2> QED
    BY <2>1, <2>2
<1>8. ASSUME NEW k \in DOMAIN states, states[k].here
      PROVE  /\ k \in Clients
             /\ states[k].clock \in Nat
             /\ states[k].clock <= shown'[k][k].clock
             /\ shown'[k][k].clock \in Nat
  <2>1. states[k].clock <= shown[k][k].clock + (IF states[k].here THEN 0 ELSE 1)
    BY <1>0 DEF TableNear, Near
  <2>2. states[k].clock <= shown'[k][k].clock + (IF states[k].here THEN 0 ELSE 1)
    BY <1>1, <1>3, <2>1
  <2>3. k \in Clients /\ states[k].clock \in Nat
    BY <1>3
  <2>4. shown'[k][k].clock \in Nat
    BY <2>3 DEF Typed, Views, State
  <2> QED
    BY <1>8, <2>2, <2>3, <2>4
<1>9. DownNear'
  <2> SUFFICES ASSUME NEW p \in Connections, NEW u \in Range(down'[p]), NEW k \in DOMAIN u
               PROVE  u[k].clock <= shown'[k][k].clock + (IF u[k].here THEN 0 ELSE 1)
    BY DEF DownNear, NearAll, Near
  <2>1. CASE u \in Range(down[p]) \/ \E m \in Range(peer[p].queue) : u = m.update
    <3>1. u \in Updates /\ NearAll(u)
      BY <1>0, <2>1, Carried DEF DownNear, QueuesNear
    <3> QED
      BY <1>4, <3>1
  <2>2. CASE k \in DOMAIN states /\ states[k].here /\ u[k].clock = states[k].clock /\ u[k].here
    BY <1>8, <2>2
  <2> QED
    BY <2>1, <2>2 DEF Effect, DownEffect
<1>10. QueuesNear'
  <2> SUFFICES ASSUME NEW p \in Connections, NEW m \in Range(peer'[p].queue), NEW k \in DOMAIN m.update
               PROVE  m.update[k].clock <=
                         shown'[k][k].clock + (IF m.update[k].here THEN 0 ELSE 1)
    BY DEF QueuesNear, NearAll, Near
  <2>1. CASE m \in Range(peer[p].queue)
    <3>1. m.update \in Updates /\ NearAll(m.update)
      BY <1>0, <2>1, Carried DEF QueuesNear
    <3> QED
      BY <1>4, <3>1
  <2>2. ASSUME NEW q \in Connections, NEW u \in Range(up[q]),
               \A j \in DOMAIN m.update : j \in DOMAIN u /\ m.update[j] = u[j]
        PROVE  m.update[k].clock <= shown'[k][k].clock + (IF m.update[k].here THEN 0 ELSE 1)
    <3>1. u \in Updates /\ NearAll(u)
      BY <1>0, Carried DEF UpNear
    <3>2. k \in DOMAIN u /\ m.update[k] = u[k]
      BY <2>2
    <3> QED
      BY <1>4, <3>1, <3>2
  <2>3. CASE k \in DOMAIN states /\ states[k].here /\ m.update[k] = Withdrawn(states[k])
    <3>1. m.update[k].clock = states[k].clock + 1 /\ ~m.update[k].here
      BY <2>3 DEF Withdrawn
    <3> QED
      BY <1>8, <2>3, <3>1
  <2> QED
    BY <2>1, <2>2, <2>3 DEF Effect, QueueEffect
<1> QED
  BY <1>5, <1>6, <1>7, <1>9, <1>10 DEF ClocksStayNear, ViewsNear, TableNear, UpNear, DownNear,
     QueuesNear, NearAll

\* ClocksStayNear: whoever withdraws whom, and however often anybody connects
\* again, no clock is more than one past its client's own.
THEOREM ClocksStayNearTheorem == Spec => []ClocksStayNear
<1>1. ASSUME Init PROVE ClocksStayNear
  <2>1. \A p \in Connections : up[p] = <<>> /\ down[p] = <<>> /\ peer[p].queue = <<>>
    BY <1>1 DEF Init, Peer
  <2>2. Range(<<>>) = {}
    BY DEF Range
  <2>3. \A c, k \in Clients : shown[c][k].clock = 0
    BY <1>1 DEF Init, Unknown
  <2>4. DOMAIN states = {}
    BY <1>1 DEF Init
  <2>5. ViewsNear
    BY <2>3 DEF ViewsNear, Near
  <2>6. TableNear /\ UpNear /\ DownNear /\ QueuesNear
    BY <2>1, <2>2, <2>4 DEF TableNear, UpNear, DownNear, QueuesNear
  <2> QED
    BY <2>5, <2>6, NearParts
<1>2. Typed /\ ClocksStayNear /\ [Next]_vars => (Typed /\ ClocksStayNear)'
  BY Step, NearStep
<1> QED
  BY InitTyped, <1>1, <1>2, PTL DEF Spec

(***************************************************************************)
(* Missed states.  NoPresenceMissed alone is not inductive: a peer is not  *)
(* sent what it says itself, so its client has to hold that already.       *)
(***************************************************************************)

\* What a client says of anybody, it holds, or has overtaken.
ClientHolds ==
    \A p \in Connections : \A u \in Range(up[p]) : \A k \in DOMAIN u :
        u[k].clock <= shown[Client(p)][k].clock

LEMMA HoldsStep ==
    ASSUME Typed, Typed', Effect, ClientHolds
    PROVE  ClientHolds'
<1> SUFFICES ASSUME NEW p \in Connections, NEW u \in Range(up'[p]), NEW k \in DOMAIN u
             PROVE  u[k].clock <= shown'[Client(p)][k].clock
  BY DEF ClientHolds
<1>1. up'[p] \in Seq(Updates)
  BY DEF Typed, Frames
<1>2. k \in Clients /\ u[k].clock \in Nat
  BY <1>1, UpdateFields DEF Range
<1>3. Client(p) \in Clients
  BY ConnectionFields
<1>4. /\ shown[Client(p)][k].clock \in Nat
      /\ shown'[Client(p)][k].clock \in Nat
      /\ shown[Client(p)][k].clock <= shown'[Client(p)][k].clock
  BY <1>2, <1>3 DEF Typed, Views, State, Effect, ViewEffect
<1>5. u[k].clock <= shown[Client(p)][k].clock
  <2>1. CASE u \in Range(up[p])
    BY <2>1 DEF ClientHolds
  <2>2. CASE u \notin Range(up[p])
    <3>1. u[k] = shown[Client(p)][k]
      BY <2>2 DEF Effect, UpEffect
    <3> QED
      BY <1>2, <3>1
  <2> QED
    BY <2>1, <2>2
<1> QED
  BY <1>2, <1>4, <1>5

\* Peers the property is about, and what it says of one and of one state.
Relayed(p) == peer[p].at = "relay" /\ Open(p) /\ ~peer[p].lagged
Known(p, k) ==
    \/ shown[Client(p)][k].clock >= states[k].clock
    \/ \E u \in Coming(p) : k \in DOMAIN u /\ u[k].clock >= states[k].clock

LEMMA MissedParts ==
    NoPresenceMissed <=>
        \A p \in Connections : Relayed(p) =>
            \A k \in DOMAIN states \ {Client(p)} : states[k].here => Known(p, k)
  BY DEF NoPresenceMissed, Relayed, Known

\* A state the step leaves alone stays known, if what was on the way still is
\* or has arrived.
LEMMA StaysKnown ==
    ASSUME Typed, Typed', Effect, NEW p \in Connections, NEW k \in DOMAIN states,
           k \in DOMAIN states', states'[k] = states[k], Known(p, k),
           \A u \in Coming(p) : k \in DOMAIN u =>
               u \in Coming(p)' \/ u[k].clock <= shown'[Client(p)][k].clock
    PROVE  Known(p, k)'
<1>1. k \in Clients /\ states[k].clock \in Nat
  BY TableFields DEF Typed
<1>2. Client(p) \in Clients
  BY ConnectionFields
<1>3. /\ shown[Client(p)][k].clock \in Nat
      /\ shown'[Client(p)][k].clock \in Nat
      /\ shown[Client(p)][k].clock <= shown'[Client(p)][k].clock
  BY <1>1, <1>2 DEF Typed, Views, State, Effect, ViewEffect
<1>4. CASE shown[Client(p)][k].clock >= states[k].clock
  BY <1>1, <1>3, <1>4 DEF Known
<1>5. ASSUME NEW u \in Coming(p), k \in DOMAIN u, u[k].clock >= states[k].clock
      PROVE  Known(p, k)'
  <2>1. u[k].clock \in Nat
    BY <1>5, Carried, UpdateFields DEF Coming
  <2>2. CASE u \in Coming(p)'
    BY <1>5, <2>2 DEF Known
  <2>3. CASE u[k].clock <= shown'[Client(p)][k].clock
    BY <1>1, <1>3, <1>5, <2>1, <2>3 DEF Known
  <2> QED
    BY <1>5, <2>2, <2>3
<1> QED
  BY <1>4, <1>5 DEF Known

\* The client's steps leave the table alone.  Its socket is the only one that
\* opens or ends, and what it reads it holds.
LEMMA ClientMisses ==
    ASSUME Typed, Typed', Effect, NoPresenceMissed, NEW c \in Clients,
           SetLocal(c) \/ ClearLocal(c) \/ Flush(c) \/ Connect(c) \/ Receive(c) \/ Lose(c)
    PROVE  NoPresenceMissed'
<1> SUFFICES ASSUME NEW p \in Connections, Relayed(p)',
                    NEW k \in DOMAIN states' \ {Client(p)}, states'[k].here
             PROVE  Known(p, k)'
  BY MissedParts DEF NoPresenceMissed, Relayed, Known
<1>0. states' = states
  BY DEF SetLocal, ClearLocal, Publish, Flush, Connect, Receive, Lose
<1>1. Client(p) \in Clients /\ p[2] \in 1..MaxConnections /\ p = <<Client(p), p[2]>>
  BY ConnectionFields
<1>2. Relayed(p) => Known(p, k)
  BY <1>0, MissedParts
<1>3. CASE SetLocal(c) \/ ClearLocal(c) \/ Flush(c)
  <2>1. /\ Relayed(p)
        /\ Coming(p)' = Coming(p)
    BY <1>3 DEF SetLocal, ClearLocal, Publish, Flush, Relayed, Open, Coming
  <2> QED
    BY <1>0, <1>2, <2>1, StaysKnown
<1>4. CASE Connect(c)
  <2>1. PICK n \in 1..MaxConnections :
           /\ peer[<<c, n>>].at = "new"
           /\ socket' = [socket EXCEPT ![c] = n]
           /\ peer' = [peer EXCEPT ![<<c, n>>].at = "accepted"]
    BY <1>4 DEF Connect
  <2> DEFINE q == <<c, n>>
  <2>2. q \in Connections /\ Client(q) = c
    BY DEF Connections, Client
  <2>3. peer' = [peer EXCEPT ![q].at = "accepted"] /\ "accepted" \in Stages
    BY <2>1 DEF Stages
  <2>4. socket'[c] = n /\ \A d \in Clients \ {c} : socket'[d] = socket[d]
    BY <2>1 DEF Typed
  <2>5. Client(p) = c => p = q
    BY <1>1, <2>4 DEF Relayed, Open
  <2> HIDE DEF q
  <2>6. /\ peer'[q].at = "accepted"
        /\ \A r \in Connections : r # q => peer'[r] = peer[r]
    BY <2>2, <2>3, Moved
  <2>7. p # q
    BY <2>6 DEF Relayed
  <2>8. Relayed(p)
    BY <1>1, <2>4, <2>5, <2>6, <2>7 DEF Relayed, Open
  <2>9. Coming(p)' = Coming(p)
    BY <1>4, <2>6, <2>7 DEF Connect, Coming
  <2> QED
    BY <1>0, <1>2, <2>8, <2>9, StaysKnown
<1>5. CASE Receive(c)
  <2> DEFINE q == Current(c)
             u == Head(down[q])
  <2>1. q \in Connections /\ Client(q) = c
    BY <1>5 DEF Receive, Typed, Connections, Current, Client
  <2>2. /\ down[q] # <<>> /\ down' = [down EXCEPT ![q] = Tail(@)]
        /\ shown' = [shown EXCEPT ![c] = Applied(c, u)]
        /\ peer' = peer /\ socket' = socket
    BY <1>5 DEF Receive
  <2> HIDE DEF q
  <2>3. down \in Frames
    BY DEF Typed
  <2>4. /\ Head(down[q]) \in Updates
        /\ \A r \in Connections \ {q} : [down EXCEPT ![q] = Tail(@)][r] = down[r]
        /\ Range(down[q]) = {Head(down[q])} \cup Range([down EXCEPT ![q] = Tail(@)][q])
    BY <2>1, <2>2, <2>3, TakenFrames
  <2>5. /\ u \in Updates
        /\ \A r \in Connections \ {q} : down'[r] = down[r]
        /\ Range(down[q]) = {u} \cup Range(down'[q])
    BY <2>2, <2>4
  <2> HIDE DEF u
  <2>6. \A j \in DOMAIN u \ {c} : u[j].clock <= Applied(c, u)[j].clock
    BY <2>5, AppliedView DEF Typed
  <2>7. shown'[c] = Applied(c, u)
    BY <2>2 DEF Typed, Views
  <2>8. Relayed(p)
    BY <2>2 DEF Relayed, Open
  <2>9. ASSUME NEW w \in Coming(p), k \in DOMAIN w
        PROVE  w \in Coming(p)' \/ w[k].clock <= shown'[Client(p)][k].clock
    <3>1. CASE p = q /\ w = u
      <4>1. k # c
        BY <2>1, <3>1
      <4> QED
        BY <2>1, <2>6, <2>7, <2>9, <3>1, <4>1
    <3>2. CASE ~(p = q /\ w = u)
      BY <2>2, <2>5, <3>2 DEF Coming
    <3> QED
      BY <3>1, <3>2
  <2> QED
    BY <1>0, <1>2, <2>8, <2>9, StaysKnown
<1>6. CASE Lose(c)
  <2>1. /\ socket'[c] = 0
        /\ \A d \in Clients \ {c} : socket'[d] = socket[d]
        /\ peer' = peer
    BY <1>6 DEF Lose, Typed
  <2>2. Client(p) # c
    BY <1>1, <2>1 DEF Relayed, Open
  <2>3. Current(c) # p
    BY <2>2 DEF Current, Client
  <2>4. down'[p] = down[p]
    BY <1>6, <2>3 DEF Lose, Typed, Frames
  <2>5. Relayed(p)
    BY <1>1, <2>1, <2>2 DEF Relayed, Open
  <2>6. Coming(p)' = Coming(p)
    BY <2>1, <2>4 DEF Coming
  <2> QED
    BY <1>0, <1>2, <2>5, <2>6, StaysKnown
<1> QED
  BY <1>3, <1>4, <1>5, <1>6

\* A peer that joins and is greeted is sent what the table shows.
LEMMA GreetedKnows ==
    ASSUME Typed, Typed', Effect, NoPresenceMissed, NEW q \in Connections, Join(q) \/ Greet(q)
    PROVE  NoPresenceMissed'
<1> SUFFICES ASSUME NEW p \in Connections, Relayed(p)',
                    NEW k \in DOMAIN states' \ {Client(p)}, states'[k].here
             PROVE  Known(p, k)'
  BY MissedParts DEF NoPresenceMissed, Relayed, Known
<1>0. states' = states /\ socket' = socket /\ shown' = shown
  BY DEF Join, Greet
<1>1. PICK at \in Stages : /\ peer' = [peer EXCEPT ![q].at = at]
                           /\ (Join(q) /\ at = "joined") \/ (Greet(q) /\ at = "relay")
  BY DEF Join, Greet, Stages
<1>2. /\ peer'[q].at = at
      /\ \A r \in Connections : /\ peer'[r].queue = peer[r].queue
                                /\ peer'[r].lagged = peer[r].lagged
                                /\ r # q => peer'[r] = peer[r]
  BY <1>1, Moved
<1>3. CASE p # q
  <2>1. Relayed(p)
    BY <1>0, <1>2, <1>3 DEF Relayed, Open
  <2>2. down'[p] = down[p]
    <3>1. down' = down \/ down' = Sent(down, q, Snapshot)
      BY DEF Join, Greet
    <3>2. down \in Frames /\ Snapshot \in Updates
      BY SnapshotFields DEF Typed
    <3> QED
      BY <1>3, <3>1, <3>2, SentFrames
  <2>3. Coming(p)' = Coming(p)
    BY <1>2, <1>3, <2>2 DEF Coming
  <2>4. Known(p, k)
    BY <1>0, <2>1, MissedParts
  <2> QED
    BY <1>0, <2>3, <2>4, StaysKnown
<1>4. CASE p = q
  <2>1. Greet(p)
    BY <1>1, <1>2, <1>4 DEF Relayed
  <2>2. Open(p)
    BY <1>0 DEF Relayed, Open
  <2>3. down' = Sent(down, p, Snapshot)
    BY <2>1, <2>2 DEF Greet
  <2>4. /\ Snapshot \in Updates
        /\ k \in DOMAIN Snapshot
        /\ Snapshot[k].clock = states[k].clock
    BY <1>0, SnapshotFields
  <2>5. Snapshot # <<>>
    BY <2>4, UpdateFields
  <2>6. Snapshot \in Range(down'[p])
    BY <2>3, <2>4, <2>5, SentFrames DEF Typed
  <2>7. states[k].clock \in Nat
    BY <1>0, TableFields DEF Typed
  <2>8. Snapshot \in Coming(p)'
    BY <2>6 DEF Coming
  <2>9. Snapshot[k].clock >= states'[k].clock
    BY <1>0, <2>4, <2>7
  <2>10. \E u \in Coming(p)' : k \in DOMAIN u /\ u[k].clock >= states'[k].clock
    BY <2>4, <2>8, <2>9
  <2> QED
    BY <2>10 DEF Known
<1> QED
  BY <1>3, <1>4

\* What the table takes from a client, the others are sent unless they fall
\* behind, and the client holds.
LEMMA TakenIsKnown ==
    ASSUME Typed, Typed', Effect, ClientHolds, NoPresenceMissed,
           NEW q \in Connections, Incoming(q)
    PROVE  NoPresenceMissed'
<1> SUFFICES ASSUME NEW p \in Connections, Relayed(p)',
                    NEW k \in DOMAIN states' \ {Client(p)}, states'[k].here
             PROVE  Known(p, k)'
  BY MissedParts DEF NoPresenceMissed, Relayed, Known
<1>0. socket' = socket /\ shown' = shown /\ down' = down
  BY DEF Incoming
<1> DEFINE u == Head(up[q])
<1>1. u \in Updates /\ u \in Range(up[q])
  BY Taken
<1>2. PICK accepted \in SUBSET DOMAIN u :
         /\ Restrict(u, accepted) \in Updates
         /\ peer' = Broadcast(q, Restrict(u, accepted))
         /\ DOMAIN states' = DOMAIN states \cup accepted
         /\ \A j \in DOMAIN states \ accepted : states'[j] = states[j]
         /\ \A j \in accepted : states'[j].clock = u[j].clock
  BY Taken
<1> DEFINE w == Restrict(u, accepted)
           m == [from |-> q, update |-> w]
<1>3. DOMAIN w = accepted /\ \A j \in accepted : w[j] = u[j]
  BY <1>2 DEF Restrict
<1>4. w \in Updates /\ peer' = Broadcast(q, w)
  BY <1>2
<1> HIDE DEF u, w
<1>5. /\ peer'[p].at = peer[p].at
      /\ ~peer[p].lagged
      /\ Range(peer[p].queue) \subseteq Range(peer'[p].queue)
      /\ In(p) /\ w # <<>> => m \in Range(peer'[p].queue)
  BY <1>4, KeepsUp DEF Relayed
<1>6. Relayed(p)
  BY <1>0, <1>5 DEF Relayed, Open
<1>7. CASE k \notin accepted
  <2>1. k \in DOMAIN states /\ states'[k] = states[k]
    BY <1>2, <1>7
  <2>2. Known(p, k)
    BY <1>6, <2>1, MissedParts
  <2>3. Coming(p) \subseteq Coming(p)'
    BY <1>0, <1>5 DEF Coming
  <2> QED
    BY <2>1, <2>2, <2>3, StaysKnown
<1>8. CASE k \in accepted /\ p = q
  <2>1. u[k].clock <= shown[Client(p)][k].clock
    BY <1>1, <1>2, <1>8 DEF ClientHolds
  <2>2. Client(p) \in Clients /\ k \in Clients /\ u[k].clock \in Nat
    BY <1>1, <1>2, <1>8, ConnectionFields, UpdateFields
  <2>3. shown[Client(p)][k].clock \in Nat
    BY <2>2 DEF Typed, Views, State
  <2>4. shown'[Client(p)][k].clock >= states'[k].clock
    BY <1>0, <1>2, <1>8, <2>1, <2>2, <2>3
  <2> QED
    BY <2>4 DEF Known
<1>9. CASE k \in accepted /\ p # q
  <2>1. In(p)
    BY <1>6 DEF Relayed, In
  <2>2. w # <<>>
    BY <1>3, <1>4, <1>9, UpdateFields
  <2>3. m \in Range(peer'[p].queue) /\ m.from # p
    BY <1>5, <1>9, <2>1, <2>2
  <2>4. w \in Coming(p)'
    <3>1. m.update = w
      OBVIOUS
    <3> HIDE DEF m
    <3> QED
      BY <2>3, <3>1 DEF Coming
  <2>5. k \in DOMAIN w /\ w[k].clock = states'[k].clock /\ w[k].clock \in Nat
    BY <1>2, <1>3, <1>4, <1>9, UpdateFields
  <2>6. w[k].clock >= states'[k].clock
    BY <2>5
  <2>7. \E x \in Coming(p)' : k \in DOMAIN x /\ x[k].clock >= states'[k].clock
    BY <2>4, <2>5, <2>6
  <2> QED
    BY <2>7 DEF Known
<1> QED
  BY <1>7, <1>8, <1>9

\* A message that leaves a receiver is sent, unless the peer said it; a peer
\* that leaves takes its states with it.
LEMMA RelayMisses ==
    ASSUME Typed, Typed', Effect, NoPresenceMissed, NEW q \in Connections, Outgoing(q) \/ Leave(q)
    PROVE  NoPresenceMissed'
<1> SUFFICES ASSUME NEW p \in Connections, Relayed(p)',
                    NEW k \in DOMAIN states' \ {Client(p)}, states'[k].here
             PROVE  Known(p, k)'
  BY MissedParts DEF NoPresenceMissed, Relayed, Known
<1>0. socket' = socket /\ shown' = shown
  BY DEF Outgoing, Leave
<1>1. CASE Outgoing(q)
  <2> DEFINE m == Head(peer[q].queue)
  <2>1. /\ peer[q].queue # <<>>
        /\ peer' = [peer EXCEPT ![q].queue = Tail(@)]
        /\ states' = states
        /\ down' = IF Open(q) /\ m.from # q THEN Sent(down, q, m.update) ELSE down
    BY <1>1 DEF Outgoing
  <2>2. /\ peer'[q].at = peer[q].at
        /\ peer'[q].lagged = peer[q].lagged
        /\ m \in Message
        /\ Range(peer[q].queue) = {m} \cup Range(peer'[q].queue)
        /\ \A r \in Connections \ {q} : peer'[r] = peer[r]
    BY <2>1, Dequeued
  <2> HIDE DEF m
  <2>3. Relayed(p)
    BY <1>0, <2>2 DEF Relayed, Open
  <2>4. m.update \in Updates /\ down \in Frames
    BY <2>2 DEF Message, Typed
  <2>5. /\ Range(down[p]) \subseteq Range(down'[p])
        /\ p = q /\ m.from # q /\ m.update # <<>> => m.update \in Range(down'[p])
    BY <2>1, <2>3, <2>4, SentFrames DEF Relayed
  <2>6. ASSUME NEW w \in Coming(p), k \in DOMAIN w
        PROVE  w \in Coming(p)'
    <3>1. w # <<>>
      BY <2>6, Carried, UpdateFields DEF Coming
    <3>2. CASE w \in Range(down[p])
      BY <2>5, <3>2 DEF Coming
    <3>3. CASE w \notin Range(down[p])
      <4>1. PICK n \in Range(peer[p].queue) : n.from # p /\ w = n.update
        BY <3>3 DEF Coming
      <4>2. CASE n \in Range(peer'[p].queue)
        BY <4>1, <4>2 DEF Coming
      <4>3. CASE n \notin Range(peer'[p].queue)
        <5>1. p = q /\ n = m
          BY <2>2, <4>3
        <5> QED
          BY <2>5, <3>1, <4>1, <5>1 DEF Coming
      <4> QED
        BY <4>2, <4>3
    <3> QED
      BY <3>2, <3>3
  <2>7. k \in DOMAIN states /\ Known(p, k)
    BY <2>1, <2>3, MissedParts
  <2> QED
    BY <2>1, <2>6, <2>7, StaysKnown
<1>2. CASE Leave(q)
  <2>1. PICK w \in Updates :
           /\ peer' = [Broadcast(Nobody, w) EXCEPT ![q] = Peer("left")]
           /\ DOMAIN states' \subseteq DOMAIN states
           /\ \A j \in DOMAIN states' : states'[j] = states[j]
    BY <1>2, Gone
  <2>2. /\ peer'[q] = Peer("left")
        /\ \A r \in Connections \ {q} : peer'[r] = Broadcast(Nobody, w)[r]
    BY <2>1, LeftPeers
  <2>3. p # q
    BY <2>2 DEF Relayed, Peer
  <2>4. /\ peer'[p].at = peer[p].at
        /\ ~peer[p].lagged
        /\ Range(peer[p].queue) \subseteq Range(peer'[p].queue)
    <3> DEFINE b == Broadcast(Nobody, w)
    <3>1. peer'[p] = b[p] /\ ~b[p].lagged /\ Nobody \in Connections \cup {Nobody}
      BY <2>2, <2>3 DEF Relayed
    <3>2. /\ b[p].at = peer[p].at
          /\ ~peer[p].lagged
          /\ Range(peer[p].queue) \subseteq Range(b[p].queue)
      BY <3>1, KeepsUp
    <3> HIDE DEF b
    <3> QED
      BY <3>1, <3>2
  <2>5. Relayed(p)
    BY <1>0, <2>4 DEF Relayed, Open
  <2>6. down' = down
    BY <1>2 DEF Leave
  <2>7. Coming(p) \subseteq Coming(p)'
    BY <2>4, <2>6 DEF Coming
  <2>8. k \in DOMAIN states /\ states'[k] = states[k] /\ Known(p, k)
    BY <2>1, <2>5, MissedParts
  <2> QED
    BY <2>7, <2>8, StaysKnown
<1> QED
  BY <1>1, <1>2

LEMMA MissedStep ==
    ASSUME Typed, ClientHolds, NoPresenceMissed, [Next]_vars
    PROVE  (Typed /\ ClientHolds /\ NoPresenceMissed)'
<1>1. Typed' /\ Effect
  BY Step
<1>2. ClientHolds'
  BY <1>1, HoldsStep
<1>3. NoPresenceMissed'
  <2>1. CASE UNCHANGED vars
    BY <2>1 DEF vars, NoPresenceMissed, Open, Coming
  <2>2. ASSUME NEW c \in Clients,
               SetLocal(c) \/ ClearLocal(c) \/ Flush(c) \/ Connect(c) \/ Receive(c) \/ Lose(c)
        PROVE  NoPresenceMissed'
    BY <1>1, <2>2, ClientMisses
  <2>3. ASSUME NEW p \in Connections,
               Join(p) \/ Greet(p) \/ Incoming(p) \/ Outgoing(p) \/ Leave(p)
        PROVE  NoPresenceMissed'
    BY <1>1, <2>3, GreetedKnows, TakenIsKnown, RelayMisses
  <2> QED
    BY <2>1, <2>2, <2>3 DEF Next
<1> QED
  BY <1>1, <1>2, <1>3

\* NoPresenceMissed: whoever is relayed has or is about to have every state the
\* room shows, whatever the others do and however small the channels are.
THEOREM NoPresenceMissedTheorem == Spec => []NoPresenceMissed
<1>1. ASSUME Init PROVE ClientHolds /\ NoPresenceMissed
  <2>1. \A p \in Connections : up[p] = <<>> /\ peer[p].at = "new"
    BY <1>1 DEF Init, Peer
  <2>2. Range(<<>>) = {}
    BY DEF Range
  <2> QED
    BY <2>1, <2>2 DEF ClientHolds, NoPresenceMissed
<1>2. Typed /\ ClientHolds /\ NoPresenceMissed /\ [Next]_vars =>
         (Typed /\ ClientHolds /\ NoPresenceMissed)'
  BY MissedStep
<1> QED
  BY InitTyped, <1>1, <1>2, PTL DEF Spec
=============================================================================
