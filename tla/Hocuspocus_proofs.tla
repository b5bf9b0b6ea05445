-------------------------- MODULE Hocuspocus_proofs --------------------------
(***************************************************************************)
(* Of the Hocuspocus transport, for any number of documents, seats, edits  *)
(* and troubles and channels of any size: a room counts a connection       *)
(* exactly while it is in it, and an open document misses nothing; nor     *)
(* does it forget anything, until somebody deletes it.                     *)
(***************************************************************************)
EXTENDS Hocuspocus, Functions, TLAPS, FiniteSetTheorems, SequenceTheorems

(***************************************************************************)
(* Channels as the sets of what is in them.                                *)
(***************************************************************************)
\* What is appended is in it, and nothing else is new.
LEMMA RangeAppend ==
    ASSUME NEW S, NEW s \in Seq(S), NEW e \in S
    PROVE  /\ Append(s, e) \in Seq(S)
           /\ Range(Append(s, e)) = Range(s) \cup {e}
<1>1. /\ Append(s, e) \in Seq(S)
      /\ Len(Append(s, e)) = Len(s) + 1
      /\ \A i \in 1..Len(s) : Append(s, e)[i] = s[i]
      /\ Append(s, e)[Len(s) + 1] = e
  BY AppendProperties
<1>2. DOMAIN s = 1..Len(s) /\ DOMAIN Append(s, e) = 1..(Len(s) + 1) /\ Len(s) \in Nat
  BY <1>1, LenProperties
<1> QED
  BY <1>1, <1>2 DEF Range

\* What is left, and the first one, were in it.
LEMMA RangeTail ==
    ASSUME NEW S, NEW s \in Seq(S), s # <<>>
    PROVE  /\ Head(s) \in S
           /\ Tail(s) \in Seq(S)
           /\ Len(Tail(s)) = Len(s) - 1
           /\ Range(s) = {Head(s)} \cup Range(Tail(s))
<1>1. /\ Head(s) \in S
      /\ Tail(s) \in Seq(S)
      /\ Len(Tail(s)) = Len(s) - 1
      /\ \A i \in 1..Len(Tail(s)) : Tail(s)[i] = s[i + 1]
  BY HeadTailProperties
<1>2. DOMAIN s = 1..Len(s) /\ DOMAIN Tail(s) = 1..(Len(s) - 1) /\ Len(s) \in Nat \ {0}
  BY <1>1, LenProperties, EmptySeq
<1>3. Head(s) = s[1]
  OBVIOUS
<1>5. ASSUME NEW i \in 1..Len(s)
      PROVE  s[i] \in {Head(s)} \cup Range(Tail(s))
  <2>1. CASE i = 1
    BY <2>1, <1>3
  <2>2. CASE i # 1
    <3>1. i - 1 \in 1..(Len(s) - 1) /\ (i - 1) + 1 = i
      BY <2>2, <1>2
    <3>2. Tail(s)[i - 1] = s[i]
      BY <3>1, <1>1
    <3> QED
      BY <3>1, <3>2, <1>2 DEF Range
  <2> QED
    BY <2>1, <2>2
<1>6. {Head(s)} \cup Range(Tail(s)) \subseteq Range(s)
  <2>1. 1 \in 1..Len(s) /\ \A i \in 1..(Len(s) - 1) : i + 1 \in 1..Len(s)
    BY <1>2
  <2> QED
    BY <1>1, <1>2, <1>3, <2>1 DEF Range
<1> QED
  BY <1>1, <1>2, <1>5, <1>6 DEF Range

(***************************************************************************)
(* Sequences as the sets of their elements.                                *)
(***************************************************************************)

\* Two more elements.
LEMMA RangePair ==
    ASSUME NEW S, NEW s \in Seq(S), NEW a \in S, NEW b \in S
    PROVE  /\ s \o <<a, b>> \in Seq(S)
           /\ Range(s \o <<a, b>>) = Range(s) \cup {a, b}
           /\ Len(s \o <<a, b>>) = Len(s) + 2
           /\ \A i \in 1..Len(s) : (s \o <<a, b>>)[i] = s[i]
           /\ (s \o <<a, b>>)[Len(s) + 1] = a
           /\ (s \o <<a, b>>)[Len(s) + 2] = b
<1> DEFINE t == s \o <<a, b>>
<1>1. <<a, b>> \in Seq(S) /\ Len(<<a, b>>) = 2
  OBVIOUS
<1>2. /\ t \in Seq(S)
      /\ Len(t) = Len(s) + 2
      /\ \A i \in 1..(Len(s) + 2) : t[i] = IF i <= Len(s) THEN s[i] ELSE <<a, b>>[i - Len(s)]
  BY <1>1, ConcatProperties
<1>3. DOMAIN s = 1..Len(s) /\ DOMAIN t = 1..(Len(s) + 2) /\ Len(s) \in Nat
  BY <1>2, LenProperties
<1>4. /\ \A i \in 1..Len(s) : t[i] = s[i]
      /\ t[Len(s) + 1] = a
      /\ t[Len(s) + 2] = b
  BY <1>2, <1>3
<1>5. \A i \in 1..(Len(s) + 2) : i \in 1..Len(s) \/ i = Len(s) + 1 \/ i = Len(s) + 2
  BY <1>3
<1>6. Range(t) = Range(s) \cup {a, b}
  <2>1. Range(t) \subseteq Range(s) \cup {a, b}
    BY <1>3, <1>4, <1>5 DEF Range
  <2>2. /\ 1..Len(s) \subseteq 1..(Len(s) + 2)
        /\ Len(s) + 1 \in 1..(Len(s) + 2)
        /\ Len(s) + 2 \in 1..(Len(s) + 2)
    BY <1>3
  <2>3. Range(s) \cup {a, b} \subseteq Range(t)
    BY <1>3, <1>4, <2>2 DEF Range
  <2> QED
    BY <2>1, <2>3
<1> QED
  BY <1>2, <1>4, <1>6

(***************************************************************************)
(* Types.                                                                  *)
(***************************************************************************)

\* What the client and the connection write to the socket are frames.
LEMMA FrameTypes ==
    ASSUME NEW d \in Documents, NEW X \in SUBSET Updates
    PROVE  /\ Token(d) \in Frame
           /\ Step1(d, X) \in Frame
           /\ Update(d, X) \in Frame
           /\ Close(d) \in Frame
           /\ Denied(d) \in Frame
           /\ Lagged(d) \in Frame
  BY DEF Token, Step1, Update, Close, Denied, Lagged, Frame

\* The sessions' part of TypeOK.
SessionsTyped(s) ==
    /\ s \in [Documents -> SessionState]
    /\ \A d \in Documents : Len(s[d].queue) <= FanoutCapacity

\* The rooms' part.
RoomsTyped(r) ==
    /\ r \in [Documents -> Seq(RoomState)]
    /\ \A d \in Documents : r[d] # <<>>

LEMMA SessionFields ==
    ASSUME NEW s, SessionsTyped(s), NEW d \in Documents
    PROVE  /\ s[d] \in SessionState
           /\ s[d].at \in {"closed", "paused", "open"}
           /\ s[d].room \in Nat
           /\ s[d].queue \in Seq(Fanout)
           /\ s[d].lagged \in BOOLEAN
           /\ s[d].forward \in {"recv", "retry", "done"}
           /\ s[d].refused \in SUBSET Updates
           /\ Len(s[d].queue) <= FanoutCapacity
  BY DEF SessionsTyped, SessionState

LEMMA RoomFields ==
    ASSUME NEW r, RoomsTyped(r), NEW d \in Documents
    PROVE  /\ r[d] \in Seq(RoomState)
           /\ Len(r[d]) \in Nat \ {0}
           /\ DOMAIN r[d] = 1..Len(r[d])
           /\ Len(r[d]) \in DOMAIN r[d]
           /\ \A i \in DOMAIN r[d] : /\ r[d][i] \in RoomState
                                     /\ r[d][i].doc \in SUBSET Updates
                                     /\ r[d][i].peers \in Nat
<1>1. r[d] \in Seq(RoomState) /\ r[d] # <<>>
  BY DEF RoomsTyped
<1>2. Len(r[d]) \in Nat \ {0} /\ DOMAIN r[d] = 1..Len(r[d])
  BY <1>1, LenProperties, EmptySeq
<1>3. \A i \in DOMAIN r[d] : r[d][i] \in RoomState
  BY <1>1, <1>2, ElementOfSeq
<1> QED
  BY <1>1, <1>2, <1>3 DEF RoomState

\* One more message in a receiver: it is there, or the receiver has lagged.
LEMMA EnqueueProperties ==
    ASSUME NEW s \in SessionState, Len(s.queue) <= FanoutCapacity, NEW m \in Fanout
    PROVE  /\ Enqueue(s, m) \in SessionState
           /\ Len(Enqueue(s, m).queue) <= FanoutCapacity
           /\ Enqueue(s, m).at = s.at
           /\ Enqueue(s, m).room = s.room
           /\ Enqueue(s, m).forward = s.forward
           /\ Enqueue(s, m).refused = s.refused
           /\ Range(Enqueue(s, m).queue) \subseteq Range(s.queue) \cup {m}
           /\ s.lagged => Enqueue(s, m).lagged
           /\ \/ Enqueue(s, m).lagged
              \/ Range(Enqueue(s, m).queue) = Range(s.queue) \cup {m}
<1> DEFINE q == s.queue
<1>0. q \in Seq(Fanout) /\ Len(q) \in Nat
  BY LenProperties DEF SessionState
<1>1. CASE Len(q) < FanoutCapacity
  <2>1. Enqueue(s, m) = [s EXCEPT !.queue = Append(q, m)]
    BY <1>1 DEF Enqueue
  <2>2. Append(q, m) \in Seq(Fanout) /\ Len(Append(q, m)) = Len(q) + 1
    BY <1>0, AppendProperties
  <2>3. Range(Append(q, m)) = Range(q) \cup {m}
    BY <1>0, RangeAppend
  <2>4. Len(Append(q, m)) <= FanoutCapacity
    BY <2>2, <1>0, <1>1, HocuspocusAssumption
  <2> HIDE DEF q
  <2> QED
    BY <2>1, <2>2, <2>3, <2>4 DEF SessionState, q
<1>2. CASE ~(Len(q) < FanoutCapacity)
  <2>1. Enqueue(s, m) = [s EXCEPT !.queue = Append(Tail(q), m), !.lagged = TRUE]
    BY <1>2 DEF Enqueue
  <2>2. q # <<>> /\ Len(q) = FanoutCapacity
    BY <1>0, <1>2, HocuspocusAssumption
  <2>3. Tail(q) \in Seq(Fanout) /\ Len(Tail(q)) = Len(q) - 1 /\ Range(Tail(q)) \subseteq Range(q)
    BY <1>0, <2>2, RangeTail
  <2>4. Append(Tail(q), m) \in Seq(Fanout) /\ Len(Append(Tail(q), m)) = Len(Tail(q)) + 1
    BY <2>3, AppendProperties
  <2>5. Range(Append(Tail(q), m)) \subseteq Range(q) \cup {m}
    <3> DEFINE t == Tail(q)
    <3>0. t \in Seq(Fanout)
      BY <2>3
    <3> HIDE DEF t
    <3>1. Range(Append(t, m)) = Range(t) \cup {m}
      BY <3>0, RangeAppend
    <3>2. t = Tail(q)
      BY DEF t
    <3> QED
      BY <3>1, <3>2, <2>3
  <2>6. Len(Append(Tail(q), m)) <= FanoutCapacity
    BY <2>2, <2>3, <2>4, <1>0, HocuspocusAssumption
  <2> HIDE DEF q
  <2> QED
    BY <2>1, <2>4, <2>5, <2>6 DEF SessionState, q
<1> QED
  BY <1>1, <1>2

\* A broadcast leaves every session where it is.
LEMMA BroadcastProperties ==
    ASSUME SessionsTyped(session), NEW d \in Documents, NEW r, NEW m \in Fanout
    PROVE  /\ SessionsTyped(Broadcast(d, r, m))
           /\ \A e \in Documents :
                /\ Broadcast(d, r, m)[e].at = session[e].at
                /\ Broadcast(d, r, m)[e].room = session[e].room
                /\ Broadcast(d, r, m)[e].forward = session[e].forward
                /\ Broadcast(d, r, m)[e].refused = session[e].refused
                /\ e # d => Broadcast(d, r, m)[e] = session[e]
                /\ session[e].lagged => Broadcast(d, r, m)[e].lagged
                /\ Range(Broadcast(d, r, m)[e].queue) \subseteq Range(session[e].queue) \cup {m}
                /\ Broadcast(d, r, m)[e].lagged \/
                      Range(session[e].queue) \subseteq Range(Broadcast(d, r, m)[e].queue)
           /\ (Open(d) /\ session[d].room = r /\ session[d].forward # "done") =>
                Broadcast(d, r, m)[d].lagged \/ m \in Range(Broadcast(d, r, m)[d].queue)
<1>1. CASE Open(d) /\ session[d].room = r /\ session[d].forward # "done"
  <2>1. Broadcast(d, r, m) = [session EXCEPT ![d] = Enqueue(session[d], m)]
    BY <1>1 DEF Broadcast
  <2>2. session[d] \in SessionState /\ Len(session[d].queue) <= FanoutCapacity
    BY SessionFields
  <2> DEFINE s == Enqueue(session[d], m)
  <2>3. /\ s \in SessionState
        /\ Len(s.queue) <= FanoutCapacity
        /\ s.at = session[d].at
        /\ s.room = session[d].room
        /\ s.forward = session[d].forward
        /\ s.refused = session[d].refused
        /\ Range(s.queue) \subseteq Range(session[d].queue) \cup {m}
        /\ session[d].lagged => s.lagged
        /\ s.lagged \/ Range(s.queue) = Range(session[d].queue) \cup {m}
    BY <2>2, EnqueueProperties
  <2>4. /\ Broadcast(d, r, m)[d] = s
        /\ \A e \in Documents \ {d} : Broadcast(d, r, m)[e] = session[e]
        /\ Broadcast(d, r, m) \in [Documents -> SessionState]
    BY <2>1, <2>3 DEF SessionsTyped
  <2> HIDE DEF s
  <2>5. SessionsTyped(Broadcast(d, r, m))
    BY <2>3, <2>4 DEF SessionsTyped
  <2> QED
    BY <2>3, <2>4, <2>5
<1>2. CASE ~(Open(d) /\ session[d].room = r /\ session[d].forward # "done")
  <2>1. Broadcast(d, r, m) = session
    BY <1>2 DEF Broadcast
  <2> QED
    BY <2>1, <1>2
<1> QED
  BY <1>1, <1>2

\* TypeOK in two halves: what is on the client's side and on the wire, and
\* where the sessions are.
Wires ==
    /\ connected \in BOOLEAN
    /\ wanted \subseteq Documents
    /\ replica \in [Documents -> SUBSET Updates]
    /\ up \in Seq(Frame)
    /\ down \in Seq(Frame)
    /\ outbox \in Seq(Frame)
    /\ Len(outbox) <= OutboxCapacity
    /\ events \in 0..MaxEvents

Places ==
    /\ SessionsTyped(session)
    /\ RoomsTyped(rooms)
    /\ \A d \in Documents : Open(d) => session[d].room \in DOMAIN rooms[d]
    /\ Seats <= MaxDocuments

LEMMA Halves == TypeOK <=> Wires /\ Places
  BY DEF TypeOK, Wires, Places, SessionsTyped, RoomsTyped

\* A trouble is counted.
LEMMA HappensCounts ==
    ASSUME events \in 0..MaxEvents, NEW kind, Happens(kind)
    PROVE  events' \in 0..MaxEvents
  BY HocuspocusAssumption DEF Happens

\* The room of an open document has a document.
LEMMA InRoomType ==
    ASSUME Places, NEW d \in Documents, Open(d)
    PROVE  /\ session[d].room \in DOMAIN rooms[d]
           /\ InRoom(d) \in RoomState
           /\ InRoom(d).doc \in SUBSET Updates
  BY RoomFields DEF Places, InRoom

LEMMA FrameFields ==
    ASSUME NEW f \in Frame
    PROVE  f.doc \in Documents /\ f.content \in SUBSET Updates
  BY DEF Frame

\* All hellos of a reconnection.
LEMMA HellosTypes ==
    ASSUME Wires, NEW n \in Nat, NEW order \in [1..n -> wanted], Len(order) = n
    PROVE  /\ Hellos(order) \in Seq(Frame)
           /\ Len(Hellos(order)) = 2 * n
           /\ \A i \in 1..2 * n :
                 /\ i % 2 = 1 => /\ Hellos(order)[i] = Token(order[(i + 1) \div 2])
                                 /\ i + 1 \in 1..2 * n
                                 /\ (i + 1) % 2 # 1
                                 /\ ((i + 1) + 1) \div 2 = (i + 1) \div 2
                 /\ i % 2 # 1 => Hellos(order)[i] =
                       Step1(order[(i + 1) \div 2], replica[order[(i + 1) \div 2]])
                 /\ order[(i + 1) \div 2] \in Documents
<1> DEFINE h == Hellos(order)
           D(i) == order[(i + 1) \div 2]
<1>1. h = [i \in 1..2 * n |-> Hello(D(i))[2 - (i % 2)]]
  BY DEF Hellos
<1>2. ASSUME NEW i \in 1..2 * n
      PROVE  /\ (i + 1) \div 2 \in 1..n
             /\ i % 2 \in {0, 1}
             /\ i % 2 = 1 => /\ i + 1 \in 1..2 * n
                             /\ (i + 1) % 2 # 1
                             /\ ((i + 1) + 1) \div 2 = (i + 1) \div 2
  OBVIOUS
<1>3. ASSUME NEW i \in 1..2 * n
      PROVE  /\ D(i) \in Documents
             /\ i % 2 = 1 => h[i] = Token(D(i))
             /\ i % 2 # 1 => h[i] = Step1(D(i), replica[D(i)])
             /\ h[i] \in Frame
  <2>1. D(i) \in Documents
    BY <1>2 DEF Wires
  <2>2. replica[D(i)] \in SUBSET Updates
    BY <2>1 DEF Wires
  <2>3. h[i] = Hello(D(i))[2 - (i % 2)]
    BY <1>1
  <2>4. Hello(D(i))[1] = Token(D(i)) /\ Hello(D(i))[2] = Step1(D(i), replica[D(i)])
    BY DEF Hello
  <2>5. /\ i % 2 = 1 => h[i] = Token(D(i))
        /\ i % 2 # 1 => h[i] = Step1(D(i), replica[D(i)])
    <3>1. CASE i % 2 = 1
      BY <3>1, <2>3, <2>4
    <3>2. CASE i % 2 # 1
      <4>1. 2 - (i % 2) = 2
        BY <3>2, <1>2
      <4> QED
        BY <3>2, <4>1, <2>3, <2>4
    <3> QED
      BY <3>1, <3>2
  <2>6. Token(D(i)) \in Frame /\ Step1(D(i), replica[D(i)]) \in Frame
    BY <2>1, <2>2, FrameTypes
  <2> QED
    BY <2>1, <2>5, <2>6
<1>4. h \in [1..2 * n -> Frame]
  BY <1>1, <1>3
<1>5. 2 * n \in Nat
  OBVIOUS
<1>6. h \in Seq(Frame) /\ Len(h) = 2 * n
  BY <1>4, <1>5
<1> QED
  BY <1>2, <1>3, <1>6

\* A frame the connection reads: what is left of up.
LEMMA ReadsProperties ==
    ASSUME Wires, NEW d \in Documents, NEW kind, Reads(d, kind)
    PROVE  /\ up' \in Seq(Frame)
           /\ Head(up) \in Frame
           /\ Head(up).doc = d
           /\ Head(up).kind = kind
           /\ Head(up).content \in SUBSET Updates
           /\ Range(up) = {Head(up)} \cup Range(up')
  BY RangeTail, FrameFields DEF Wires, Reads

\* No step puts anything but frames on the wire.
LEMMA WiresStep ==
    ASSUME Wires, Places, [Next]_vars
    PROVE  Wires'
<1> USE DEF Wires
<1>1. ASSUME NEW d \in Documents, Attach(d)
      PROVE  Wires'
  <2>1. Token(d) \in Frame /\ Step1(d, replica[d]) \in Frame
    BY FrameTypes
  <2>2. up \o Hello(d) \in Seq(Frame)
    BY <2>1, RangePair DEF Hello
  <2> QED
    BY <1>1, <2>2 DEF Attach
<1>2. ASSUME NEW d \in Documents, Detach(d)
      PROVE  Wires'
  <2>1. Append(up, Close(d)) \in Seq(Frame)
    BY FrameTypes, RangeAppend
  <2> QED
    BY <1>2, <2>1, HappensCounts DEF Detach
<1>3. ASSUME NEW d \in Documents, NEW u \in Updates, Edit(d, u)
      PROVE  Wires'
  <2>1. Append(up, Update(d, {u})) \in Seq(Frame)
    BY FrameTypes, RangeAppend
  <2>2. replica[d] \cup {u} \in SUBSET Updates
    OBVIOUS
  <2> QED
    BY <1>3, <2>1, <2>2 DEF Edit
<1>4. ASSUME Connect
      PROVE  Wires'
  <2>1. IsFiniteSet(wanted)
    BY HocuspocusAssumption, FS_Subset
  <2>2. Cardinality(wanted) \in Nat
    BY <2>1, FS_CardinalityType
  <2>3. PICK order \in [1..Cardinality(wanted) -> wanted] : up' = Hellos(order)
    BY <1>4 DEF Connect
  <2>4. Len(order) = Cardinality(wanted)
    BY <2>2
  <2>5. up' \in Seq(Frame)
    BY <2>2, <2>3, <2>4, HellosTypes
  <2> QED
    BY <1>4, <2>5 DEF Connect
<1>5. ASSUME Receive
      PROVE  Wires'
  <2> DEFINE frame == Head(down)
             d == frame.doc
  <2>1. frame \in Frame /\ Tail(down) \in Seq(Frame)
    BY <1>5, RangeTail DEF Receive
  <2>2. d \in Documents /\ frame.content \in SUBSET Updates
    BY <2>1, FrameFields
  <2>3. Append(up, Update(d, replica[d] \ frame.content)) \in Seq(Frame)
    BY <2>2, FrameTypes, RangeAppend
  <2>4. replica[d] \cup frame.content \in SUBSET Updates
    BY <2>2
  <2> HIDE DEF d, frame
  <2>5. replica' \in [Documents -> SUBSET Updates] /\ up' \in Seq(Frame)
    BY <1>5, <2>2, <2>3, <2>4 DEF Receive, d, frame
  <2> QED
    BY <1>5, <2>1, <2>5 DEF Receive
<1>6. ASSUME NEW d \in Documents, Noise(d) \/ Delete(d)
      PROVE  Wires'
  BY <1>6, HappensCounts DEF Noise, Delete
<1>7. ASSUME NEW d \in Documents, NEW u \in Updates, Others(d, u)
      PROVE  Wires'
  BY <1>7 DEF Others
<1>8. ASSUME NEW d \in Documents, Authenticate(d)
      PROVE  Wires'
  <2>1. up' \in Seq(Frame)
    BY <1>8, ReadsProperties DEF Authenticate
  <2>2. Append(down, Denied(d)) \in Seq(Frame)
    BY FrameTypes, RangeAppend
  <2> QED
    BY <1>8, <2>1, <2>2 DEF Authenticate
<1>9. ASSUME NEW d \in Documents, Deny(d)
      PROVE  Wires'
  <2>1. up' \in Seq(Frame)
    BY <1>9, ReadsProperties DEF Deny
  <2>2. Append(down, Denied(d)) \in Seq(Frame)
    BY FrameTypes, RangeAppend
  <2> QED
    BY <1>9, <2>1, <2>2, HappensCounts DEF Deny
<1>10. ASSUME NEW d \in Documents, Pause(d)
       PROVE  Wires'
  <2>1. up' \in Seq(Frame)
    BY <1>10, ReadsProperties DEF Pause
  <2> QED
    BY <1>10, <2>1, HappensCounts DEF Pause
<1>11. ASSUME NEW d \in Documents, AnswerStep1(d)
       PROVE  Wires'
  <2>1. up' \in Seq(Frame)
    BY <1>11, ReadsProperties DEF AnswerStep1
  <2>2. ASSUME Open(d)
        PROVE  down' \in Seq(Frame)
    <3> DEFINE doc == InRoom(d).doc
               missing == doc \ Head(up).content
    <3>1. doc \in SUBSET Updates /\ missing \in SUBSET Updates
      BY <2>2, InRoomType
    <3> HIDE DEF doc, missing
    <3>2. Update(d, missing) \in Frame /\ Step1(d, doc) \in Frame
      BY <3>1, FrameTypes
    <3>3. down \o <<Update(d, missing), Step1(d, doc)>> \in Seq(Frame)
      BY <3>2, RangePair
    <3> QED
      BY <1>11, <2>2, <3>3 DEF AnswerStep1, doc, missing
  <2> QED
    BY <1>11, <2>1, <2>2 DEF AnswerStep1
<1>12. ASSUME NEW d \in Documents, ApplyUpdate(d) \/ CloseDocument(d)
       PROVE  Wires'
  <2>1. up' \in Seq(Frame)
    BY <1>12, ReadsProperties DEF ApplyUpdate, CloseDocument
  <2> QED
    BY <1>12, <2>1 DEF ApplyUpdate, CloseDocument
<1>13. ASSUME NEW d \in Documents, Recheck(d)
       PROVE  Wires'
  <2> DEFINE doc == rooms[d][Registered(d)].doc
  <2>1. doc \in SUBSET Updates
    BY RoomFields DEF Places, Registered
  <2> HIDE DEF doc
  <2>2. Update(d, doc) \in Frame /\ Step1(d, doc) \in Frame
    BY <2>1, FrameTypes
  <2>3. down \o <<Step1(d, doc), Update(d, doc)>> \in Seq(Frame)
    BY <2>2, RangePair
  <2> QED
    BY <1>13, <2>3 DEF Recheck, doc
<1>14. ASSUME End, UNCHANGED <<wanted, replica>>, events' \in 0..MaxEvents
       PROVE  Wires'
  <2>1. <<>> \in Seq(Frame) /\ Len(<<>>) = 0 /\ 0 <= OutboxCapacity
    BY HocuspocusAssumption
  <2> QED
    BY <1>14, <2>1 DEF End
<1>15. ASSUME Ping \/ Drop
       PROVE  Wires'
  BY <1>14, <1>15, HappensCounts DEF Ping, Drop
<1>16. ASSUME Outgoing
       PROVE  Wires'
  <2>1. CASE Head(outbox).kind = "lagged"
    BY <1>14, <1>16, <2>1 DEF Outgoing
  <2>2. CASE Head(outbox).kind # "lagged"
    <3>1. /\ Head(outbox) \in Frame
          /\ Tail(outbox) \in Seq(Frame)
          /\ Len(Tail(outbox)) <= OutboxCapacity
      <4>1. /\ Head(outbox) \in Frame
            /\ Tail(outbox) \in Seq(Frame)
            /\ Len(Tail(outbox)) = Len(outbox) - 1
        BY <1>16, RangeTail DEF Outgoing
      <4>2. Len(outbox) \in Nat
        BY LenProperties
      <4> QED
        BY <4>1, <4>2, HocuspocusAssumption
    <3>2. Append(down, Head(outbox)) \in Seq(Frame)
      BY <3>1, RangeAppend
    <3> QED
      BY <1>16, <2>2, <3>1, <3>2 DEF Outgoing
  <2> QED
    BY <2>1, <2>2
<1>17. ASSUME NEW d \in Documents, Forwarder(d)
       PROVE  Wires'
  <2>1. ASSUME NEW f \in Frame, Len(outbox) < OutboxCapacity
        PROVE  /\ Append(outbox, f) \in Seq(Frame)
               /\ Len(Append(outbox, f)) <= OutboxCapacity
    BY <2>1, AppendProperties, LenProperties, HocuspocusAssumption
  <2>2. Lagged(d) \in Frame /\ Denied(d) \in Frame
    BY FrameTypes
  <2>3. CASE ForwardLag(d)
    BY <2>1, <2>2, <2>3 DEF ForwardLag
  <2>4. CASE Retry(d)
    BY <2>1, <2>2, <2>4 DEF Retry
  <2>5. CASE Forward(d)
    <3> DEFINE message == Head(session[d].queue)
    <3>1. message \in Fanout
      BY <2>5, SessionFields, RangeTail DEF Places, Forward
    <3>2. Update(d, message.content) \in Frame
      BY <3>1, FrameTypes DEF Fanout
    <3> DEFINE out == IF message.kind = "closed" THEN Denied(d) ELSE Update(d, message.content)
    <3>3. out \in Frame
      BY <2>2, <3>2
    <3> HIDE DEF message
    <3>4. outbox' = outbox \/ (Len(outbox) < OutboxCapacity /\ outbox' = Append(outbox, out))
      <4>1. Len(outbox) \in Nat /\ OutboxCapacity \in Nat
        BY LenProperties, HocuspocusAssumption
      <4> QED
        BY <2>5, <4>1 DEF Forward, message
    <3> HIDE DEF out
    <3> QED
      BY <2>1, <2>5, <3>3, <3>4 DEF Forward
  <2> QED
    BY <1>17, <2>3, <2>4, <2>5 DEF Forwarder
<1>18. CASE UNCHANGED vars
  BY <1>18 DEF vars
<1> QED
  BY <1>1, <1>2, <1>3, <1>4, <1>5, <1>6, <1>7, <1>8, <1>9, <1>10, <1>11, <1>12, <1>13,
     <1>15, <1>16, <1>17, <1>18
  DEF Next, Client, Elsewhere, Task

-----------------------------------------------------------------------------
(***************************************************************************)
(* A room counts its sessions.                                             *)
(***************************************************************************)

\* A room's document grows.
Grown(d, r, X) == [rooms EXCEPT ![d][r].doc = @ \cup X]

LEMMA GrownRooms ==
    ASSUME RoomsTyped(rooms), NEW d \in Documents, NEW r \in DOMAIN rooms[d],
           NEW X \in SUBSET Updates
    PROVE  /\ RoomsTyped(Grown(d, r, X))
           /\ \A e \in Documents :
                /\ DOMAIN Grown(d, r, X)[e] = DOMAIN rooms[e]
                /\ \A i \in DOMAIN rooms[e] : Grown(d, r, X)[e][i].peers = rooms[e][i].peers
<1>1. /\ rooms[d] \in Seq(RoomState) /\ rooms[d] # <<>> /\ DOMAIN rooms[d] = 1..Len(rooms[d])
      /\ Len(rooms[d]) \in Nat \ {0}
      /\ rooms[d][r] \in RoomState
  BY RoomFields DEF RoomsTyped
<1> DEFINE room == [rooms[d][r] EXCEPT !.doc = @ \cup X]
           all == [rooms[d] EXCEPT ![r] = room]
<1>2. room \in RoomState /\ room.peers = rooms[d][r].peers
  BY <1>1 DEF RoomState
<1> HIDE DEF room
<1>3. /\ all \in Seq(RoomState)
      /\ Len(all) = Len(rooms[d])
      /\ \A i \in 1..Len(rooms[d]) : all[i] = IF i = r THEN room ELSE rooms[d][i]
  BY <1>1, <1>2, ExceptSeq
<1>4. all # <<>> /\ DOMAIN all = DOMAIN rooms[d]
  BY <1>1, <1>3
<1>5. Grown(d, r, X) = [rooms EXCEPT ![d] = all]
  BY DEF room, Grown
<1> HIDE DEF all
<1>6. /\ Grown(d, r, X) \in [Documents -> Seq(RoomState)]
      /\ Grown(d, r, X)[d] = all
      /\ \A e \in Documents \ {d} : Grown(d, r, X)[e] = rooms[e]
  BY <1>3, <1>5 DEF RoomsTyped
<1>7. RoomsTyped(Grown(d, r, X))
  BY <1>4, <1>6 DEF RoomsTyped
<1>8. ASSUME NEW e \in Documents
      PROVE  /\ DOMAIN Grown(d, r, X)[e] = DOMAIN rooms[e]
             /\ \A i \in DOMAIN rooms[e] : Grown(d, r, X)[e][i].peers = rooms[e][i].peers
  <2>1. CASE e = d
    BY <2>1, <1>1, <1>2, <1>3, <1>4, <1>6
  <2>2. CASE e # d
    BY <2>2, <1>6
  <2> QED
    BY <2>1, <2>2
<1> QED
  BY <1>7, <1>8

\* Its document gets the updates, and no other one changes.
LEMMA GrownDocs ==
    ASSUME RoomsTyped(rooms), NEW e \in Documents, NEW r \in DOMAIN rooms[e],
           NEW X \in SUBSET Updates, rooms' = Grown(e, r, X),
           NEW d \in Documents, NEW q \in DOMAIN rooms[d]
    PROVE  /\ rooms[d][q].doc \subseteq rooms'[d][q].doc
           /\ rooms'[d][q].doc \subseteq rooms[d][q].doc \cup X
           /\ d = e /\ q = r => X \subseteq rooms'[d][q].doc
           /\ ~(d = e /\ q = r) => rooms'[d][q].doc = rooms[d][q].doc
<1>1. /\ rooms \in [Documents -> Seq(RoomState)]
      /\ rooms[d] \in Seq(RoomState) /\ rooms[d][q] \in RoomState /\ rooms[e][r] \in RoomState
  BY RoomFields DEF RoomsTyped
<1>2. CASE d = e /\ q = r
  <2> DEFINE room == [rooms[e][r] EXCEPT !.doc = @ \cup X]
  <2>1. rooms' = [rooms EXCEPT ![e] = [rooms[e] EXCEPT ![r] = room]]
    BY DEF Grown
  <2>2. room.doc = rooms[e][r].doc \cup X
    BY <1>1 DEF RoomState
  <2> HIDE DEF room
  <2>3. rooms'[e][r] = room
    BY <1>1, <2>1
  <2> QED
    BY <1>2, <2>2, <2>3
<1>3. CASE ~(d = e /\ q = r)
  <2>1. rooms'[d][q] = rooms[d][q]
    BY <1>1, <1>3 DEF Grown
  <2> QED
    BY <1>3, <2>1
<1> QED
  BY <1>2, <1>3

\* A session joins the registered room of d.
LEMMA JoinedRoomsProperties ==
    ASSUME RoomsTyped(rooms), NEW d \in Documents
    PROVE  /\ RoomsTyped(JoinedRooms(d))
           /\ \A e \in Documents :
                /\ DOMAIN JoinedRooms(d)[e] = DOMAIN rooms[e]
                /\ \A i \in DOMAIN rooms[e] :
                      /\ JoinedRooms(d)[e][i].doc = rooms[e][i].doc
                      /\ JoinedRooms(d)[e][i].peers =
                            IF e = d /\ i = Registered(d) THEN rooms[e][i].peers + 1
                            ELSE rooms[e][i].peers
<1> DEFINE r == Registered(d)
<1>1. /\ rooms[d] \in Seq(RoomState) /\ rooms[d] # <<>> /\ DOMAIN rooms[d] = 1..Len(rooms[d])
      /\ Len(rooms[d]) \in Nat \ {0}
      /\ r \in 1..Len(rooms[d])
      /\ rooms[d][r] \in RoomState
  BY RoomFields DEF RoomsTyped, Registered
<1> HIDE DEF r
<1> DEFINE room == [rooms[d][r] EXCEPT !.peers = @ + 1]
           all == [rooms[d] EXCEPT ![r] = room]
           new == JoinedRooms(d)
<1>2. room \in RoomState /\ room.doc = rooms[d][r].doc /\ room.peers = rooms[d][r].peers + 1
  BY <1>1 DEF RoomState
<1> HIDE DEF room
<1>3. /\ all \in Seq(RoomState)
      /\ Len(all) = Len(rooms[d])
      /\ \A i \in 1..Len(rooms[d]) : all[i] = IF i = r THEN room ELSE rooms[d][i]
  BY <1>1, <1>2, ExceptSeq
<1>4. all # <<>> /\ DOMAIN all = DOMAIN rooms[d]
  BY <1>1, <1>3
<1>5. new = [rooms EXCEPT ![d] = all]
  BY DEF room, r, JoinedRooms
<1> HIDE DEF all, new
<1>6. /\ new \in [Documents -> Seq(RoomState)]
      /\ new[d] = all
      /\ \A e \in Documents \ {d} : new[e] = rooms[e]
  BY <1>3, <1>5 DEF RoomsTyped
<1>7. RoomsTyped(new)
  BY <1>4, <1>6 DEF RoomsTyped
<1>8. ASSUME NEW e \in Documents
      PROVE  /\ DOMAIN new[e] = DOMAIN rooms[e]
             /\ \A i \in DOMAIN rooms[e] :
                   /\ new[e][i].doc = rooms[e][i].doc
                   /\ new[e][i].peers = IF e = d /\ i = r THEN rooms[e][i].peers + 1
                                        ELSE rooms[e][i].peers
  <2>1. CASE e = d
    BY <2>1, <1>1, <1>2, <1>3, <1>4, <1>6
  <2>2. CASE e # d
    BY <2>2, <1>6
  <2> QED
    BY <2>1, <2>2
<1> QED
  BY <1>7, <1>8 DEF new, r

\* Sessions of some documents leave their rooms.
LEMMA LeftRoomsProperties ==
    ASSUME Places, PeersAreOpen, NEW closing \in SUBSET Documents
    PROVE  /\ RoomsTyped(LeftRooms(closing))
           /\ \A e \in Documents :
                /\ DOMAIN LeftRooms(closing)[e] = DOMAIN rooms[e]
                /\ \A i \in DOMAIN rooms[e] :
                      /\ LeftRooms(closing)[e][i].doc = rooms[e][i].doc
                      /\ LeftRooms(closing)[e][i].peers =
                            IF e \in closing THEN 0 ELSE rooms[e][i].peers
<1> DEFINE new == LeftRooms(closing)
<1>1. ASSUME NEW e \in Documents
      PROVE  /\ new[e] \in Seq(RoomState)
             /\ new[e] # <<>>
             /\ DOMAIN new[e] = DOMAIN rooms[e]
             /\ \A i \in DOMAIN rooms[e] :
                   /\ new[e][i].doc = rooms[e][i].doc
                   /\ new[e][i].peers = IF e \in closing THEN 0 ELSE rooms[e][i].peers
  <2>1. /\ rooms[e] \in Seq(RoomState) /\ rooms[e] # <<>> /\ DOMAIN rooms[e] = 1..Len(rooms[e])
        /\ Len(rooms[e]) \in Nat \ {0}
        /\ \A i \in DOMAIN rooms[e] : rooms[e][i] \in RoomState
    BY RoomFields DEF RoomsTyped, Places
  <2>2. \A i \in DOMAIN rooms[e] :
           rooms[e][i].peers = IF Open(e) /\ session[e].room = i THEN 1 ELSE 0
    BY DEF PeersAreOpen
  <2>3. CASE e \in closing /\ Open(e)
    <3> DEFINE r == session[e].room
               room == [rooms[e][r] EXCEPT !.peers = @ - 1]
               all == [rooms[e] EXCEPT ![r] = room]
    <3>1. r \in 1..Len(rooms[e])
      BY <2>1, <2>3 DEF Places
    <3>2. rooms[e][r].peers = 1
      BY <2>1, <2>2, <2>3, <3>1
    <3>3. room \in RoomState /\ room.doc = rooms[e][r].doc /\ room.peers = 0
      BY <2>1, <3>1, <3>2 DEF RoomState
    <3>4. new[e] = all
      BY <2>3 DEF LeftRooms
    <3> HIDE DEF r, room, new
    <3>5. /\ all \in Seq(RoomState)
          /\ Len(all) = Len(rooms[e])
          /\ \A i \in 1..Len(rooms[e]) : all[i] = IF i = r THEN room ELSE rooms[e][i]
      BY <2>1, <3>1, <3>3, ExceptSeq
    <3>6. all # <<>> /\ DOMAIN all = DOMAIN rooms[e]
      BY <2>1, <3>5
    <3> HIDE DEF all
    <3>7. \A i \in DOMAIN rooms[e] : i # r => rooms[e][i].peers = 0
      BY <2>2 DEF r
    <3> QED
      BY <2>1, <2>3, <3>1, <3>3, <3>4, <3>5, <3>6, <3>7
  <2>4. CASE ~(e \in closing /\ Open(e))
    <3>1. new[e] = rooms[e]
      BY <2>4 DEF LeftRooms
    <3> QED
      BY <2>1, <2>2, <2>4, <3>1
  <2> QED
    BY <2>3, <2>4
<1>2. new \in [Documents -> Seq(RoomState)]
  <2>1. new = [e \in Documents |-> new[e]]
    BY DEF LeftRooms
  <2> HIDE DEF new
  <2> QED
    BY <1>1, <2>1
<1> QED
  BY <1>1, <1>2 DEF RoomsTyped

\* As many seats are taken as before when the same documents are not closed.
LEMMA SameSeats ==
    ASSUME Places, \A e \in Documents : session'[e].at = session[e].at
    PROVE  Seats' <= MaxDocuments
<1>1. {e \in Documents : session'[e].at # "closed"} = {e \in Documents : session[e].at # "closed"}
  OBVIOUS
<1> QED
  BY <1>1 DEF Places, Seats

\* One more is taken when one was free; none when documents are closed.
LEMMA OneMoreSeat ==
    ASSUME Seats < MaxDocuments, NEW d \in Documents,
           \A e \in Documents \ {d} : session'[e].at = session[e].at
    PROVE  Seats' <= MaxDocuments
<1> DEFINE now == {e \in Documents : session[e].at # "closed"}
           next == {e \in Documents : session'[e].at # "closed"}
<1>1. IsFiniteSet(now) /\ IsFiniteSet(next)
  BY HocuspocusAssumption, FS_Subset
<1>2. next \subseteq now \cup {d}
  OBVIOUS
<1>3. IsFiniteSet(now \cup {d}) /\ Cardinality(now \cup {d}) <= Cardinality(now) + 1
  BY <1>1, FS_AddElement, FS_CardinalityType
<1>4. Cardinality(next) <= Cardinality(now \cup {d})
  BY <1>2, <1>3, FS_Subset
<1>5. Cardinality(now) = Seats /\ Cardinality(next) = Seats'
  BY DEF Seats
<1>6. /\ Cardinality(now) \in Nat /\ Cardinality(next) \in Nat
      /\ Cardinality(now \cup {d}) \in Nat
  BY <1>1, <1>3, FS_CardinalityType
<1> QED
  BY <1>3, <1>4, <1>5, <1>6, HocuspocusAssumption

LEMMA FewerSeats ==
    ASSUME Places, \A e \in Documents : session'[e].at \in {session[e].at, "closed"}
    PROVE  Seats' <= MaxDocuments
<1> DEFINE now == {e \in Documents : session[e].at # "closed"}
           next == {e \in Documents : session'[e].at # "closed"}
<1>1. IsFiniteSet(now) /\ next \subseteq now
  BY HocuspocusAssumption, FS_Subset
<1>2. /\ Cardinality(next) <= Cardinality(now)
      /\ Cardinality(now) \in Nat /\ Cardinality(next) \in Nat
  BY <1>1, FS_Subset, FS_CardinalityType
<1>3. Cardinality(now) <= MaxDocuments
  BY DEF Places, Seats
<1> QED
  BY <1>2, <1>3, HocuspocusAssumption DEF Seats

\* Sessions that stay where they are, in rooms that count as before.
LEMMA StayingPut ==
    ASSUME Places, PeersAreOpen,
           SessionsTyped(session'), RoomsTyped(rooms'),
           \A e \in Documents :
              /\ session'[e].at = session[e].at
              /\ session'[e].room = session[e].room
              /\ DOMAIN rooms'[e] = DOMAIN rooms[e]
              /\ \A i \in DOMAIN rooms[e] : rooms'[e][i].peers = rooms[e][i].peers
    PROVE  Places' /\ PeersAreOpen'
<1>1. Seats' <= MaxDocuments
  BY SameSeats
<1>2. \A e \in Documents : Open(e)' = Open(e)
  BY DEF Open
<1> QED
  BY <1>1, <1>2 DEF Places, PeersAreOpen

\* One session changes its queue, its lag or what its forwarder does.
LEMMA ForwardingPut ==
    ASSUME Places, NEW d \in Documents, NEW s \in SessionState,
           s.at = session[d].at, s.room = session[d].room, Len(s.queue) <= FanoutCapacity,
           session' = [session EXCEPT ![d] = s]
    PROVE  /\ SessionsTyped(session')
           /\ \A e \in Documents : /\ session'[e].at = session[e].at
                                   /\ session'[e].room = session[e].room
                                   /\ session'[e] = IF e = d THEN s ELSE session[e]
  BY DEF Places, SessionsTyped

\* A new session is typed.
LEMMA OpenedType ==
    ASSUME Places, NEW d \in Documents
    PROVE  /\ SessionsTyped(JoinedSession(d))
           /\ JoinedSession(d)[d] = Opened(Registered(d))
           /\ Registered(d) \in DOMAIN rooms[d]
           /\ \A e \in Documents \ {d} : JoinedSession(d)[e] = session[e]
<1>1. Registered(d) \in Nat /\ Registered(d) \in DOMAIN rooms[d]
  BY RoomFields DEF Places, Registered
<1>2. Opened(Registered(d)) \in SessionState /\ Len(Opened(Registered(d)).queue) <= FanoutCapacity
  <2>1. <<>> \in Seq(Fanout) /\ Len(<<>>) = 0 /\ 0 <= FanoutCapacity
    BY HocuspocusAssumption
  <2> QED
    BY <1>1, <2>1 DEF Opened, SessionState
<1> QED
  BY <1>1, <1>2 DEF Places, SessionsTyped, JoinedSession

\* A closed session is typed.
LEMMA NoneType == None \in SessionState /\ Len(None.queue) <= FanoutCapacity
<1>1. <<>> \in Seq(Fanout) /\ Len(<<>>) = 0 /\ 0 <= FanoutCapacity
  BY HocuspocusAssumption
<1> QED
  BY <1>1 DEF None, SessionState

\* A document that was not open is opened.
LEMMA Joining ==
    ASSUME Places, PeersAreOpen, NEW d \in Documents, ~Open(d),
           session' = JoinedSession(d), rooms' = JoinedRooms(d),
           Seats' <= MaxDocuments
    PROVE  Places' /\ PeersAreOpen'
<1>1. /\ SessionsTyped(session')
      /\ session'[d] = Opened(Registered(d))
      /\ Registered(d) \in DOMAIN rooms[d]
      /\ \A e \in Documents \ {d} : session'[e] = session[e]
  BY OpenedType
<1>2. /\ RoomsTyped(rooms')
      /\ \A e \in Documents :
           /\ DOMAIN rooms'[e] = DOMAIN rooms[e]
           /\ \A i \in DOMAIN rooms[e] :
                 rooms'[e][i].peers = IF e = d /\ i = Registered(d) THEN rooms[e][i].peers + 1
                                      ELSE rooms[e][i].peers
  BY JoinedRoomsProperties DEF Places
<1>3. session'[d].at = "open" /\ session'[d].room = Registered(d)
  BY <1>1 DEF Opened
<1>4. Open(d)' /\ \A e \in Documents \ {d} : Open(e)' = Open(e)
  BY <1>1, <1>3 DEF Open
<1>5. Places'
  BY <1>1, <1>2, <1>3, <1>4 DEF Places
<1>6. \A i \in DOMAIN rooms[d] : rooms[d][i].peers = 0
  BY DEF PeersAreOpen
<1>7. ASSUME NEW e \in Documents, NEW i \in DOMAIN rooms'[e]
      PROVE  rooms'[e][i].peers = IF Open(e)' /\ session'[e].room = i THEN 1 ELSE 0
  <2>1. CASE e = d
    BY <2>1, <1>2, <1>3, <1>4, <1>6
  <2>2. CASE e # d
    BY <2>2, <1>1, <1>2, <1>4 DEF PeersAreOpen
  <2> QED
    BY <2>1, <2>2
<1> QED
  BY <1>5, <1>7 DEF PeersAreOpen

\* Some documents are closed, and their sessions have left.
LEMMA Leaving ==
    ASSUME Places, PeersAreOpen, NEW closing \in SUBSET Documents,
           rooms' = LeftRooms(closing),
           session' \in [Documents -> SessionState],
           \A e \in Documents : session'[e] = IF e \in closing THEN None ELSE session[e]
    PROVE  Places' /\ PeersAreOpen'
<1>1. SessionsTyped(session')
  BY NoneType DEF Places, SessionsTyped
<1>2. /\ RoomsTyped(rooms')
      /\ \A e \in Documents :
           /\ DOMAIN rooms'[e] = DOMAIN rooms[e]
           /\ \A i \in DOMAIN rooms[e] :
                 rooms'[e][i].peers = IF e \in closing THEN 0 ELSE rooms[e][i].peers
  BY LeftRoomsProperties
<1>3. /\ \A e \in closing : ~Open(e)' /\ session'[e].at = "closed"
      /\ \A e \in Documents \ closing : Open(e)' = Open(e) /\ session'[e] = session[e]
  BY DEF Open, None
<1>4. Seats' <= MaxDocuments
  <2>1. \A e \in Documents : session'[e].at \in {session[e].at, "closed"}
    BY <1>3
  <2> QED
    BY <2>1, FewerSeats
<1>5. Places'
  BY <1>1, <1>2, <1>3, <1>4 DEF Places
<1> QED
  BY <1>2, <1>3, <1>5 DEF PeersAreOpen

LEMMA FanoutTypes ==
    ASSUME NEW X \in SUBSET Updates
    PROVE  /\ [kind |-> "own", content |-> X] \in Fanout
           /\ [kind |-> "other", content |-> X] \in Fanout
           /\ [kind |-> "closed", content |-> {}] \in Fanout
  BY DEF Fanout

\* The session tells its client that X was not saved.
Refusing(d, X) == [session EXCEPT ![d].refused = @ \cup X]

LEMMA RefusingProperties ==
    ASSUME SessionsTyped(session), NEW d \in Documents, NEW X \in SUBSET Updates
    PROVE  /\ SessionsTyped(Refusing(d, X))
           /\ X \subseteq Refusing(d, X)[d].refused
           /\ \A e \in Documents :
                /\ Refusing(d, X)[e].at = session[e].at
                /\ Refusing(d, X)[e].room = session[e].room
                /\ Refusing(d, X)[e].queue = session[e].queue
                /\ Refusing(d, X)[e].lagged = session[e].lagged
                /\ Refusing(d, X)[e].forward = session[e].forward
                /\ session[e].refused \subseteq Refusing(d, X)[e].refused
<1> DEFINE s == [session[d] EXCEPT !.refused = session[d].refused \cup X]
<1>1. Refusing(d, X) = [session EXCEPT ![d] = s]
  BY DEF Refusing
<1>2. session[d] \in SessionState /\ Len(session[d].queue) <= FanoutCapacity
  BY SessionFields
<1>3. /\ s \in SessionState
      /\ s.at = session[d].at /\ s.room = session[d].room
      /\ s.queue = session[d].queue /\ s.lagged = session[d].lagged
      /\ s.forward = session[d].forward
      /\ s.refused = session[d].refused \cup X
  BY <1>2 DEF SessionState
<1> HIDE DEF s
<1>4. /\ Refusing(d, X) \in [Documents -> SessionState]
      /\ Refusing(d, X)[d] = s
      /\ \A e \in Documents \ {d} : Refusing(d, X)[e] = session[e]
  BY <1>1, <1>3 DEF SessionsTyped
<1>5. SessionsTyped(Refusing(d, X))
  BY <1>2, <1>3, <1>4 DEF SessionsTyped
<1> QED
  BY <1>3, <1>4, <1>5

\* An update from the client: what the room lacks of it is added and broadcast,
\* unless the document is full.
LEMMA Applying ==
    ASSUME Wires, Places, NEW d \in Documents, ApplyUpdate(d)
    PROVE  /\ Reads(d, "update")
           /\ UNCHANGED <<connected, wanted, replica, down, outbox, events>>
           /\ Head(up).content \in SUBSET Updates
           /\ \/ session' = session /\ rooms' = rooms
                 /\ (Open(d) /\ d \notin Readable => Head(up).content \subseteq InRoom(d).doc)
              \/ session' = Refusing(d, Head(up).content) /\ rooms' = rooms
              \/ \E X \in SUBSET Head(up).content :
                    /\ Open(d) /\ Head(up).content \subseteq X \cup InRoom(d).doc
                    /\ session[d].room \in DOMAIN rooms[d]
                    /\ [kind |-> "own", content |-> X] \in Fanout
                    /\ rooms' = Grown(d, session[d].room, X)
                    /\ session' = Broadcast(d, session[d].room, [kind |-> "own", content |-> X])
<1> DEFINE content == Head(up).content
           X == content \ InRoom(d).doc
<1>1. /\ Reads(d, "update")
      /\ UNCHANGED <<connected, wanted, replica, down, outbox, events>>
  BY DEF ApplyUpdate
<1>2. content \in SUBSET Updates
  BY <1>1, ReadsProperties
<1>3. CASE ~Open(d) \/ d \in Readable
  BY <1>1, <1>2, <1>3 DEF ApplyUpdate
<1>4. CASE Open(d) /\ d \notin Readable /\ Full(InRoom(d).doc, content)
  BY <1>1, <1>2, <1>4 DEF ApplyUpdate, Refusing
<1>5. CASE Open(d) /\ d \notin Readable /\ ~Full(InRoom(d).doc, content) /\ X = {}
  BY <1>1, <1>2, <1>5 DEF ApplyUpdate
<1>6. CASE Open(d) /\ d \notin Readable /\ ~Full(InRoom(d).doc, content) /\ X # {}
  <2>1. /\ rooms' = Grown(d, session[d].room, X)
        /\ session' = Broadcast(d, session[d].room, [kind |-> "own", content |-> X])
    BY <1>6 DEF ApplyUpdate, Grown
  <2>2. X \in SUBSET content /\ content \subseteq X \cup InRoom(d).doc
    OBVIOUS
  <2>3. session[d].room \in DOMAIN rooms[d]
    BY <1>6, InRoomType
  <2> HIDE DEF X
  <2>4. [kind |-> "own", content |-> X] \in Fanout
    BY <1>2, <2>2, FanoutTypes
  <2> QED
    BY <1>1, <1>2, <1>6, <2>1, <2>2, <2>3, <2>4
<1> QED
  BY <1>3, <1>4, <1>5, <1>6

\* No step miscounts.
LEMMA PlacesStep ==
    ASSUME Wires, Places, PeersAreOpen, [Next]_vars
    PROVE  Places' /\ PeersAreOpen'
<1>0. SessionsTyped(session) /\ RoomsTyped(rooms)
  BY DEF Places
<1>1. ASSUME UNCHANGED <<session, rooms>>
      PROVE  Places' /\ PeersAreOpen'
  BY <1>0, <1>1, StayingPut
<1>3. ASSUME Connect \/ Receive
      PROVE  UNCHANGED <<session, rooms>>
  BY <1>3 DEF Connect, Receive
<1>4. ASSUME NEW d \in Documents, Deny(d) \/ AnswerStep1(d)
      PROVE  UNCHANGED <<session, rooms>>
  BY <1>4 DEF Deny, AnswerStep1
<1>5. ASSUME NEW d \in Documents, NEW r, NEW m \in Fanout, session' = Broadcast(d, r, m)
      PROVE  /\ SessionsTyped(session')
             /\ \A e \in Documents :
                   session'[e].at = session[e].at /\ session'[e].room = session[e].room
  BY <1>0, <1>5, BroadcastProperties
<1>6. ASSUME NEW d \in Documents, Noise(d)
      PROVE  Places' /\ PeersAreOpen'
  <2>1. [kind |-> "other", content |-> {}] \in Fanout
    BY FanoutTypes
  <2>2. rooms' = rooms /\ session' = Broadcast(d, Registered(d), [kind |-> "other", content |-> {}])
    BY <1>6 DEF Noise
  <2> QED
    BY <1>0, <1>5, <2>1, <2>2, StayingPut
<1>7. ASSUME NEW d \in Documents, NEW r \in DOMAIN rooms[d], NEW X \in SUBSET Updates,
             rooms' = Grown(d, r, X),
             NEW q, NEW m \in Fanout, session' = Broadcast(d, q, m)
      PROVE  Places' /\ PeersAreOpen'
  <2>1. /\ RoomsTyped(rooms')
        /\ \A e \in Documents :
              /\ DOMAIN rooms'[e] = DOMAIN rooms[e]
              /\ \A i \in DOMAIN rooms[e] : rooms'[e][i].peers = rooms[e][i].peers
    <3>1. /\ RoomsTyped(Grown(d, r, X))
          /\ \A e \in Documents :
                /\ DOMAIN Grown(d, r, X)[e] = DOMAIN rooms[e]
                /\ \A i \in DOMAIN rooms[e] : Grown(d, r, X)[e][i].peers = rooms[e][i].peers
      BY <1>0, GrownRooms
    <3> QED
      BY <1>7, <3>1
  <2> QED
    BY <1>5, <1>7, <2>1, StayingPut
<1>8. ASSUME NEW d \in Documents, NEW u \in Updates, Others(d, u)
      PROVE  Places' /\ PeersAreOpen'
  <2>1. [kind |-> "other", content |-> {u}] \in Fanout
    BY FanoutTypes
  <2>2. Registered(d) \in DOMAIN rooms[d]
    BY <1>0, RoomFields DEF Registered
  <2>3. /\ rooms' = Grown(d, Registered(d), {u})
        /\ session' = Broadcast(d, Registered(d), [kind |-> "other", content |-> {u}])
    BY <1>8 DEF Others, Grown
  <2> QED
    BY <1>7, <2>1, <2>2, <2>3
<1>9. ASSUME NEW d \in Documents, Delete(d)
      PROVE  Places' /\ PeersAreOpen'
  <2> DEFINE m == [kind |-> "closed", content |-> {}]
             new == [doc |-> {}, peers |-> 0]
  <2>1. m \in Fanout
    BY FanoutTypes
  <2>2. /\ SessionsTyped(session')
        /\ \A e \in Documents : session'[e].at = session[e].at /\ session'[e].room = session[e].room
    BY <1>5, <1>9, <2>1 DEF Delete
  <2>3. rooms' = [rooms EXCEPT ![d] = Append(rooms[d], new)]
    BY <1>9 DEF Delete
  <2>4. new \in RoomState /\ new.peers = 0
    BY DEF RoomState
  <2>5. rooms[d] \in Seq(RoomState) /\ Len(rooms[d]) \in Nat /\ DOMAIN rooms[d] = 1..Len(rooms[d])
    BY <1>0, RoomFields
  <2> HIDE DEF new, m
  <2>6. /\ Append(rooms[d], new) \in Seq(RoomState)
        /\ Append(rooms[d], new) # <<>>
        /\ DOMAIN Append(rooms[d], new) = 1..(Len(rooms[d]) + 1)
        /\ \A i \in 1..Len(rooms[d]) : Append(rooms[d], new)[i] = rooms[d][i]
        /\ Append(rooms[d], new)[Len(rooms[d]) + 1] = new
    BY <2>4, <2>5, AppendProperties, LenProperties
  <2>7. /\ rooms'[d] = Append(rooms[d], new)
        /\ \A e \in Documents \ {d} : rooms'[e] = rooms[e]
        /\ RoomsTyped(rooms')
    BY <1>0, <2>3, <2>6 DEF RoomsTyped
  <2>8. \A e \in Documents : Open(e)' = Open(e)
    BY <2>2 DEF Open
  <2>9. Places'
    <3>1. Seats' <= MaxDocuments
      BY <2>2, SameSeats
    <3>2. \A e \in Documents : DOMAIN rooms[e] \subseteq DOMAIN rooms'[e]
      BY <2>5, <2>6, <2>7
    <3> QED
      BY <2>2, <2>7, <2>8, <3>1, <3>2 DEF Places
  <2>10. ASSUME NEW e \in Documents, NEW i \in DOMAIN rooms'[e]
         PROVE  rooms'[e][i].peers = IF Open(e)' /\ session'[e].room = i THEN 1 ELSE 0
    <3>1. CASE e # d \/ i \in DOMAIN rooms[e]
      BY <2>2, <2>5, <2>6, <2>7, <2>8, <3>1 DEF PeersAreOpen
    <3>2. CASE e = d /\ i \notin DOMAIN rooms[e]
      <4>1. i = Len(rooms[d]) + 1
        BY <2>5, <2>6, <2>7, <3>2
      <4>2. Open(d) => session[d].room # i
        BY <3>2 DEF Places
      <4> QED
        BY <2>2, <2>4, <2>6, <2>7, <2>8, <3>2, <4>1, <4>2
    <3> QED
      BY <3>1, <3>2
  <2> QED
    BY <2>9, <2>10 DEF PeersAreOpen
<1>10. ASSUME NEW d \in Documents, Authenticate(d)
       PROVE  Places' /\ PeersAreOpen'
  <2>1. CASE session[d].at = "closed" /\ ~(Seats >= MaxDocuments)
    <3>1. session' = JoinedSession(d) /\ rooms' = JoinedRooms(d)
      BY <1>10, <2>1 DEF Authenticate
    <3>2. ~Open(d)
      BY <2>1 DEF Open
    <3>3. \A e \in Documents \ {d} : session'[e].at = session[e].at
      BY <3>1, OpenedType
    <3>4. Seats < MaxDocuments
      <4>1. Seats \in Nat
        BY HocuspocusAssumption, FS_Subset, FS_CardinalityType DEF Seats
      <4> QED
        BY <2>1, <4>1, HocuspocusAssumption
    <3> QED
      BY <3>1, <3>2, <3>3, <3>4, OneMoreSeat, Joining
  <2>2. CASE ~(session[d].at = "closed" /\ ~(Seats >= MaxDocuments))
    BY <1>1, <1>10, <2>2 DEF Authenticate
  <2> QED
    BY <2>1, <2>2
<1>11. ASSUME NEW d \in Documents, Pause(d)
       PROVE  Places' /\ PeersAreOpen'
  <2> DEFINE s == [session[d] EXCEPT !.at = "paused"]
  <2>1. session' = [session EXCEPT ![d] = s] /\ rooms' = rooms
    BY <1>11 DEF Pause
  <2>2. s \in SessionState /\ s.at = "paused" /\ s.queue = session[d].queue
    BY <1>0, SessionFields DEF SessionState
  <2>3. /\ SessionsTyped(session')
        /\ session'[d].at = "paused"
        /\ \A e \in Documents \ {d} : session'[e] = session[e]
    BY <1>0, <2>1, <2>2 DEF SessionsTyped
  <2>4. Seats' <= MaxDocuments
    BY <1>11, <2>3, OneMoreSeat DEF Pause
  <2>5. ~Open(d) /\ ~Open(d)' /\ \A e \in Documents \ {d} : Open(e)' = Open(e)
    BY <1>11, <2>3 DEF Open, Pause
  <2>6. Places'
    BY <1>0, <2>1, <2>3, <2>4, <2>5 DEF Places
  <2> QED
    BY <2>1, <2>3, <2>5, <2>6 DEF PeersAreOpen
<1>12. ASSUME NEW d \in Documents, ApplyUpdate(d)
       PROVE  Places' /\ PeersAreOpen'
  <2>0. Head(up).content \in SUBSET Updates
    BY <1>12, Applying
  <2>1. ASSUME session' = Refusing(d, Head(up).content), rooms' = rooms
        PROVE  Places' /\ PeersAreOpen'
    BY <1>0, <2>0, <2>1, RefusingProperties, StayingPut
  <2>2. ASSUME NEW X \in SUBSET Head(up).content,
               session[d].room \in DOMAIN rooms[d],
               [kind |-> "own", content |-> X] \in Fanout,
               rooms' = Grown(d, session[d].room, X),
               session' = Broadcast(d, session[d].room, [kind |-> "own", content |-> X])
        PROVE  Places' /\ PeersAreOpen'
    BY <1>7, <2>0, <2>2
  <2> QED
    BY <1>1, <1>12, <2>1, <2>2, Applying
<1>13. ASSUME NEW d \in Documents, CloseDocument(d)
       PROVE  Places' /\ PeersAreOpen'
  <2>1. CASE Open(d)
    <3>1. rooms' = LeftRooms({d}) /\ session' = [session EXCEPT ![d] = None]
      BY <1>13, <2>1 DEF CloseDocument
    <3>2. /\ session' \in [Documents -> SessionState]
          /\ \A e \in Documents : session'[e] = IF e \in {d} THEN None ELSE session[e]
      BY <1>0, <3>1, NoneType DEF SessionsTyped
    <3> QED
      BY <3>1, <3>2, Leaving
  <2>2. CASE ~Open(d)
    <3>1. session' = session /\ rooms' = rooms
      <4>1. rooms' = [e \in Documents |-> rooms[e]]
        BY <1>13, <2>2 DEF CloseDocument, LeftRooms
      <4> QED
        BY <1>0, <1>13, <2>2, <4>1 DEF CloseDocument, RoomsTyped
    <3> QED
      BY <1>1, <3>1
  <2> QED
    BY <2>1, <2>2
<1>14. ASSUME NEW d \in Documents, Recheck(d)
       PROVE  Places' /\ PeersAreOpen'
  <2>1. session' = JoinedSession(d) /\ rooms' = JoinedRooms(d) /\ session[d].at = "paused"
    BY <1>14 DEF Recheck
  <2>2. ~Open(d)
    BY <2>1 DEF Open
  <2>3. Seats' <= MaxDocuments
    <3>1. \A e \in Documents \ {d} : session'[e].at = session[e].at
      BY <2>1, OpenedType
    <3>2. session'[d].at = "open"
      <4>1. session'[d] = Opened(Registered(d))
        BY <2>1, OpenedType
      <4> QED
        BY <4>1 DEF Opened
    <3>3. {e \in Documents : session'[e].at # "closed"}
             = {e \in Documents : session[e].at # "closed"}
      BY <2>1, <3>1, <3>2
    <3> QED
      BY <3>3 DEF Places, Seats
  <2> QED
    BY <2>1, <2>2, <2>3, Joining
<1>15. ASSUME End
       PROVE  Places' /\ PeersAreOpen'
  <2>1. rooms' = LeftRooms(Documents) /\ session' = [d \in Documents |-> None]
    BY <1>15 DEF End
  <2>2. session' \in [Documents -> SessionState]
    BY <2>1, NoneType
  <2> QED
    BY <2>1, <2>2, Leaving
<1>16. ASSUME Outgoing \/ Ping \/ Drop
       PROVE  Places' /\ PeersAreOpen'
  BY <1>1, <1>15, <1>16 DEF Outgoing, Ping, Drop
<1>17. ASSUME NEW d \in Documents, Forwarder(d)
       PROVE  Places' /\ PeersAreOpen'
  <2>1. ASSUME NEW s \in SessionState, s.at = session[d].at, s.room = session[d].room,
               Len(s.queue) <= FanoutCapacity,
               session' = [session EXCEPT ![d] = s], rooms' = rooms
        PROVE  Places' /\ PeersAreOpen'
    BY <1>0, <2>1, ForwardingPut, StayingPut
  <2>2. session[d] \in SessionState /\ session[d].queue \in Seq(Fanout)
        /\ Len(session[d].queue) <= FanoutCapacity
    BY <1>0, SessionFields
  <2>3. CASE ForwardLag(d)
    <3> DEFINE s == [session[d] EXCEPT !.lagged = FALSE]
               t == [session[d] EXCEPT !.lagged = FALSE, !.forward = "retry"]
    <3>1. /\ s \in SessionState /\ s.at = session[d].at /\ s.room = session[d].room
          /\ Len(s.queue) <= FanoutCapacity
          /\ t \in SessionState /\ t.at = session[d].at /\ t.room = session[d].room
          /\ Len(t.queue) <= FanoutCapacity
      BY <2>2 DEF SessionState
    <3>2. \/ session' = [session EXCEPT ![d] = s]
          \/ session' = [session EXCEPT ![d] = t]
      BY <2>3 DEF ForwardLag
    <3>3. rooms' = rooms
      BY <2>3 DEF ForwardLag
    <3> HIDE DEF s, t
    <3> QED
      BY <2>1, <3>1, <3>2, <3>3
  <2>4. CASE Forward(d)
    <3>1. /\ Tail(session[d].queue) \in Seq(Fanout)
          /\ Len(Tail(session[d].queue)) <= FanoutCapacity
      <4>1. /\ Tail(session[d].queue) \in Seq(Fanout)
            /\ Len(Tail(session[d].queue)) = Len(session[d].queue) - 1
        BY <2>2, <2>4, RangeTail DEF Forward
      <4>2. Len(session[d].queue) \in Nat
        BY <2>2, LenProperties
      <4> QED
        BY <2>2, <4>1, <4>2, HocuspocusAssumption
    <3>2. PICK f \in {"recv", "retry"} :
             session' = [session EXCEPT ![d].queue = Tail(@), ![d].forward = f]
      BY <2>4 DEF Forward
    <3> DEFINE s == [session[d] EXCEPT !.queue = Tail(@), !.forward = f]
    <3>3. session' = [session EXCEPT ![d] = s] /\ rooms' = rooms
      BY <2>4, <3>2 DEF Forward
    <3>4. /\ s \in SessionState /\ s.at = session[d].at /\ s.room = session[d].room
          /\ Len(s.queue) <= FanoutCapacity
      BY <2>2, <3>1 DEF SessionState
    <3> HIDE DEF s
    <3> QED
      BY <2>1, <3>3, <3>4
  <2>5. CASE Retry(d)
    <3> DEFINE s == [session[d] EXCEPT !.forward = "done", !.queue = <<>>, !.lagged = FALSE]
    <3>1. session' = [session EXCEPT ![d] = s] /\ rooms' = rooms
      BY <2>5 DEF Retry
    <3>2. <<>> \in Seq(Fanout) /\ Len(<<>>) = 0 /\ 0 <= FanoutCapacity
      BY HocuspocusAssumption
    <3>3. /\ s \in SessionState /\ s.at = session[d].at /\ s.room = session[d].room
          /\ Len(s.queue) <= FanoutCapacity
      BY <2>2, <3>2 DEF SessionState
    <3> HIDE DEF s
    <3> QED
      BY <2>1, <3>1, <3>3
  <2> QED
    BY <1>17, <2>3, <2>4, <2>5 DEF Forwarder
<1>18. CASE UNCHANGED vars
  BY <1>1, <1>18 DEF vars
<1>19. CASE \E d \in Documents : Attach(d) \/ Detach(d) \/ \E u \in Updates : Edit(d, u)
  BY <1>1, <1>19 DEF Attach, Detach, Edit
<1> QED
  BY <1>1, <1>3, <1>4, <1>6, <1>8, <1>9, <1>10, <1>11, <1>12, <1>13, <1>14,
     <1>16, <1>17, <1>18, <1>19
  DEF Next, Client, Elsewhere, Task

\* The invariant so far.
Placed == TypeOK /\ PeersAreOpen

LEMMA PlacedInit == Init => Placed
<1> SUFFICES ASSUME Init PROVE Placed
  OBVIOUS
<1> DEFINE new == <<[doc |-> {}, peers |-> 0]>>
<1>1. [doc |-> {}, peers |-> 0] \in RoomState
  BY DEF RoomState
<1>2. new \in Seq(RoomState) /\ new # <<>> /\ DOMAIN new = {1} /\ new[1].peers = 0
  BY <1>1
<1>3. rooms = [d \in Documents |-> new] /\ session = [d \in Documents |-> None]
  BY DEF Init
<1>4. \A d \in Documents : ~Open(d)
  BY <1>3 DEF Open, None
<1>5. Seats <= MaxDocuments
  <2>1. {d \in Documents : session[d].at # "closed"} = {}
    BY <1>3 DEF None
  <2> QED
    <3>1. MaxDocuments \in Nat
      BY HocuspocusAssumption
    <3> QED
      BY <2>1, <3>1, FS_EmptySet DEF Seats
<1>6. <<>> \in Seq(Frame) /\ Len(<<>>) = 0 /\ 0 <= OutboxCapacity /\ 0 \in 0..MaxEvents
  BY HocuspocusAssumption
<1>7. Wires
  BY <1>6 DEF Init, Wires
<1> HIDE DEF new
<1>8. Places
  BY <1>2, <1>3, <1>4, <1>5, NoneType DEF Places, SessionsTyped, RoomsTyped
<1>9. PeersAreOpen
  BY <1>2, <1>3, <1>4 DEF PeersAreOpen
<1> QED
  BY <1>7, <1>8, <1>9, Halves DEF Placed

LEMMA PlacedStep == Placed /\ [Next]_vars => Placed'
<1> SUFFICES ASSUME Placed, [Next]_vars PROVE Placed'
  OBVIOUS
<1>1. Wires /\ Places /\ PeersAreOpen
  BY Halves DEF Placed
<1>2. Wires' /\ Places' /\ PeersAreOpen'
  BY <1>1, WiresStep, PlacesStep
<1>3. TypeOK'
  BY <1>2 DEF TypeOK, Wires, Places, SessionsTyped, RoomsTyped
<1> QED
  BY <1>2, <1>3 DEF Placed

\* Where every session, seat and message is, always (hocuspocus.rs).
THEOREM PlacedAlways == Spec => []Placed
  BY PlacedInit, PlacedStep, PTL DEF Spec

\* Every variable keeps its type: no channel outgrows its capacity, and a
\* socket never has more documents, open or paused, than MAX_DOCUMENTS
\* (hocuspocus.rs authenticate, recheck).
THEOREM TypeCorrect == Spec => []TypeOK
<1>1. Placed => TypeOK
  BY DEF Placed
<1> QED
  BY <1>1, PlacedAlways, PTL

\* A room counts a connection exactly while it has the document open there
\* (hocuspocus.rs open, join, close_document, recheck, run; room.rs join,
\* leave).
THEOREM PeersAreOpenTheorem == Spec => []PeersAreOpen
<1>1. Placed => PeersAreOpen
  BY DEF Placed
<1> QED
  BY <1>1, PlacedAlways, PTL

-----------------------------------------------------------------------------
(***************************************************************************)
(* What the exchange of the document rests on.                             *)
(***************************************************************************)

\* Without a socket there is no session, and nothing on the way.
OfflineIsEmpty ==
    ~connected => /\ up = <<>> /\ down = <<>> /\ outbox = <<>>
                  /\ \A d \in Documents : session[d] = None

\* Closed carries no updates.
ClosedIsEmpty ==
    \A d \in Documents : \A m \in Range(session[d].queue) : m.kind = "closed" => m.content = {}

\* The client holds what it says it has, and what it sends.
ClientHolds ==
    \A f \in Range(up) : f.kind \in {"step1", "update"} => f.content \subseteq replica[f.doc]

\* Behind every token comes the step 1 of its document.
HelloOrder ==
    \A i \in 1..Len(up) : up[i].kind = "token" =>
        /\ i + 1 \in 1..Len(up)
        /\ up[i + 1].kind = "step1"
        /\ up[i + 1].doc = up[i].doc

LEMMA OfflineStep ==
    ASSUME Wires, Places, OfflineIsEmpty, [Next]_vars
    PROVE  OfflineIsEmpty'
<1> SUFFICES ASSUME ~connected'
             PROVE  /\ up' = <<>> /\ down' = <<>> /\ outbox' = <<>>
                    /\ \A d \in Documents : session'[d] = None
  BY DEF OfflineIsEmpty
<1>1. CASE End
  BY <1>1 DEF End
<1>2. CASE ~connected
  <2>1. /\ up = <<>> /\ down = <<>> /\ outbox = <<>>
        /\ \A d \in Documents : session[d] = None
    BY <1>2 DEF OfflineIsEmpty
  <2>2. ASSUME UNCHANGED <<up, down, outbox, session>>
        PROVE  /\ up' = <<>> /\ down' = <<>> /\ outbox' = <<>>
               /\ \A d \in Documents : session'[d] = None
    BY <2>1, <2>2
  <2>3. /\ \A d \in Documents : /\ ~Open(d)
                                /\ session[d].at = "closed"
                                /\ session[d].forward = "done"
        /\ \A d \in Documents : \A kind : ~Reads(d, kind)
    BY <2>1 DEF None, Open, Reads
  <2>4. \A d \in Documents : \A r, m : Broadcast(d, r, m) = session
    BY <2>3 DEF Broadcast
  <2>5. CASE \E d \in Documents : Attach(d) \/ Detach(d) \/ \E u \in Updates : Edit(d, u)
    BY <1>2, <2>2, <2>5 DEF Attach, Detach, Edit
  <2>6. CASE Connect \/ Receive
    BY <2>1, <2>6 DEF Connect, Receive
  <2>7. CASE Elsewhere
    BY <2>2, <2>4, <2>7 DEF Elsewhere, Noise, Delete, Others
  <2>8. CASE Task
    BY <1>2, <2>1, <2>3, <2>8
    DEF Task, Authenticate, Deny, Pause, AnswerStep1, ApplyUpdate, CloseDocument, Recheck,
        Outgoing, Ping, Drop
  <2>9. ASSUME NEW d \in Documents, Forwarder(d)
        PROVE  FALSE
    BY <2>3, <2>9 DEF Forwarder, ForwardLag, Forward, Retry
  <2>10. CASE UNCHANGED vars
    BY <2>2, <2>10 DEF vars
  <2> QED
    BY <2>5, <2>6, <2>7, <2>8, <2>9, <2>10 DEF Next, Client
<1>3. CASE connected /\ ~End
  <2>1. CASE Client
    BY <1>3, <2>1 DEF Client, Attach, Detach, Edit, Connect, Receive
  <2>2. CASE Elsewhere
    BY <1>3, <2>2 DEF Elsewhere, Noise, Delete, Others
  <2>3. CASE Task
    BY <1>3, <2>3
    DEF Task, Authenticate, Deny, Pause, AnswerStep1, ApplyUpdate, CloseDocument, Recheck,
        Outgoing, Ping, Drop
  <2>4. CASE \E d \in Documents : Forwarder(d)
    BY <1>3, <2>4 DEF Forwarder, ForwardLag, Forward, Retry
  <2>5. CASE UNCHANGED vars
    BY <1>3, <2>5 DEF vars
  <2> QED
    BY <2>1, <2>2, <2>3, <2>4, <2>5 DEF Next
<1> QED
  BY <1>1, <1>2, <1>3

\* What a step puts in a receiver: nothing, Closed, or what a room has got.
News(d, m) ==
    \/ m.kind = "closed" /\ m.content = {}
    \/ m.kind # "closed" /\ \E r \in DOMAIN rooms[d] : m.content \subseteq rooms'[d][r].doc

LEMMA QueuesStep ==
    ASSUME Wires, Places, [Next]_vars
    PROVE  \A d \in Documents : \A m \in Range(session'[d].queue) :
               m \in Range(session[d].queue) \/ News(d, m)
<1> DEFINE Goal == \A d \in Documents : \A m \in Range(session'[d].queue) :
                       m \in Range(session[d].queue) \/ News(d, m)
<1> SUFFICES Goal
  OBVIOUS
<1>0. SessionsTyped(session) /\ RoomsTyped(rooms)
  BY DEF Places
<1>1. ASSUME \A d \in Documents : Range(session'[d].queue) \subseteq Range(session[d].queue)
      PROVE  Goal
  BY <1>1
<1>2. ASSUME UNCHANGED session
      PROVE  Goal
  BY <1>1, <1>2
<1>3. ASSUME NEW d \in Documents, NEW r, NEW m \in Fanout, News(d, m),
             session' = Broadcast(d, r, m)
      PROVE  Goal
  <2>1. \A e \in Documents :
           /\ Range(session'[e].queue) \subseteq Range(session[e].queue) \cup {m}
           /\ e # d => session'[e] = session[e]
    BY <1>0, <1>3, BroadcastProperties
  <2> QED
    BY <1>3, <2>1
<1>4. Range(<<>>) = {}
  BY DEF Range
<1>5. CASE Client
  BY <1>2, <1>5 DEF Client, Attach, Detach, Edit, Connect, Receive
<1>6. ASSUME NEW d \in Documents, Noise(d) \/ Delete(d) \/ \E u \in Updates : Others(d, u)
      PROVE  Goal
  <2>0. Registered(d) \in DOMAIN rooms[d]
    BY <1>0, RoomFields DEF Registered
  <2>1. CASE Noise(d)
    <3> DEFINE m == [kind |-> "other", content |-> {}]
    <3>1. m \in Fanout /\ News(d, m)
      BY <2>0, FanoutTypes DEF News
    <3> QED
      BY <1>3, <2>1, <3>1 DEF Noise
  <2>2. CASE Delete(d)
    <3> DEFINE m == [kind |-> "closed", content |-> {}]
    <3>1. m \in Fanout /\ News(d, m)
      BY FanoutTypes DEF News
    <3> QED
      BY <1>3, <2>2, <3>1 DEF Delete
  <2>3. ASSUME NEW u \in Updates, Others(d, u)
        PROVE  Goal
    <3> DEFINE m == [kind |-> "other", content |-> {u}]
               r == Registered(d)
    <3>1. rooms' = Grown(d, r, {u}) /\ r \in DOMAIN rooms[d] /\ {u} \in SUBSET Updates
      BY <2>0, <2>3 DEF Others, Grown
    <3> HIDE DEF r
    <3>2. {u} \subseteq rooms'[d][r].doc
      BY <1>0, <3>1, GrownDocs
    <3>3. m \in Fanout /\ News(d, m)
      BY <3>1, <3>2, FanoutTypes DEF News
    <3> QED
      BY <1>3, <2>3, <3>3 DEF Others
  <2> QED
    BY <1>6, <2>1, <2>2, <2>3
<1>7. ASSUME NEW d \in Documents, session' = JoinedSession(d)
      PROVE  Goal
  <2>1. /\ session'[d] = Opened(Registered(d))
        /\ \A e \in Documents \ {d} : session'[e] = session[e]
    BY <1>7, OpenedType
  <2>2. session'[d].queue = <<>>
    BY <2>1 DEF Opened
  <2> QED
    BY <1>1, <1>4, <2>1, <2>2
<1>8. ASSUME NEW d \in Documents, Authenticate(d) \/ Recheck(d)
      PROVE  Goal
  BY <1>2, <1>7, <1>8 DEF Authenticate, Recheck
<1>9. ASSUME NEW d \in Documents, Deny(d) \/ AnswerStep1(d) \/ Pause(d)
      PROVE  Goal
  <2>1. ASSUME Pause(d), NEW e \in Documents
        PROVE  session'[e].queue = session[e].queue
    BY <1>0, <2>1 DEF Pause, SessionsTyped, SessionState
  <2> QED
    BY <1>1, <1>2, <1>9, <2>1 DEF Deny, AnswerStep1
<1>10. ASSUME NEW d \in Documents, ApplyUpdate(d)
       PROVE  Goal
  <2>1. CASE session' = session
    BY <1>2, <2>1
  <2>2. ASSUME NEW X \in SUBSET Head(up).content,
               session[d].room \in DOMAIN rooms[d],
               [kind |-> "own", content |-> X] \in Fanout,
               rooms' = Grown(d, session[d].room, X),
               session' = Broadcast(d, session[d].room, [kind |-> "own", content |-> X])
        PROVE  Goal
    <3> DEFINE m == [kind |-> "own", content |-> X]
    <3>1. X \in SUBSET Updates
      BY <1>10, Applying, ReadsProperties
    <3>2. X \subseteq rooms'[d][session[d].room].doc
      BY <1>0, <2>2, <3>1, GrownDocs
    <3>3. m \in Fanout /\ News(d, m)
      BY <2>2, <3>2 DEF News
    <3> QED
      BY <1>3, <2>2, <3>3
  <2>3. CASE session' = Refusing(d, Head(up).content)
    BY <1>0, <1>1, <1>10, <2>3, Applying, RefusingProperties
  <2> QED
    BY <1>10, <2>1, <2>2, <2>3, Applying
<1>11. ASSUME NEW closing \in SUBSET Documents,
              \A e \in Documents : session'[e] = IF e \in closing THEN None ELSE session[e]
       PROVE  Goal
  BY <1>1, <1>4, <1>11 DEF None
<1>12. ASSUME NEW d \in Documents, CloseDocument(d)
       PROVE  Goal
  <2>1. \/ session' = session
        \/ \A e \in Documents : session'[e] = IF e \in {d} THEN None ELSE session[e]
    BY <1>0, <1>12 DEF CloseDocument, SessionsTyped
  <2> QED
    BY <1>2, <1>11, <2>1
<1>13. CASE Outgoing \/ Ping \/ Drop
  <2>1. CASE End
    BY <1>11, <2>1 DEF End
  <2>2. CASE ~End
    BY <1>2, <1>13, <2>2 DEF Outgoing, Ping, Drop
  <2> QED
    BY <2>1, <2>2
<1>14. ASSUME NEW d \in Documents, Forwarder(d)
       PROVE  Goal
  <2>1. session[d].queue \in Seq(Fanout)
    BY <1>0, SessionFields
  <2>2. CASE ForwardLag(d)
    <3> DEFINE s == [session[d] EXCEPT !.lagged = FALSE]
               t == [session[d] EXCEPT !.lagged = FALSE, !.forward = "retry"]
    <3>1. session' = [session EXCEPT ![d] = s] \/ session' = [session EXCEPT ![d] = t]
      BY <2>2 DEF ForwardLag
    <3>2. s.queue = session[d].queue /\ t.queue = session[d].queue
      BY <1>0 DEF SessionsTyped, SessionState
    <3> HIDE DEF s, t
    <3>3. \A e \in Documents : session'[e].queue = session[e].queue
      BY <1>0, <3>1, <3>2 DEF SessionsTyped
    <3> QED
      BY <1>1, <3>3
  <2>3. CASE Forward(d)
    <3>1. Range(Tail(session[d].queue)) \subseteq Range(session[d].queue)
      BY <2>1, <2>3, RangeTail DEF Forward
    <3>2. /\ session'[d].queue = Tail(session[d].queue)
          /\ \A e \in Documents \ {d} : session'[e] = session[e]
      BY <1>0, <2>3 DEF Forward, SessionsTyped, SessionState
    <3> QED
      BY <1>1, <3>1, <3>2
  <2>4. CASE Retry(d)
    <3>1. /\ session'[d].queue = <<>>
          /\ \A e \in Documents \ {d} : session'[e] = session[e]
      BY <1>0, <2>4 DEF Retry, SessionsTyped, SessionState
    <3> QED
      BY <1>1, <1>4, <3>1
  <2> QED
    BY <1>14, <2>2, <2>3, <2>4 DEF Forwarder
<1>15. CASE UNCHANGED vars
  BY <1>2, <1>15 DEF vars
<1> QED
  BY <1>5, <1>6, <1>8, <1>9, <1>10, <1>12, <1>13, <1>14, <1>15 DEF Next, Elsewhere, Task

LEMMA ClosedStep ==
    ASSUME Wires, Places, ClosedIsEmpty, [Next]_vars
    PROVE  ClosedIsEmpty'
  BY QueuesStep DEF ClosedIsEmpty, News

\* What the client has sent.
LEMMA UpStep ==
    ASSUME Wires, Places, ClientHolds, HelloOrder, [Next]_vars
    PROVE  ClientHolds' /\ HelloOrder'
<1>0. /\ up \in Seq(Frame) /\ Len(up) \in Nat /\ DOMAIN up = 1..Len(up)
      /\ replica \in [Documents -> SUBSET Updates]
  BY LenProperties DEF Wires
<1>1. ASSUME up' = up, \A e \in Documents : replica[e] \subseteq replica'[e]
      PROVE  ClientHolds' /\ HelloOrder'
  <2>1. \A f \in Range(up) : f.doc \in Documents
    BY <1>0, ElementOfSeq, FrameFields DEF Range
  <2> QED
    BY <1>1, <2>1 DEF ClientHolds, HelloOrder
\* The connection reads a frame.
<1>2. ASSUME up # <<>>, up' = Tail(up), replica' = replica
      PROVE  ClientHolds' /\ HelloOrder'
  <2>1. /\ Len(up') = Len(up) - 1 /\ Len(up) \in Nat \ {0}
        /\ \A i \in 1..Len(up') : up'[i] = up[i + 1]
        /\ Range(up') \subseteq Range(up)
    BY <1>0, <1>2, HeadTailProperties, RangeTail, EmptySeq
  <2>2. ClientHolds'
    BY <1>2, <2>1 DEF ClientHolds
  <2>3. ASSUME NEW i \in 1..Len(up'), up'[i].kind = "token"
        PROVE  /\ i + 1 \in 1..Len(up')
               /\ up'[i + 1].kind = "step1"
               /\ up'[i + 1].doc = up'[i].doc
    <3>1. i + 1 \in 1..Len(up) /\ up[i + 1].kind = "token" /\ up'[i] = up[i + 1]
      BY <1>0, <2>1, <2>3
    <3>2. /\ (i + 1) + 1 \in 1..Len(up)
          /\ up[(i + 1) + 1].kind = "step1"
          /\ up[(i + 1) + 1].doc = up[i + 1].doc
      BY <3>1 DEF HelloOrder
    <3>3. i + 1 \in 1..Len(up')
      BY <2>1, <3>1, <3>2
    <3> QED
      BY <2>1, <3>1, <3>2, <3>3
  <2> QED
    BY <2>2, <2>3 DEF HelloOrder
\* The client sends a frame of what it holds.
<1>3. ASSUME NEW f \in Frame, f.kind # "token", f.content \subseteq replica'[f.doc],
             \A e \in Documents : replica[e] \subseteq replica'[e],
             up' = Append(up, f)
      PROVE  ClientHolds' /\ HelloOrder'
  <2>1. /\ Len(up') = Len(up) + 1
        /\ \A i \in 1..Len(up) : up'[i] = up[i]
        /\ up'[Len(up) + 1] = f
        /\ Range(up') = Range(up) \cup {f}
    BY <1>0, <1>3, AppendProperties, RangeAppend
  <2>2. \A g \in Range(up) : g.doc \in Documents
    BY <1>0, ElementOfSeq, FrameFields DEF Range
  <2>3. ClientHolds'
    BY <1>3, <2>1, <2>2 DEF ClientHolds
  <2>4. ASSUME NEW i \in 1..Len(up'), up'[i].kind = "token"
        PROVE  /\ i + 1 \in 1..Len(up')
               /\ up'[i + 1].kind = "step1"
               /\ up'[i + 1].doc = up'[i].doc
    <3>1. i \in 1..Len(up)
      BY <1>0, <1>3, <2>1, <2>4
    <3>2. /\ i + 1 \in 1..Len(up)
          /\ up[i + 1].kind = "step1"
          /\ up[i + 1].doc = up[i].doc
      BY <2>1, <2>4, <3>1 DEF HelloOrder
    <3> QED
      BY <1>0, <2>1, <3>1, <3>2
  <2> QED
    BY <2>3, <2>4 DEF HelloOrder
\* It greets.
<1>4. ASSUME NEW d \in Documents, up' = up \o Hello(d), replica' = replica
      PROVE  ClientHolds' /\ HelloOrder'
  <2> DEFINE a == Token(d)
             b == Step1(d, replica[d])
  <2>1. a \in Frame /\ b \in Frame
    BY <1>0, FrameTypes
  <2>2. /\ a.kind = "token" /\ a.doc = d
        /\ b.kind = "step1" /\ b.doc = d /\ b.content = replica[d]
    BY DEF Token, Step1
  <2>3. up' = up \o <<a, b>>
    BY <1>4 DEF Hello
  <2> HIDE DEF a, b
  <2>4. /\ Range(up') = Range(up) \cup {a, b}
        /\ Len(up') = Len(up) + 2
        /\ \A i \in 1..Len(up) : up'[i] = up[i]
        /\ up'[Len(up) + 1] = a
        /\ up'[Len(up) + 2] = b
    BY <1>0, <2>1, <2>3, RangePair
  <2>5. ClientHolds'
    BY <1>4, <2>2, <2>4 DEF ClientHolds
  <2>6. ASSUME NEW i \in 1..Len(up'), up'[i].kind = "token"
        PROVE  /\ i + 1 \in 1..Len(up')
               /\ up'[i + 1].kind = "step1"
               /\ up'[i + 1].doc = up'[i].doc
    <3>1. i \in 1..Len(up) \/ i = Len(up) + 1
      BY <1>0, <2>2, <2>4, <2>6
    <3>2. CASE i \in 1..Len(up)
      <4>1. /\ i + 1 \in 1..Len(up)
            /\ up[i + 1].kind = "step1"
            /\ up[i + 1].doc = up[i].doc
        BY <2>4, <2>6, <3>2 DEF HelloOrder
      <4> QED
        BY <1>0, <2>4, <3>2, <4>1
    <3>3. CASE i = Len(up) + 1
      <4>1. i + 1 = Len(up) + 2 /\ i + 1 \in 1..Len(up')
        BY <1>0, <2>4, <3>3
      <4> QED
        BY <2>2, <2>4, <3>3, <4>1
    <3> QED
      BY <3>1, <3>2, <3>3
  <2> QED
    BY <2>5, <2>6 DEF HelloOrder
<1>5. ASSUME up' = <<>>
      PROVE  ClientHolds' /\ HelloOrder'
  <2>1. Range(<<>>) = {} /\ Len(<<>>) = 0
    BY DEF Range
  <2> QED
    BY <1>5, <2>1 DEF ClientHolds, HelloOrder
<1>6. ASSUME NEW d \in Documents, Attach(d)
      PROVE  ClientHolds' /\ HelloOrder'
  BY <1>1, <1>4, <1>6 DEF Attach
<1>7. ASSUME NEW d \in Documents, Detach(d)
      PROVE  ClientHolds' /\ HelloOrder'
  <2>1. /\ Close(d) \in Frame /\ Close(d).kind # "token"
        /\ Close(d).content \subseteq replica'[Close(d).doc]
    BY FrameTypes DEF Close
  <2> QED
    BY <1>1, <1>3, <1>7, <2>1 DEF Detach
<1>8. ASSUME NEW d \in Documents, NEW u \in Updates, Edit(d, u)
      PROVE  ClientHolds' /\ HelloOrder'
  <2>1. \A e \in Documents : replica[e] \subseteq replica'[e]
    BY <1>0, <1>8 DEF Edit
  <2>2. u \in replica'[d]
    BY <1>0, <1>8 DEF Edit
  <2>3. Update(d, {u}) \in Frame
    BY FrameTypes
  <2>4. /\ Update(d, {u}).kind # "token"
        /\ Update(d, {u}).content \subseteq replica'[Update(d, {u}).doc]
    BY <2>2 DEF Update
  <2>5. up' = up \/ up' = Append(up, Update(d, {u}))
    BY <1>8 DEF Edit
  <2> QED
    BY <1>1, <1>3, <2>1, <2>3, <2>4, <2>5
<1>9. ASSUME Connect
      PROVE  ClientHolds' /\ HelloOrder'
  <2>1. Cardinality(wanted) \in Nat
    BY HocuspocusAssumption, FS_Subset, FS_CardinalityType DEF Wires
  <2>2. PICK order \in [1..Cardinality(wanted) -> wanted] : up' = Hellos(order)
    BY <1>9 DEF Connect
  <2> DEFINE n == Cardinality(wanted)
             D(i) == order[(i + 1) \div 2]
  <2>3. Len(order) = n
    BY <2>1
  <2>4. /\ Len(up') = 2 * n
        /\ up' \in Seq(Frame)
        /\ \A i \in 1..2 * n :
              /\ i % 2 = 1 => /\ up'[i] = Token(D(i))
                              /\ i + 1 \in 1..2 * n
                              /\ (i + 1) % 2 # 1
                              /\ ((i + 1) + 1) \div 2 = (i + 1) \div 2
              /\ i % 2 # 1 => up'[i] = Step1(D(i), replica[D(i)])
              /\ D(i) \in Documents
    BY <2>1, <2>2, <2>3, HellosTypes
  <2> HIDE DEF n
  <2>5. ClientHolds'
    <3>1. DOMAIN up' = 1..2 * n
      BY <2>4, LenProperties
    <3>2. ASSUME NEW i \in 1..2 * n, up'[i].kind \in {"step1", "update"}
          PROVE  up'[i].content \subseteq replica'[up'[i].doc]
      <4>1. i % 2 # 1
        BY <2>4, <3>2 DEF Token
      <4> QED
        BY <1>9, <2>4, <4>1 DEF Step1, Connect
    <3> QED
      BY <3>1, <3>2 DEF ClientHolds, Range
  <2>6. ASSUME NEW i \in 1..2 * n, up'[i].kind = "token"
        PROVE  /\ i + 1 \in 1..2 * n
               /\ up'[i + 1].kind = "step1"
               /\ up'[i + 1].doc = up'[i].doc
    <3>1. i % 2 = 1
      BY <2>4, <2>6 DEF Step1
    <3>2. /\ up'[i] = Token(D(i))
          /\ i + 1 \in 1..2 * n
          /\ up'[i + 1] = Step1(D(i), replica[D(i)])
      BY <2>4, <3>1
    <3> QED
      BY <3>2 DEF Token, Step1
  <2> QED
    BY <2>4, <2>5, <2>6 DEF HelloOrder
<1>10. ASSUME Receive
       PROVE  ClientHolds' /\ HelloOrder'
  <2> DEFINE frame == Head(down)
             d == frame.doc
             f == Update(d, replica[d] \ frame.content)
  <2>1. frame \in Frame /\ d \in Documents /\ frame.content \in SUBSET Updates
    BY <1>10, RangeTail, FrameFields DEF Receive, Wires
  <2>2. f \in Frame /\ f.kind # "token" /\ f.doc = d /\ f.content \subseteq replica[d]
    <3>1. f \in Frame
      BY <1>0, <2>1, FrameTypes
    <3> QED
      BY <3>1 DEF Update
  <2>3. \/ replica' = replica
        \/ replica' = [replica EXCEPT ![d] = @ \cup frame.content]
    BY <1>10 DEF Receive
  <2>4. up' = up \/ up' = Append(up, f)
    BY <1>10 DEF Receive
  <2> HIDE DEF frame, d, f
  <2>5. \A e \in Documents : replica[e] \subseteq replica'[e]
    BY <1>0, <2>3
  <2> QED
    BY <1>1, <1>3, <2>1, <2>2, <2>4, <2>5
<1>11. CASE Elsewhere
  BY <1>1, <1>11 DEF Elsewhere, Noise, Delete, Others
<1>12. ASSUME NEW d \in Documents, NEW kind, Reads(d, kind), replica' = replica
       PROVE  ClientHolds' /\ HelloOrder'
  BY <1>2, <1>12 DEF Reads
<1>13. CASE Task
  <2>1. ASSUME End, replica' = replica
        PROVE  ClientHolds' /\ HelloOrder'
    BY <1>5, <2>1 DEF End
  <2>2. CASE Outgoing \/ Ping \/ Drop
    BY <1>1, <2>1, <2>2 DEF Outgoing, Ping, Drop
  <2>3. ASSUME NEW d \in Documents, Recheck(d)
        PROVE  ClientHolds' /\ HelloOrder'
    BY <1>1, <2>3 DEF Recheck
  <2>4. ASSUME NEW d \in Documents,
               \/ Authenticate(d) \/ Deny(d) \/ Pause(d) \/ AnswerStep1(d)
               \/ ApplyUpdate(d) \/ CloseDocument(d)
        PROVE  ClientHolds' /\ HelloOrder'
    BY <1>12, <2>4 DEF Authenticate, Deny, Pause, AnswerStep1, ApplyUpdate, CloseDocument
  <2> QED
    BY <1>13, <2>2, <2>3, <2>4 DEF Task
<1>14. ASSUME NEW d \in Documents, Forwarder(d)
       PROVE  ClientHolds' /\ HelloOrder'
  BY <1>1, <1>14 DEF Forwarder, ForwardLag, Forward, Retry
<1>15. CASE UNCHANGED vars
  BY <1>1, <1>15 DEF vars
<1> QED
  BY <1>6, <1>7, <1>8, <1>9, <1>10, <1>11, <1>13, <1>14, <1>15 DEF Next, Client

-----------------------------------------------------------------------------
(***************************************************************************)
(* An open document misses nothing.                                        *)
(***************************************************************************)

\* What frames carry and say is what some element of them does.
LEMMA CarriedElements ==
    ASSUME NEW s \in Seq(Frame), NEW d
    PROVE  \A u : u \in Carried(d, s) <=>
              \E f \in Range(s) : f.doc = d /\ f.kind = "update" /\ u \in f.content
  BY DEF Carried, Range

LEMMA SaysElements ==
    ASSUME NEW s \in Seq(Frame), NEW d, NEW kind
    PROVE  Says(d, kind, s) <=> \E f \in Range(s) : f.doc = d /\ f.kind = kind
  BY DEF Says, Range

\* What is coming, by where it is.
Held(d, u) == \E m \in Range(session[d].queue) : m.kind # "own" /\ u \in m.content

LEMMA ComingElements ==
    ASSUME NEW d, NEW u
    PROVE  u \in Coming(d) <=> \/ u \in replica[d]
                               \/ u \in Carried(d, down)
                               \/ u \in Carried(d, outbox)
                               \/ Held(d, u)
  BY DEF Coming, Held, Range

\* A document that is open and attached, whose forwarder runs.
Listening(d) == Open(d) /\ session[d].forward = "recv"

Informed(d) ==
    \/ session[d].lagged \/ ToldToReconnect
    \/ Says(d, "step1", up)
    \/ InRoom(d).doc \subseteq Coming(d)

\* A step under which the document's room stays as it is, and nothing that
\* informs the client is lost.
LEMMA StaysInformed ==
    ASSUME Wires, Wires', NEW d \in Documents, Informed(d),
           session[d].lagged => session'[d].lagged,
           Range(outbox) \subseteq Range(outbox') \/ ToldToReconnect',
           Says(d, "step1", up) => Says(d, "step1", up)',
           InRoom(d)'.doc = InRoom(d).doc,
           replica[d] \subseteq replica'[d],
           Range(down) \subseteq Range(down'),
           session'[d].lagged \/ Range(session[d].queue) \subseteq Range(session'[d].queue)
    PROVE  Informed(d)'
<1>1. CASE session'[d].lagged \/ ToldToReconnect'
  BY <1>1 DEF Informed
<1>2. CASE ~session'[d].lagged /\ ~ToldToReconnect'
  <2>1. /\ Range(outbox) \subseteq Range(outbox')
        /\ Range(session[d].queue) \subseteq Range(session'[d].queue)
        /\ ~session[d].lagged
    BY <1>2
  <2>2. ToldToReconnect => ToldToReconnect'
    BY <2>1 DEF ToldToReconnect, Range
  <2>3. CASE Says(d, "step1", up)
    BY <2>3 DEF Informed
  <2>4. CASE InRoom(d).doc \subseteq Coming(d)
    <3>1. ASSUME NEW u, u \in Coming(d)
          PROVE  (u \in Coming(d))'
      <4>1. (u \in Coming(d))' <=> \/ u \in replica'[d]
                                   \/ u \in Carried(d, down')
                                   \/ u \in Carried(d, outbox')
                                   \/ Held(d, u)'
        BY DEF Coming, Held, Range
      <4>2. CASE u \in replica[d]
        BY <4>1, <4>2
      <4>3. CASE u \in Carried(d, down)
        <5>1. u \in Carried(d, down')
          BY <4>3, CarriedElements DEF Wires
        <5> QED
          BY <4>1, <5>1
      <4>4. CASE u \in Carried(d, outbox)
        <5>1. u \in Carried(d, outbox')
          BY <2>1, <4>4, CarriedElements DEF Wires
        <5> QED
          BY <4>1, <5>1
      <4>5. CASE Held(d, u)
        <5>1. Held(d, u)'
          BY <2>1, <4>5 DEF Held
        <5> QED
          BY <4>1, <5>1
      <4> QED
        BY <3>1, <4>2, <4>3, <4>4, <4>5, ComingElements
    <3> QED
      BY <2>4, <3>1 DEF Informed
  <2> QED
    BY <1>2, <2>1, <2>2, <2>3, <2>4 DEF Informed
<1> QED
  BY <1>1, <1>2

\* A frame that is no step 1 of the document is read.
LEMMA SaysAfterReading ==
    ASSUME Wires, NEW e \in Documents, NEW kind, Reads(e, kind),
           NEW d, kind # "step1" \/ e # d, Says(d, "step1", up)
    PROVE  Says(d, "step1", up)'
<1>1. /\ up' \in Seq(Frame)
      /\ Head(up).doc = e /\ Head(up).kind = kind
      /\ Range(up) = {Head(up)} \cup Range(up')
  BY ReadsProperties
<1>2. \E f \in Range(up) : f.doc = d /\ f.kind = "step1"
  BY SaysElements DEF Wires
<1>3. \E f \in Range(up') : f.doc = d /\ f.kind = "step1"
  BY <1>1, <1>2
<1>4. Says(d, "step1", up')
  BY <1>1, <1>3, SaysElements
<1> QED
  BY <1>4

LEMMA SaysAfterSending ==
    ASSUME Wires, Wires', NEW d, Range(up) \subseteq Range(up'), Says(d, "step1", up)
    PROVE  Says(d, "step1", up)'
<1>1. \E f \in Range(up) : f.doc = d /\ f.kind = "step1"
  BY SaysElements DEF Wires
<1>2. Says(d, "step1", up')
  BY <1>1, SaysElements DEF Wires
<1> QED
  BY <1>2

\* A document that was listening and stays where it is, in a step that only
\* puts things in channels, or takes from up what is no step 1 of it.
LEMMA Undisturbed ==
    ASSUME Wires, Wires', NEW d \in Documents, Informed(d),
           session'[d] = session[d], InRoom(d)'.doc = InRoom(d).doc, replica' = replica,
           Range(down) \subseteq Range(down'), Range(outbox) \subseteq Range(outbox'),
           Says(d, "step1", up) => Says(d, "step1", up)'
    PROVE  Informed(d)'
  BY StaysInformed

\* The client's steps.
LEMMA MissedByClient ==
    ASSUME Wires, Wires', Places, OfflineIsEmpty, Client,
           NEW d \in wanted', Listening(d)', d \in wanted /\ Listening(d) => Informed(d)
    PROVE  Informed(d)'
<1>1. /\ session' = session /\ rooms' = rooms /\ outbox' = outbox
      /\ d \in Documents /\ Listening(d) /\ InRoom(d)'.doc = InRoom(d).doc
  <2>1. session' = session /\ rooms' = rooms /\ outbox' = outbox
    BY DEF Client, Attach, Detach, Edit, Connect, Receive
  <2> QED
    BY <2>1 DEF Wires, Listening, Open, InRoom
<1>2. connected
  BY <1>1 DEF OfflineIsEmpty, Listening, Open, None
<1>3. ASSUME d \in wanted, down' = down, Range(up) \subseteq Range(up'),
             replica[d] \subseteq replica'[d]
      PROVE  Informed(d)'
  <2>1. Informed(d)
    BY <1>1, <1>3
  <2>2. Says(d, "step1", up) => Says(d, "step1", up)'
    BY <1>3, SaysAfterSending
  <2> QED
    BY <1>1, <1>3, <2>1, <2>2, StaysInformed
<1>4. ASSUME NEW e \in Documents, Attach(e)
      PROVE  Informed(d)'
  <2>1. Token(e) \in Frame /\ Step1(e, replica[e]) \in Frame
    BY FrameTypes DEF Wires
  <2>2. Range(up') = Range(up) \cup {Token(e), Step1(e, replica[e])}
    BY <1>2, <1>4, <2>1, RangePair DEF Wires, Attach, Hello
  <2>3. CASE e = d
    <3>1. Step1(e, replica[e]).doc = d /\ Step1(e, replica[e]).kind = "step1"
      BY <2>3 DEF Step1
    <3>2. Says(d, "step1", up')
      BY <2>2, <3>1, SaysElements DEF Wires
    <3> QED
      BY <3>2 DEF Informed
  <2>4. CASE e # d
    BY <1>3, <1>4, <2>2, <2>4 DEF Attach
  <2> QED
    BY <2>3, <2>4
<1>5. ASSUME NEW e \in Documents, Detach(e)
      PROVE  Informed(d)'
  <2>1. Range(up') = Range(up) \cup {Close(e)}
    BY <1>2, <1>5, FrameTypes, RangeAppend DEF Wires, Detach
  <2> QED
    BY <1>3, <1>5, <2>1 DEF Detach
<1>6. ASSUME NEW e \in Documents, NEW u \in Updates, Edit(e, u)
      PROVE  Informed(d)'
  <2>1. Range(up') = Range(up) \cup {Update(e, {u})}
    <3>1. Update(e, {u}) \in Frame
      BY FrameTypes
    <3> QED
      BY <1>2, <1>6, <3>1, RangeAppend DEF Wires, Edit
  <2>2. replica[d] \subseteq replica'[d]
    BY <1>1, <1>6 DEF Wires, Edit
  <2> QED
    BY <1>3, <1>6, <2>1, <2>2 DEF Edit
<1>7. ASSUME Receive
      PROVE  Informed(d)'
  <2> DEFINE frame == Head(down)
             e == frame.doc
  <2>1. /\ frame \in Frame /\ e \in Documents /\ frame.content \in SUBSET Updates
        /\ Range(down) = {frame} \cup Range(down')
        /\ d \in wanted
    BY <1>7, RangeTail, FrameFields DEF Receive, Wires
  <2>2. /\ replica' = IF e \in wanted /\ frame.kind = "update"
                      THEN [replica EXCEPT ![e] = @ \cup frame.content] ELSE replica
        /\ \/ up' = up
           \/ up' = Append(up, Update(e, replica[e] \ frame.content))
    BY <1>7 DEF Receive
  <2>3. Range(up) \subseteq Range(up')
    <3> DEFINE f == Update(e, replica[e] \ frame.content)
    <3>1. f \in Frame
      BY <2>1, FrameTypes DEF Wires
    <3>2. up' = up \/ up' = Append(up, f)
      BY <2>2
    <3> HIDE DEF frame, e, f
    <3>3. Range(Append(up, f)) = Range(up) \cup {f}
      BY <3>1, RangeAppend DEF Wires
    <3> QED
      BY <3>2, <3>3
  <2>4. Says(d, "step1", up) => Says(d, "step1", up)'
    BY <2>3, SaysAfterSending
  <2> HIDE DEF frame
  <2>5. /\ replica[d] \subseteq replica'[d]
        /\ e = d /\ frame.kind = "update" => frame.content \subseteq replica'[d]
    BY <1>1, <2>1, <2>2 DEF Wires
  <2> HIDE DEF e
  <2>6. ASSUME NEW u, u \in Coming(d)
        PROVE  (u \in Coming(d))'
    <3>1. (u \in Coming(d))' <=> \/ u \in replica'[d]
                                 \/ u \in Carried(d, down')
                                 \/ u \in Carried(d, outbox')
                                 \/ Held(d, u)'
      BY DEF Coming, Held, Range
    <3>2. CASE u \in Carried(d, down)
      <4>1. PICK f \in Range(down) : f.doc = d /\ f.kind = "update" /\ u \in f.content
        BY <3>2, CarriedElements DEF Wires
      <4>2. CASE f = frame
        <5>1. e = d
          BY <4>1, <4>2 DEF e
        <5> QED
          BY <2>5, <3>1, <4>1, <4>2, <5>1
      <4>3. CASE f \in Range(down')
        <5>1. u \in Carried(d, down')
          BY <4>1, <4>3, CarriedElements DEF Wires
        <5> QED
          BY <3>1, <5>1
      <4> QED
        BY <2>1, <4>1, <4>2, <4>3
    <3>3. CASE u \in replica[d]
      BY <2>5, <3>1, <3>3
    <3>4. CASE u \in Carried(d, outbox)
      BY <1>1, <3>1, <3>4
    <3>5. CASE Held(d, u)
      <4>1. Held(d, u)'
        BY <1>1, <3>5 DEF Held
      <4> QED
        BY <3>1, <4>1
    <3> QED
      BY <2>6, <3>2, <3>3, <3>4, <3>5, ComingElements
  <2>7. Informed(d)
    BY <1>1, <2>1
  <2>8. CASE session[d].lagged \/ ToldToReconnect \/ Says(d, "step1", up)
    BY <1>1, <2>4, <2>8 DEF Informed, ToldToReconnect
  <2>9. CASE InRoom(d).doc \subseteq Coming(d)
    BY <1>1, <2>6, <2>9 DEF Informed
  <2> QED
    BY <2>7, <2>8, <2>9 DEF Informed
<1> QED
  BY <1>2, <1>4, <1>5, <1>6, <1>7 DEF Client, Connect

\* A broadcast in the document's room, of what the room got, or in another one.
LEMMA MissedByBroadcast ==
    ASSUME Wires, Wires', Places, NEW e \in Documents, NEW r \in DOMAIN rooms[e],
           NEW m \in Fanout, session' = Broadcast(e, r, m),
           NEW X \in SUBSET Updates, rooms' = Grown(e, r, X),
           X \subseteq m.content, m.kind = "own" => m.content \subseteq replica[e],
           replica' = replica, down' = down, outbox' = outbox,
           NEW d \in Documents, Informed(d), Listening(d)',
           Says(d, "step1", up) => Says(d, "step1", up)'
    PROVE  Informed(d)'
<1> DEFINE q == session[d].room
<1>1. /\ SessionsTyped(session) /\ RoomsTyped(rooms)
      /\ SessionsTyped(session')
      /\ session'[d].at = session[d].at
      /\ session'[d].room = q
      /\ session'[d].forward = session[d].forward
      /\ session[d].lagged => session'[d].lagged
      /\ session'[d].lagged \/ Range(session[d].queue) \subseteq Range(session'[d].queue)
      /\ (Open(e) /\ session[e].room = r /\ session[e].forward # "done") =>
            session'[e].lagged \/ m \in Range(session'[e].queue)
  BY BroadcastProperties DEF Places
<1>2. Open(d) /\ session[d].forward = "recv" /\ q \in DOMAIN rooms[d]
  BY <1>1 DEF Listening, Open, Places
<1>3. /\ rooms[d][q].doc \subseteq rooms'[d][q].doc
      /\ rooms'[d][q].doc \subseteq rooms[d][q].doc \cup X
      /\ ~(d = e /\ q = r) => rooms'[d][q].doc = rooms[d][q].doc
  BY <1>1, <1>2, GrownDocs
<1>4. InRoom(d).doc = rooms[d][q].doc /\ InRoom(d)'.doc = rooms'[d][q].doc
  BY <1>1 DEF InRoom
<1> HIDE DEF q
<1>5. CASE ~(d = e /\ q = r)
  BY <1>1, <1>3, <1>4, <1>5, StaysInformed
<1>6. CASE d = e /\ q = r
  <2>1. CASE session'[d].lagged
    BY <2>1 DEF Informed
  <2>2. CASE ToldToReconnect \/ Says(d, "step1", up)
    BY <2>2 DEF Informed, ToldToReconnect
  <2>3. CASE ~session'[d].lagged /\ InRoom(d).doc \subseteq Coming(d)
    <3>1. /\ m \in Range(session'[d].queue)
          /\ Range(session[d].queue) \subseteq Range(session'[d].queue)
      BY <1>1, <1>2, <1>6, <2>3 DEF q
    <3>2. ASSUME NEW u
          PROVE  (u \in Coming(d))' <=> \/ u \in replica[d]
                                        \/ u \in Carried(d, down)
                                        \/ u \in Carried(d, outbox)
                                        \/ Held(d, u)'
      BY DEF Coming, Held, Range
    <3>3. ASSUME NEW u, u \in Coming(d)
          PROVE  (u \in Coming(d))'
      <4>1. Held(d, u) => Held(d, u)'
        BY <3>1 DEF Held
      <4> QED
        BY <3>2, <3>3, <4>1, ComingElements
    <3>4. ASSUME NEW u, u \in X
          PROVE  (u \in Coming(d))'
      <4>1. u \in m.content
        BY <3>4
      <4>2. CASE m.kind = "own"
        BY <1>6, <3>2, <4>1, <4>2
      <4>3. CASE m.kind # "own"
        <5>1. Held(d, u)'
          BY <3>1, <4>1, <4>3 DEF Held
        <5> QED
          BY <3>2, <5>1
      <4> QED
        BY <4>2, <4>3
    <3>5. InRoom(d)'.doc \subseteq InRoom(d).doc \cup X
      BY <1>3, <1>4
    <3> QED
      BY <2>3, <3>3, <3>4, <3>5 DEF Informed
  <2> QED
    BY <1>1, <2>1, <2>2, <2>3 DEF Informed
<1> QED
  BY <1>5, <1>6

\* Steps of other peers.
LEMMA MissedByOthers ==
    ASSUME Wires, Wires', Places, Elsewhere, NothingMissed,
           NEW d \in wanted', Listening(d)'
    PROVE  Informed(d)'
<1>1. /\ replica' = replica /\ down' = down /\ outbox' = outbox /\ up' = up /\ wanted' = wanted
      /\ d \in Documents /\ (Says(d, "step1", up) => Says(d, "step1", up)')
      /\ RoomsTyped(rooms) /\ SessionsTyped(session)
  <2>1. replica' = replica /\ down' = down /\ outbox' = outbox /\ up' = up /\ wanted' = wanted
    BY DEF Elsewhere, Noise, Delete, Others
  <2> QED
    BY <2>1 DEF Wires, Places
<1>2. ASSUME NEW e \in Documents, NEW r, NEW m \in Fanout, session' = Broadcast(e, r, m)
      PROVE  /\ Listening(d) /\ Informed(d)
             /\ session'[d].room = session[d].room
             /\ session[d].lagged => session'[d].lagged
             /\ session'[d].lagged \/ Range(session[d].queue) \subseteq Range(session'[d].queue)
  <2>1. /\ session'[d].at = session[d].at
        /\ session'[d].room = session[d].room
        /\ session'[d].forward = session[d].forward
        /\ session[d].lagged => session'[d].lagged
        /\ session'[d].lagged \/ Range(session[d].queue) \subseteq Range(session'[d].queue)
    BY <1>1, <1>2, BroadcastProperties
  <2>2. Listening(d)
    BY <2>1 DEF Listening, Open
  <2>3. Informed(d)
    BY <1>1, <2>2 DEF NothingMissed, Listening, Informed
  <2> QED
    BY <2>1, <2>2, <2>3
<1>3. ASSUME NEW e \in Documents, Noise(e)
      PROVE  Informed(d)'
  <2> DEFINE m == [kind |-> "other", content |-> {}]
  <2>1. m \in Fanout /\ session' = Broadcast(e, Registered(e), m) /\ rooms' = rooms
    BY <1>3, FanoutTypes DEF Noise
  <2> HIDE DEF m
  <2>2. /\ Informed(d)
        /\ session'[d].room = session[d].room
        /\ session[d].lagged => session'[d].lagged
        /\ session'[d].lagged \/ Range(session[d].queue) \subseteq Range(session'[d].queue)
    BY <1>2, <2>1
  <2>3. InRoom(d)'.doc = InRoom(d).doc
    BY <2>1, <2>2 DEF InRoom
  <2> QED
    BY <1>1, <2>2, <2>3, StaysInformed
<1>4. ASSUME NEW e \in Documents, Delete(e)
      PROVE  Informed(d)'
  <2> DEFINE m == [kind |-> "closed", content |-> {}]
  <2>1. m \in Fanout /\ session' = Broadcast(e, Registered(e), m)
    BY <1>4, FanoutTypes DEF Delete
  <2> HIDE DEF m
  <2>2. /\ Listening(d) /\ Informed(d)
        /\ session'[d].room = session[d].room
        /\ session[d].lagged => session'[d].lagged
        /\ session'[d].lagged \/ Range(session[d].queue) \subseteq Range(session'[d].queue)
    BY <1>2, <2>1
  <2>3. InRoom(d)'.doc = InRoom(d).doc
    <3>1. session[d].room \in DOMAIN rooms[d] /\ rooms[d] \in Seq(RoomState)
      BY <1>1, <2>2, RoomFields DEF Listening, Places
    <3>2. rooms'[d] = rooms[d] \/ rooms'[d] = Append(rooms[d], [doc |-> {}, peers |-> 0])
      BY <1>1, <1>4 DEF Delete, RoomsTyped
    <3>3. rooms'[d][session[d].room] = rooms[d][session[d].room]
      BY <3>1, <3>2, AppendProperties, LenProperties DEF RoomState
    <3> QED
      BY <2>2, <3>3 DEF InRoom
  <2> QED
    BY <1>1, <2>2, <2>3, StaysInformed
<1>5. ASSUME NEW e \in Documents, NEW u \in Updates, Others(e, u)
      PROVE  Informed(d)'
  <2> DEFINE m == [kind |-> "other", content |-> {u}]
  <2>1. /\ m \in Fanout /\ m.content = {u} /\ m.kind # "own"
        /\ session' = Broadcast(e, Registered(e), m)
        /\ rooms' = Grown(e, Registered(e), {u})
    BY <1>5, FanoutTypes DEF Others, Grown
  <2>2. Registered(e) \in DOMAIN rooms[e]
    BY <1>1, RoomFields DEF Registered
  <2> HIDE DEF m
  <2>3. Informed(d)
    BY <1>2, <2>1
  <2> QED
    BY <1>1, <2>1, <2>2, <2>3, MissedByBroadcast
<1> QED
  BY <1>3, <1>4, <1>5 DEF Elsewhere

\* A document whose session and room a step leaves alone.
LEMMA MissedByNone ==
    ASSUME Wires, Wires', NothingMissed, wanted' = wanted, replica' = replica,
           NEW d \in wanted', Listening(d)',
           session'[d] = session[d], InRoom(d)'.doc = InRoom(d).doc,
           Range(down) \subseteq Range(down'), Range(outbox) \subseteq Range(outbox'),
           Says(d, "step1", up) => Says(d, "step1", up)'
    PROVE  Informed(d)'
<1>1. d \in Documents /\ Listening(d)
  BY DEF Wires, Listening, Open
<1>2. Informed(d)
  BY <1>1 DEF NothingMissed, Listening, Informed
<1> QED
  BY <1>1, <1>2, Undisturbed

\* A document that joins its room after its token was read.
LEMMA TokenBeforeStep1 ==
    ASSUME Wires, HelloOrder, NEW d \in Documents, Reads(d, "token")
    PROVE  Says(d, "step1", up)'
<1>1. /\ up # <<>> /\ up[1].doc = d /\ up[1].kind = "token" /\ up' = Tail(up)
      /\ up \in Seq(Frame) /\ Len(up) \in Nat \ {0}
  BY EmptySeq DEF Wires, Reads
<1>2. 2 \in 1..Len(up) /\ up[2].kind = "step1" /\ up[2].doc = d
  <2>1. 1 \in 1..Len(up)
    BY <1>1
  <2>2. 1 + 1 \in 1..Len(up) /\ up[1 + 1].kind = "step1" /\ up[1 + 1].doc = d
    BY <1>1, <2>1 DEF HelloOrder
  <2> QED
    BY <2>2
<1>3. /\ Len(Tail(up)) = Len(up) - 1
      /\ \A i \in 1..Len(Tail(up)) : Tail(up)[i] = up[i + 1]
      /\ Tail(up) \in Seq(Frame)
  BY <1>1, HeadTailProperties
<1>4. 1 \in DOMAIN Tail(up) /\ Tail(up)[1] = up[2]
  BY <1>1, <1>2, <1>3, LenProperties
<1>5. Says(d, "step1", Tail(up))
  BY <1>2, <1>4 DEF Says
<1> QED
  BY <1>1, <1>5

\* Steps of the connection's task.
LEMMA MissedByTask ==
    ASSUME Wires, Wires', Places, PeersAreOpen, ClientHolds, HelloOrder, NothingMissed, Task,
           NEW d \in wanted', Listening(d)'
    PROVE  Informed(d)'
<1>0. /\ SessionsTyped(session) /\ RoomsTyped(rooms) /\ d \in Documents
      /\ replica \in [Documents -> SUBSET Updates]
  BY DEF Places, Wires
<1>1. wanted' = wanted /\ replica' = replica
  BY DEF Task, Authenticate, Deny, Pause, AnswerStep1, ApplyUpdate, CloseDocument, Recheck,
         Outgoing, Ping, Drop
<1>2. ~End
  BY <1>0 DEF End, None, Listening, Open
\* A frame of e that is no step 1 of d is read, and d is left alone.
<1>3. ASSUME NEW e \in Documents, NEW kind, Reads(e, kind), kind # "step1" \/ e # d,
             session'[d] = session[d], InRoom(d)'.doc = InRoom(d).doc,
             Range(down) \subseteq Range(down'), outbox' = outbox
      PROVE  Informed(d)'
  BY <1>0, <1>1, <1>3, SaysAfterReading, MissedByNone
\* The document opens, or another one does.
<1>4. ASSUME NEW e \in Documents, session' = JoinedSession(e), rooms' = JoinedRooms(e), e # d
      PROVE  session'[d] = session[d] /\ InRoom(d)'.doc = InRoom(d).doc
  <2>1. session'[d] = session[d]
    BY <1>0, <1>4, OpenedType
  <2>2. session[d].room \in DOMAIN rooms[d]
    BY <2>1, <1>0 DEF Places, Listening, Open
  <2>3. \A i \in DOMAIN rooms[d] : JoinedRooms(e)[d][i].doc = rooms[d][i].doc
    BY <1>0, JoinedRoomsProperties
  <2> QED
    BY <1>4, <2>1, <2>2, <2>3 DEF InRoom
<1>5. ASSUME NEW e \in Documents, Authenticate(e)
      PROVE  Informed(d)'
  <2>1. /\ Reads(e, "token") /\ outbox' = outbox
        /\ \/ UNCHANGED <<session, rooms, down>>
           \/ UNCHANGED <<session, rooms>> /\ down' = Append(down, Denied(e))
           \/ session' = JoinedSession(e) /\ rooms' = JoinedRooms(e) /\ down' = down
    BY <1>5 DEF Authenticate
  <2>2. Range(down) \subseteq Range(down')
    <3>1. Denied(e) \in Frame
      BY FrameTypes
    <3>2. Range(Append(down, Denied(e))) = Range(down) \cup {Denied(e)}
      BY <3>1, RangeAppend DEF Wires
    <3> QED
      BY <2>1, <3>2
  <2>3. CASE session' = session /\ rooms' = rooms
    <3>1. session'[d] = session[d] /\ InRoom(d)'.doc = InRoom(d).doc
      BY <2>3 DEF InRoom
    <3> QED
      BY <1>3, <2>1, <2>2, <3>1
  <2>4. CASE session' = JoinedSession(e) /\ rooms' = JoinedRooms(e)
    <3>1. CASE e = d
      BY <2>1, <3>1, TokenBeforeStep1 DEF Informed
    <3>2. CASE e # d
      <4>1. session'[d] = session[d] /\ InRoom(d)'.doc = InRoom(d).doc
        BY <1>4, <2>4, <3>2
      <4> QED
        BY <1>3, <2>1, <2>2, <4>1
    <3> QED
      BY <3>1, <3>2
  <2> QED
    BY <2>1, <2>3, <2>4
<1>6. ASSUME NEW e \in Documents, Deny(e)
      PROVE  Informed(d)'
  <2>1. /\ Reads(e, "token") /\ outbox' = outbox /\ session' = session /\ rooms' = rooms
        /\ down' = Append(down, Denied(e))
    BY <1>6 DEF Deny
  <2>2. Range(down) \subseteq Range(down')
    BY <2>1, FrameTypes, RangeAppend DEF Wires
  <2>3. session'[d] = session[d] /\ InRoom(d)'.doc = InRoom(d).doc
    BY <2>1 DEF InRoom
  <2> QED
    BY <1>3, <2>1, <2>2, <2>3
<1>7. ASSUME NEW e \in Documents, Pause(e)
      PROVE  Informed(d)'
  <2>1. /\ Reads(e, "token") /\ outbox' = outbox /\ rooms' = rooms /\ down' = down
        /\ session' = [session EXCEPT ![e].at = "paused"]
    BY <1>7 DEF Pause
  <2>2. e # d
    BY <1>0, <2>1 DEF Listening, Open, SessionsTyped, SessionState
  <2>3. session'[d] = session[d] /\ InRoom(d)'.doc = InRoom(d).doc
    BY <1>0, <2>1, <2>2 DEF InRoom, SessionsTyped
  <2> QED
    BY <1>3, <2>1, <2>3
<1>8. ASSUME NEW e \in Documents, AnswerStep1(e)
      PROVE  Informed(d)'
  <2>1. Reads(e, "step1") /\ outbox' = outbox /\ session' = session /\ rooms' = rooms
    BY <1>8 DEF AnswerStep1
  <2>2. session'[d] = session[d] /\ InRoom(d)'.doc = InRoom(d).doc
    BY <2>1 DEF InRoom
  <2> DEFINE doc == InRoom(e).doc
             missing == doc \ Head(up).content
  <2>3. /\ Open(e) => doc \in SUBSET Updates
        /\ down' = IF Open(e) THEN down \o <<Update(e, missing), Step1(e, doc)>> ELSE down
    BY <1>8, InRoomType DEF AnswerStep1
  <2> HIDE DEF doc
  <2>4. Range(down') = IF Open(e)
                       THEN Range(down) \cup {Update(e, missing), Step1(e, doc)}
                       ELSE Range(down)
    <3>1. CASE Open(e)
      <4>1. missing \in SUBSET Updates
        BY <2>3, <3>1
      <4> HIDE DEF missing
      <4>2. Update(e, missing) \in Frame /\ Step1(e, doc) \in Frame
        BY <2>3, <3>1, <4>1, FrameTypes
      <4> QED
        BY <2>3, <3>1, <4>2, RangePair DEF Wires
    <3>2. CASE ~Open(e)
      BY <2>3, <3>2
    <3> QED
      BY <3>1, <3>2
  <2>5. CASE e # d
    BY <1>3, <2>1, <2>2, <2>4, <2>5
  <2>6. CASE e = d
    <3>1. Open(e)
      BY <2>1, <2>6 DEF Listening, Open
    <3>2. Head(up).content \subseteq replica[d]
      <4>1. /\ Head(up).doc = d /\ Head(up).kind = "step1"
            /\ Head(up) \in Range(up)
        BY <2>1, <2>6, ReadsProperties
      <4> QED
        BY <4>1 DEF ClientHolds
    <3>3. ASSUME NEW u \in doc
          PROVE  (u \in Coming(d))'
      <4>1. CASE u \in Head(up).content
        BY <1>1, <3>2, <4>1 DEF Coming
      <4>2. CASE u \in missing
        <5>1. /\ Update(e, missing) \in Range(down')
              /\ Update(e, missing).doc = d
              /\ Update(e, missing).kind = "update"
              /\ u \in Update(e, missing).content
          BY <2>4, <2>6, <3>1, <4>2 DEF Update
        <5>2. u \in Carried(d, down')
          BY <5>1, CarriedElements DEF Wires
        <5> QED
          BY <5>2 DEF Coming
      <4> QED
        BY <4>1, <4>2
    <3>4. InRoom(d)'.doc = doc
      BY <2>2, <2>6 DEF doc
    <3> QED
      BY <3>3, <3>4 DEF Informed
  <2> QED
    BY <2>5, <2>6
<1>9. ASSUME NEW e \in Documents, ApplyUpdate(e)
      PROVE  Informed(d)'
  <2>1. /\ Reads(e, "update") /\ outbox' = outbox /\ down' = down
        /\ Head(up).content \in SUBSET Updates
        /\ Head(up) \in Range(up) /\ Head(up).doc = e /\ Head(up).kind = "update"
    BY <1>9, ReadsProperties DEF ApplyUpdate
\* A session that stays where it is was listening before.
  <2>0. ASSUME session'[d].at = session[d].at, session'[d].forward = session[d].forward
        PROVE  Informed(d) /\ (Says(d, "step1", up) => Says(d, "step1", up)')
    <3>1. Listening(d) /\ (Says(d, "step1", up) => Says(d, "step1", up)')
      BY <2>0, <2>1, SaysAfterReading DEF Listening, Open
    <3> QED
      BY <1>1, <3>1 DEF NothingMissed, Listening, Informed
  <2>2. CASE session' = session /\ rooms' = rooms
    <3>1. session'[d] = session[d] /\ InRoom(d)'.doc = InRoom(d).doc
      BY <2>2 DEF InRoom
    <3> QED
      BY <1>3, <2>1, <3>1
  <2>3. CASE session' = Refusing(e, Head(up).content) /\ rooms' = rooms
    <3>1. /\ session'[d].at = session[d].at
          /\ session'[d].room = session[d].room
          /\ session'[d].queue = session[d].queue
          /\ session'[d].lagged = session[d].lagged
          /\ session'[d].forward = session[d].forward
      BY <1>0, <2>1, <2>3, RefusingProperties
    <3>2. InRoom(d)'.doc = InRoom(d).doc
      BY <2>3, <3>1 DEF InRoom
    <3>3. Informed(d) /\ (Says(d, "step1", up) => Says(d, "step1", up)')
      BY <2>0, <3>1
    <3> QED
      BY <1>0, <1>1, <2>1, <3>1, <3>2, <3>3, StaysInformed
  <2>4. ASSUME NEW delta \in SUBSET Head(up).content,
               session[e].room \in DOMAIN rooms[e],
               [kind |-> "own", content |-> delta] \in Fanout,
               rooms' = Grown(e, session[e].room, delta),
               session' = Broadcast(e, session[e].room, [kind |-> "own", content |-> delta])
        PROVE  Informed(d)'
    <3> DEFINE m == [kind |-> "own", content |-> delta]
    <3>1. delta \in SUBSET Updates /\ delta \subseteq replica[e]
      BY <2>1 DEF ClientHolds
    <3>2. m \in Fanout /\ m.content = delta /\ session' = Broadcast(e, session[e].room, m)
      BY <2>4
    <3> HIDE DEF m
    <3>3. session'[d].at = session[d].at /\ session'[d].forward = session[d].forward
      BY <1>0, <3>2, BroadcastProperties
    <3>4. Informed(d) /\ (Says(d, "step1", up) => Says(d, "step1", up)')
      BY <2>0, <3>3
    <3> QED
      BY <1>0, <1>1, <2>1, <2>4, <3>1, <3>2, <3>4, MissedByBroadcast
  <2> QED
    BY <1>9, <2>2, <2>3, <2>4, Applying
<1>10. ASSUME NEW e \in Documents, CloseDocument(e)
       PROVE  Informed(d)'
  <2>1. /\ Reads(e, "close") /\ outbox' = outbox /\ down' = down
        /\ rooms' = LeftRooms({e})
        /\ session' = IF Open(e) THEN [session EXCEPT ![e] = None] ELSE session
    BY <1>10 DEF CloseDocument
  <2>2. session'[d] = session[d]
    BY <1>0, <2>1 DEF Listening, Open, None, SessionsTyped
  <2>3. session[d].room \in DOMAIN rooms[d]
    BY <1>0, <2>2 DEF Places, Listening, Open
  <2>4. \A i \in DOMAIN rooms[d] : LeftRooms({e})[d][i].doc = rooms[d][i].doc
    BY <1>0, LeftRoomsProperties
  <2>5. InRoom(d)'.doc = InRoom(d).doc
    BY <2>1, <2>2, <2>3, <2>4 DEF InRoom
  <2> QED
    BY <1>3, <2>1, <2>2, <2>5
<1>11. ASSUME NEW e \in Documents, Recheck(e)
       PROVE  Informed(d)'
  <2> DEFINE doc == rooms[e][Registered(e)].doc
  <2>1. /\ up' = up /\ outbox' = outbox /\ session' = JoinedSession(e) /\ rooms' = JoinedRooms(e)
        /\ down' = down \o <<Step1(e, doc), Update(e, doc)>>
        /\ Registered(e) \in DOMAIN rooms[e] /\ doc \in SUBSET Updates
    BY <1>0, <1>11, RoomFields DEF Recheck, Registered
  <2> HIDE DEF doc
  <2>2. Range(down') = Range(down) \cup {Step1(e, doc), Update(e, doc)}
    <3>1. Step1(e, doc) \in Frame /\ Update(e, doc) \in Frame
      BY <2>1, FrameTypes
    <3> QED
      BY <2>1, <3>1, RangePair DEF Wires
  <2>3. CASE e # d
    <3>1. session'[d] = session[d] /\ InRoom(d)'.doc = InRoom(d).doc
      BY <1>4, <2>1, <2>3
    <3> QED
      BY <1>0, <1>1, <2>1, <2>2, <3>1, MissedByNone
  <2>4. CASE e = d
    <3>1. session'[d].room = Registered(d)
      <4>1. session'[d] = Opened(Registered(d))
        BY <2>1, <2>4, OpenedType
      <4> QED
        BY <4>1 DEF Opened
    <3>2. InRoom(d)'.doc = doc
      <4>1. \A i \in DOMAIN rooms[d] : JoinedRooms(d)[d][i].doc = rooms[d][i].doc
        BY <1>0, JoinedRoomsProperties
      <4> QED
        BY <2>1, <2>4, <3>1, <4>1 DEF InRoom, doc
    <3>3. ASSUME NEW u \in doc
          PROVE  (u \in Coming(d))'
      <4>1. /\ Update(e, doc) \in Range(down')
            /\ Update(e, doc).doc = d
            /\ Update(e, doc).kind = "update"
            /\ u \in Update(e, doc).content
        BY <2>2, <2>4 DEF Update
      <4>2. u \in Carried(d, down')
        BY <4>1, CarriedElements DEF Wires
      <4> QED
        BY <4>2 DEF Coming
    <3> QED
      BY <3>2, <3>3 DEF Informed
  <2> QED
    BY <2>3, <2>4
<1>12. ASSUME Outgoing
       PROVE  Informed(d)'
  <2>1. /\ down' = Append(down, Head(outbox)) /\ outbox' = Tail(outbox) /\ outbox # <<>>
        /\ Head(outbox).kind # "lagged"
        /\ up' = up /\ session' = session /\ rooms' = rooms
    BY <1>2, <1>12 DEF Outgoing
  <2>2. /\ Head(outbox) \in Frame
        /\ Range(outbox) = {Head(outbox)} \cup Range(outbox')
    BY <2>1, RangeTail DEF Wires
  <2>3. Range(down') = Range(down) \cup {Head(outbox)}
    BY <2>1, <2>2, RangeAppend DEF Wires
  <2>4. Informed(d)
    BY <1>1, <2>1 DEF NothingMissed, Listening, Open, Informed
  <2>5. CASE session[d].lagged \/ Says(d, "step1", up)
    BY <2>1, <2>5 DEF Informed
  <2>6. CASE ToldToReconnect
    <3>1. \E f \in Range(outbox) : f.kind = "lagged"
      BY <2>6 DEF ToldToReconnect, Range
    <3>2. \E f \in Range(outbox') : f.kind = "lagged"
      BY <2>1, <2>2, <3>1
    <3>3. ToldToReconnect'
      BY <3>2 DEF ToldToReconnect, Range
    <3> QED
      BY <3>3 DEF Informed
  <2>7. CASE InRoom(d).doc \subseteq Coming(d)
    <3>1. ASSUME NEW u, u \in Coming(d)
          PROVE  (u \in Coming(d))'
      <4>1. (u \in Coming(d))' <=> \/ u \in replica[d]
                                   \/ u \in Carried(d, down')
                                   \/ u \in Carried(d, outbox')
                                   \/ Held(d, u)
        BY <1>1, <2>1 DEF Coming, Held, Range
      <4>2. CASE u \in Carried(d, down)
        <5>1. u \in Carried(d, down')
          BY <2>3, <4>2, CarriedElements DEF Wires
        <5> QED
          BY <4>1, <5>1
      <4>3. CASE u \in Carried(d, outbox)
        <5>1. \E f \in Range(outbox) : f.doc = d /\ f.kind = "update" /\ u \in f.content
          BY <4>3, CarriedElements DEF Wires
        <5>2. \E f \in Range(outbox') \cup Range(down') :
                 f.doc = d /\ f.kind = "update" /\ u \in f.content
          BY <2>2, <2>3, <5>1
        <5>3. u \in Carried(d, outbox') \/ u \in Carried(d, down')
          BY <5>2, CarriedElements DEF Wires
        <5> QED
          BY <4>1, <5>3
      <4> QED
        BY <3>1, <4>1, <4>2, <4>3, ComingElements
    <3> QED
      BY <2>1, <2>7, <3>1 DEF Informed, InRoom
  <2> QED
    BY <2>4, <2>5, <2>6, <2>7 DEF Informed
<1> QED
  BY <1>2, <1>5, <1>6, <1>7, <1>8, <1>9, <1>10, <1>11, <1>12 DEF Task, Ping, Drop

\* The head of a receiver's queue and the rest of it.
LEMMA QueueParts ==
    ASSUME SessionsTyped(session), NEW d \in Documents, session[d].queue # <<>>
    PROVE  /\ Head(session[d].queue) \in Fanout
           /\ Range(session[d].queue) =
                  {Head(session[d].queue)} \cup Range(Tail(session[d].queue))
<1> DEFINE q == session[d].queue
<1>1. q \in Seq(Fanout) /\ q # <<>>
  BY DEF SessionsTyped, SessionState
<1> HIDE DEF q
<1>2. Head(q) \in Fanout /\ Range(q) = {Head(q)} \cup Range(Tail(q))
  BY <1>1, RangeTail
<1> QED
  BY <1>2 DEF q

\* What a forwarder that is heard after its step did.
LEMMA ForwarderSteps ==
    ASSUME Wires, Places, NEW e \in Documents, Forwarder(e)
    PROVE  /\ UNCHANGED <<wanted, replica, up, down, rooms>>
           /\ Range(outbox) \subseteq Range(outbox')
           /\ \A d \in Documents \ {e} : session'[d] = session[d]
           /\ session'[e].at = session[e].at /\ session'[e].room = session[e].room
           /\ session'[e].refused = session[e].refused
           /\ Listening(e)' =>
                \/ \E f \in Range(outbox') : f.kind = "lagged"
                \/ LET m == Head(session[e].queue)
                   IN /\ session[e].queue # <<>>
                      /\ session[e].forward = "recv" /\ ~session[e].lagged
                      /\ session'[e].queue = Tail(session[e].queue)
                      /\ m.kind = "other" => Update(e, m.content) \in Range(outbox')
<1>0. /\ session \in [Documents -> SessionState] /\ SessionsTyped(session)
      /\ outbox \in Seq(Frame)
  BY DEF Places, SessionsTyped, Wires
<1>1. CASE ForwardLag(e)
  <2> DEFINE told == Lagged(e)
             s == [session[e] EXCEPT !.lagged = FALSE]
             r == [session[e] EXCEPT !.lagged = FALSE, !.forward = "retry"]
  <2>1. /\ UNCHANGED <<wanted, replica, up, down, rooms>>
        /\ \/ outbox' = Append(outbox, told) /\ session' = [session EXCEPT ![e] = s]
           \/ outbox' = outbox /\ session' = [session EXCEPT ![e] = r]
    BY <1>0, <1>1 DEF ForwardLag
  <2>2. told \in Frame /\ told.kind = "lagged"
    BY FrameTypes DEF Lagged
  <2>3. /\ s.at = session[e].at /\ s.room = session[e].room
        /\ r.at = session[e].at /\ r.room = session[e].room /\ r.forward = "retry"
        /\ s.refused = session[e].refused /\ r.refused = session[e].refused
    BY <1>0 DEF SessionState
  <2> HIDE DEF told, s, r
  <2>4. Range(Append(outbox, told)) = Range(outbox) \cup {told}
    BY <1>0, <2>2, RangeAppend
  <2>5. CASE outbox' = Append(outbox, told) /\ session' = [session EXCEPT ![e] = s]
    BY <1>0, <2>1, <2>2, <2>3, <2>4, <2>5
  <2>6. CASE outbox' = outbox /\ session' = [session EXCEPT ![e] = r]
    <3>1. session'[e] = r /\ \A d \in Documents \ {e} : session'[d] = session[d]
      BY <1>0, <2>6
    <3>2. ~Listening(e)'
      BY <2>3, <3>1 DEF Listening
    <3> QED
      BY <2>1, <2>3, <2>6, <3>1, <3>2
  <2> QED
    BY <2>1, <2>5, <2>6
<1>2. CASE Forward(e)
  <2> DEFINE m == Head(session[e].queue)
             out == IF m.kind = "closed" THEN Denied(e) ELSE Update(e, m.content)
             rest == Tail(session[e].queue)
             next == IF m.kind # "own" /\ Len(outbox) >= OutboxCapacity
                     THEN "retry" ELSE "recv"
             s == [session[e] EXCEPT !.queue = rest, !.forward = next]
  <2>1. /\ UNCHANGED <<wanted, replica, up, down, rooms>>
        /\ session[e].queue # <<>>
        /\ session[e].forward = "recv" /\ ~session[e].lagged
        /\ outbox' = IF m.kind # "own" /\ ~(Len(outbox) >= OutboxCapacity)
                     THEN Append(outbox, out) ELSE outbox
        /\ session' = [session EXCEPT ![e] = s]
    BY <1>0, <1>2 DEF Forward
  <2>2. m \in Fanout
    BY <1>0, <2>1, QueueParts
  <2>3. out \in Frame /\ (m.kind = "other" => out = Update(e, m.content))
    <3>1. m.content \in SUBSET Updates
      BY <2>2 DEF Fanout
    <3> HIDE DEF m
    <3>2. Denied(e) \in Frame /\ Update(e, m.content) \in Frame
      BY <3>1, FrameTypes
    <3> QED
      BY <3>2
  <2>4. /\ s.at = session[e].at /\ s.room = session[e].room
        /\ s.queue = rest /\ s.forward = next /\ s.refused = session[e].refused
    BY <1>0 DEF SessionState
  <2>5. next = "recv" => m.kind = "own" \/ ~(Len(outbox) >= OutboxCapacity)
    OBVIOUS
  <2> HIDE DEF out, s, next
  <2>6. Range(Append(outbox, out)) = Range(outbox) \cup {out}
    BY <1>0, <2>3, RangeAppend
  <2>7. session'[e] = s /\ \A d \in Documents \ {e} : session'[d] = session[d]
    BY <1>0, <2>1
  <2>8. Range(outbox) \subseteq Range(outbox')
    BY <2>1, <2>6
  <2>9. Listening(e)' /\ m.kind = "other" => out \in Range(outbox')
    BY <2>1, <2>4, <2>5, <2>6, <2>7 DEF Listening
  <2> QED
    BY <2>1, <2>3, <2>4, <2>7, <2>8, <2>9
<1>3. CASE Retry(e)
  <2> DEFINE told == Lagged(e)
             s == [session[e] EXCEPT !.forward = "done", !.queue = <<>>, !.lagged = FALSE]
  <2>1. /\ UNCHANGED <<wanted, replica, up, down, rooms>>
        /\ outbox' = Append(outbox, told) \/ outbox' = outbox
        /\ session' = [session EXCEPT ![e] = s]
    BY <1>0, <1>3 DEF Retry
  <2>2. told \in Frame
    BY FrameTypes
  <2>3. /\ s.at = session[e].at /\ s.room = session[e].room /\ s.forward = "done"
        /\ s.refused = session[e].refused
    BY <1>0 DEF SessionState
  <2> HIDE DEF told, s
  <2>4. Range(Append(outbox, told)) = Range(outbox) \cup {told}
    BY <1>0, <2>2, RangeAppend
  <2>5. session'[e] = s /\ \A d \in Documents \ {e} : session'[d] = session[d]
    BY <1>0, <2>1
  <2>6. ~Listening(e)'
    BY <2>3, <2>5 DEF Listening
  <2> QED
    BY <2>1, <2>3, <2>4, <2>5, <2>6
<1> QED
  BY <1>1, <1>2, <1>3 DEF Forwarder

\* Steps of the forwarders.
LEMMA MissedByForwarder ==
    ASSUME Wires, Wires', Places, ClosedIsEmpty, NothingMissed,
           NEW e \in Documents, Forwarder(e), NEW d \in wanted', Listening(d)'
    PROVE  Informed(d)'
<1>1. /\ UNCHANGED <<wanted, replica, up, down, rooms>>
      /\ Range(outbox) \subseteq Range(outbox')
      /\ \A c \in Documents \ {e} : session'[c] = session[c]
      /\ session'[e].at = session[e].at /\ session'[e].room = session[e].room
      /\ d \in Documents
  BY ForwarderSteps DEF Wires
<1>2. InRoom(d)'.doc = InRoom(d).doc
  BY <1>1 DEF InRoom
<1>3. CASE d # e
  <2>1. session'[d] = session[d] /\ (Says(d, "step1", up) => Says(d, "step1", up)')
    BY <1>1, <1>3
  <2> QED
    BY <1>1, <1>2, <2>1, MissedByNone
<1>4. CASE d = e
  <2> DEFINE m == Head(session[d].queue)
  <2>1. CASE \E f \in Range(outbox') : f.kind = "lagged"
    BY <2>1 DEF Informed, ToldToReconnect, Range
  <2>2. CASE /\ session[d].queue # <<>>
             /\ session[d].forward = "recv" /\ ~session[d].lagged
             /\ session'[d].queue = Tail(session[d].queue)
             /\ m.kind = "other" => Update(d, m.content) \in Range(outbox')
    <3>1. /\ m \in Fanout
          /\ Range(session[d].queue) = {m} \cup Range(session'[d].queue)
      BY <1>1, <2>2, QueueParts DEF Places
    <3>2. m.kind = "closed" => m.content = {}
      BY <1>1, <3>1 DEF ClosedIsEmpty
    <3>3. d \in wanted /\ Listening(d)
      BY <1>1, <1>4, <2>2 DEF Listening, Open
    <3> HIDE DEF m
    <3>4. Informed(d)
      BY <3>3 DEF NothingMissed, Listening, Informed
    <3>5. CASE ToldToReconnect \/ Says(d, "step1", up)
      BY <1>1, <3>5 DEF Informed, ToldToReconnect, Range
    <3>6. CASE InRoom(d).doc \subseteq Coming(d)
      <4>1. ASSUME NEW u, u \in Coming(d)
            PROVE  (u \in Coming(d))'
        <5>0. (u \in Coming(d))' <=> \/ u \in replica'[d]
                                     \/ u \in Carried(d, down')
                                     \/ u \in Carried(d, outbox')
                                     \/ Held(d, u)'
          BY DEF Coming, Held, Range
        <5>1. u \in Carried(d, outbox) => u \in Carried(d, outbox')
          BY <1>1, CarriedElements DEF Wires
        <5>2. CASE Held(d, u) /\ ~Held(d, u)'
          <6>1. m.kind # "own" /\ u \in m.content
            BY <3>1, <5>2 DEF Held
          <6>2. m.kind = "other"
            BY <3>1, <3>2, <6>1 DEF Fanout
          <6>3. Update(d, m.content) \in Range(outbox')
            BY <2>2, <6>2 DEF m
          <6>4. \E f \in Range(outbox') : f.doc = d /\ f.kind = "update" /\ u \in f.content
            BY <6>1, <6>3 DEF Update
          <6>5. u \in Carried(d, outbox')
            <7>1. outbox' \in Seq(Frame)
              BY DEF Wires
            <7> QED
              BY <6>4, <7>1, CarriedElements
          <6> QED
            BY <5>0, <6>5
        <5> QED
          BY <1>1, <4>1, <5>0, <5>1, <5>2, ComingElements
      <4> QED
        BY <1>2, <3>6, <4>1 DEF Informed
    <3> QED
      BY <2>2, <3>4, <3>5, <3>6 DEF Informed
  <2> QED
    BY <1>4, <2>1, <2>2, ForwarderSteps
<1> QED
  BY <1>3, <1>4

-----------------------------------------------------------------------------
(***************************************************************************)
(* The exchange.                                                           *)
(***************************************************************************)

\* NothingMissed and what it rests on.
Exchange ==
    Placed /\ OfflineIsEmpty /\ ClosedIsEmpty /\ ClientHolds /\ HelloOrder /\ NothingMissed

LEMMA ExchangeInit == Init => Exchange
<1> SUFFICES ASSUME Init PROVE Exchange
  OBVIOUS
<1>1. /\ session = [d \in Documents |-> None]
      /\ up = <<>> /\ down = <<>> /\ outbox = <<>> /\ wanted = {}
  BY DEF Init
<1>2. Placed
  BY PlacedInit
<1>3. OfflineIsEmpty /\ NothingMissed
  BY <1>1 DEF OfflineIsEmpty, NothingMissed
<1>4. Range(<<>>) = {} /\ 1..Len(<<>>) = {}
  BY DEF Range
<1>5. ClientHolds /\ HelloOrder
  BY <1>1, <1>4 DEF ClientHolds, HelloOrder
<1>6. ClosedIsEmpty
  BY <1>1, <1>4 DEF ClosedIsEmpty, None
<1> QED
  BY <1>2, <1>3, <1>5, <1>6 DEF Exchange

LEMMA ExchangeStep == Exchange /\ [Next]_vars => Exchange'
<1> SUFFICES ASSUME Exchange, [Next]_vars PROVE Exchange'
  OBVIOUS
<1>1. Wires /\ Places /\ PeersAreOpen
  BY Halves DEF Exchange, Placed
<1>2. Placed'
  BY PlacedStep DEF Exchange
<1>3. Wires'
  BY <1>1, WiresStep
<1>4. OfflineIsEmpty' /\ ClosedIsEmpty' /\ ClientHolds' /\ HelloOrder'
  BY <1>1, OfflineStep, ClosedStep, UpStep DEF Exchange
<1>5. ASSUME NEW d \in wanted', Listening(d)'
      PROVE  Informed(d)'
  <2>1. CASE Client
    <3>1. d \in wanted /\ Listening(d) => Informed(d)
      BY DEF Exchange, NothingMissed, Listening, Informed
    <3> QED
      BY <1>1, <1>3, <1>5, <2>1, <3>1, MissedByClient DEF Exchange
  <2>2. CASE Elsewhere
    BY <1>1, <1>3, <1>5, <2>2, MissedByOthers DEF Exchange
  <2>3. CASE Task
    BY <1>1, <1>3, <1>5, <2>3, MissedByTask DEF Exchange
  <2>4. CASE \E e \in Documents : Forwarder(e)
    BY <1>1, <1>3, <1>5, <2>4, MissedByForwarder DEF Exchange
  <2>5. CASE UNCHANGED vars
    <3>1. /\ wanted' = wanted /\ replica' = replica /\ session' = session /\ rooms' = rooms
          /\ up' = up /\ down' = down /\ outbox' = outbox
      BY <2>5 DEF vars
    <3>2. session'[d] = session[d] /\ InRoom(d)'.doc = InRoom(d).doc
      BY <3>1 DEF InRoom
    <3> QED
      BY <1>1, <1>3, <1>5, <3>1, <3>2, MissedByNone DEF Exchange
  <2> QED
    BY <2>1, <2>2, <2>3, <2>4, <2>5 DEF Next
<1>6. NothingMissed'
  BY <1>5 DEF NothingMissed, Listening, Informed
<1> QED
  BY <1>2, <1>4, <1>6 DEF Exchange

\* What is on its way between client and room, always (hocuspocus.rs, session.rs).
THEOREM ExchangeAlways == Spec => []Exchange
  BY ExchangeInit, ExchangeStep, PTL DEF Spec

\* A document that is attached and open, and whose forwarder runs, never
\* misses an update of its room unnoticed, however many documents share the
\* socket, whatever the capacities of receivers, outbox and socket, and
\* through any number of pauses, closes, deletions and disconnections
\* (hocuspocus.rs forward, recheck, outgoing, close_document).
THEOREM NothingMissedTheorem == Spec => []NothingMissed
<1>1. Exchange => NothingMissed
  BY DEF Exchange
<1> QED
  BY <1>1, ExchangeAlways, PTL

(***************************************************************************)
(* Until somebody deletes it, an open document forgets nothing the client  *)
(* wrote.                                                                  *)
(***************************************************************************)

\* A document that was never deleted has one room.
Whole(d) == DOMAIN rooms[d] = {1}
Doc(d) == rooms[d][1].doc

\* No document gets rid of a room, and what is whole only grows.
Grows == \A d \in Documents : Whole(d)' => Whole(d) /\ Doc(d) \subseteq Doc(d)'

\* What the server said or will say of a whole document is in it.
RoomSays ==
    /\ \A f \in Range(down) \cup Range(outbox) :
          f.kind \in {"step1", "update"} /\ Whole(f.doc) => f.content \subseteq Doc(f.doc)
    /\ \A d \in Documents : Whole(d) =>
          \A m \in Range(session[d].queue) : m.content \subseteq Doc(d)

\* Of any rooms, a document has its first only when it has one.
LEMMA OneRoom ==
    ASSUME NEW r, RoomsTyped(r), NEW d \in Documents
    PROVE  DOMAIN r[d] = {1} <=> Len(r[d]) = 1
<1>1. DOMAIN r[d] = 1..Len(r[d]) /\ Len(r[d]) \in Nat \ {0}
  BY RoomFields
<1>2. ASSUME DOMAIN r[d] = {1} PROVE Len(r[d]) = 1
  <2>1. Len(r[d]) \in 1..Len(r[d])
    BY <1>1
  <2> QED
    BY <1>1, <1>2, <2>1
<1>3. ASSUME Len(r[d]) = 1 PROVE DOMAIN r[d] = {1}
  <2>1. 1..1 = {1}
    OBVIOUS
  <2> QED
    BY <1>1, <1>3, <2>1
<1> QED
  BY <1>2, <1>3

\* A document is whole while it has its first room only.
LEMMA OnlyRoom ==
    ASSUME RoomsTyped(rooms), NEW d \in Documents
    PROVE  Whole(d) <=> Registered(d) = 1
  BY OneRoom DEF Whole, Registered

\* The room of a whole document.
LEMMA TheRoom ==
    ASSUME Places, NEW d \in Documents, Whole(d)
    PROVE  /\ rooms[d][1] \in RoomState
           /\ Doc(d) \in SUBSET Updates
           /\ Registered(d) = 1
           /\ Open(d) => session[d].room = 1 /\ InRoom(d) = rooms[d][1]
<1>1. /\ rooms[d] \in Seq(RoomState)
      /\ \A i \in DOMAIN rooms[d] : rooms[d][i] \in RoomState
      /\ 1 \in DOMAIN rooms[d]
  BY RoomFields DEF Places, RoomsTyped, Whole
<1>2. Registered(d) = 1
  BY OnlyRoom DEF Places
<1>3. Open(d) => session[d].room = 1
  BY DEF Places, Whole
<1> QED
  BY <1>1, <1>2, <1>3 DEF Doc, InRoom, RoomState

\* A DELETE adds a room, anything else leaves rooms and lets documents grow.
LEMMA DocsGrow ==
    ASSUME Wires, Places, PeersAreOpen, [Next]_vars
    PROVE  Grows
<1> DEFINE Goal == Grows
<1> SUFFICES Goal
  OBVIOUS
<1>0. RoomsTyped(rooms)
  BY DEF Places
<1>1. ASSUME UNCHANGED rooms
      PROVE  Goal
  BY <1>1 DEF Grows, Whole, Doc
<1>2. ASSUME NEW e \in Documents, NEW r \in DOMAIN rooms[e], NEW X \in SUBSET Updates,
             rooms' = Grown(e, r, X)
      PROVE  Goal
  <2>1. ASSUME NEW d \in Documents
        PROVE  DOMAIN rooms'[d] = DOMAIN rooms[d]
    BY <1>0, <1>2, GrownRooms
  <2>2. ASSUME NEW d \in Documents, 1 \in DOMAIN rooms[d]
        PROVE  rooms[d][1].doc \subseteq rooms'[d][1].doc
    BY <1>0, <1>2, <2>2, GrownDocs
  <2> QED
    BY <2>1, <2>2 DEF Grows, Whole, Doc
<1>3. ASSUME NEW e \in Documents, rooms' = JoinedRooms(e)
      PROVE  Goal
  BY <1>0, <1>3, JoinedRoomsProperties DEF Grows, Whole, Doc
<1>4. ASSUME NEW closing \in SUBSET Documents, rooms' = LeftRooms(closing)
      PROVE  Goal
  BY <1>4, LeftRoomsProperties DEF Grows, Whole, Doc
<1>5. CASE Client
  BY <1>1, <1>5 DEF Client, Attach, Detach, Edit, Connect, Receive
<1>6. ASSUME NEW e \in Documents, Noise(e) \/ Delete(e) \/ \E u \in Updates : Others(e, u)
      PROVE  Goal
  <2>1. ASSUME Delete(e)
        PROVE  Goal
    <3> DEFINE new == [doc |-> {}, peers |-> 0]
               all == Append(rooms[e], new)
    <3>1. rooms' = [rooms EXCEPT ![e] = all] /\ rooms \in [Documents -> Seq(RoomState)]
      BY <1>0, <2>1 DEF Delete, RoomsTyped
    <3>2. new \in RoomState
      BY DEF RoomState
    <3>3. /\ rooms[e] \in Seq(RoomState) /\ Len(rooms[e]) \in Nat \ {0}
      BY <1>0, RoomFields
    <3> HIDE DEF new
    <3>4. Len(all) = Len(rooms[e]) + 1 /\ all \in Seq(RoomState)
      BY <3>2, <3>3, AppendProperties
    <3>5. DOMAIN all = 1..Len(all)
      BY <3>4, LenProperties
    <3> HIDE DEF all
    <3>6. 2 \in DOMAIN all
      BY <3>3, <3>4, <3>5
    <3>7. ~Whole(e)'
      <4>1. rooms'[e] = all
        BY <3>1
      <4> QED
        BY <3>6, <4>1 DEF Whole
    <3>8. \A d \in Documents : d # e => rooms'[d] = rooms[d]
      BY <3>1
    <3> QED
      BY <3>7, <3>8 DEF Grows, Whole, Doc
  <2>2. ASSUME NEW u \in Updates, Others(e, u)
        PROVE  Goal
    <3>1. /\ rooms' = Grown(e, Registered(e), {u})
          /\ Registered(e) \in DOMAIN rooms[e]
          /\ {u} \in SUBSET Updates
      BY <1>0, <2>2, RoomFields DEF Others, Grown, Registered
    <3> QED
      BY <1>2, <3>1
  <2> QED
    BY <1>1, <1>6, <2>1, <2>2 DEF Noise
<1>7. ASSUME NEW e \in Documents,
             \/ Authenticate(e) \/ Deny(e) \/ Pause(e) \/ AnswerStep1(e)
             \/ ApplyUpdate(e) \/ CloseDocument(e) \/ Recheck(e)
      PROVE  Goal
  <2>1. ASSUME ApplyUpdate(e)
        PROVE  Goal
    <3>1. Head(up).content \in SUBSET Updates
      BY <2>1, Applying, ReadsProperties
    <3> QED
      BY <1>1, <1>2, <2>1, <3>1, Applying
  <2>2. ASSUME CloseDocument(e)
        PROVE  Goal
    BY <1>4, <2>2 DEF CloseDocument
  <2> QED
    BY <1>1, <1>3, <1>7, <2>1, <2>2 DEF Authenticate, Deny, Pause, AnswerStep1, Recheck
<1>8. CASE Outgoing \/ Ping \/ Drop
  <2>1. CASE End
    BY <1>4, <2>1 DEF End
  <2>2. CASE ~End
    BY <1>1, <1>8, <2>2 DEF Outgoing, Ping, Drop
  <2> QED
    BY <2>1, <2>2
<1>9. ASSUME NEW e \in Documents, Forwarder(e)
      PROVE  Goal
  BY <1>1, <1>9, ForwarderSteps
<1>10. CASE UNCHANGED vars
  BY <1>1, <1>10 DEF vars
<1> QED
  BY <1>5, <1>6, <1>7, <1>8, <1>9, <1>10 DEF Next, Elsewhere, Task

\* What was said of a document is in it after a step that says nothing else.
LEMMA SaysOn ==
    ASSUME Wires, RoomSays, Grows,
           \A f \in Range(down') \cup Range(outbox') :
               \/ f \in Range(down) \cup Range(outbox)
               \/ f.kind \in {"step1", "update"} /\ Whole(f.doc)' => f.content \subseteq Doc(f.doc)',
           \A d \in Documents : Whole(d)' => \A m \in Range(session'[d].queue) :
               m \in Range(session[d].queue) \/ m.content \subseteq Doc(d)'
    PROVE  RoomSays'
<1>1. \A f \in Range(down) \cup Range(outbox) : f.doc \in Documents
  <2>1. down \in Seq(Frame) /\ outbox \in Seq(Frame)
    BY DEF Wires
  <2>2. ASSUME NEW s \in Seq(Frame), NEW f \in Range(s)
        PROVE  f.doc \in Documents
    BY <2>2, ElementOfSeq, FrameFields DEF Range
  <2> QED
    BY <2>1, <2>2
<1>2. ASSUME NEW f \in Range(down') \cup Range(outbox'), f.kind \in {"step1", "update"},
             Whole(f.doc)'
      PROVE  f.content \subseteq Doc(f.doc)'
  <2>1. CASE f \in Range(down) \cup Range(outbox)
    <3>1. f.doc \in Documents
      BY <1>1, <2>1
    <3>2. Whole(f.doc) /\ Doc(f.doc) \subseteq Doc(f.doc)'
      BY <1>2, <3>1 DEF Grows
    <3>3. f.content \subseteq Doc(f.doc)
      BY <1>2, <2>1, <3>2 DEF RoomSays
    <3> QED
      BY <3>2, <3>3
  <2>2. CASE f \notin Range(down) \cup Range(outbox)
    BY <1>2, <2>2
  <2> QED
    BY <2>1, <2>2
<1>3. ASSUME NEW d \in Documents, Whole(d)', NEW m \in Range(session'[d].queue)
      PROVE  m.content \subseteq Doc(d)'
  <2>1. Whole(d) /\ Doc(d) \subseteq Doc(d)'
    BY <1>3 DEF Grows
  <2> QED
    BY <1>3, <2>1 DEF RoomSays
<1> QED
  BY <1>2, <1>3 DEF RoomSays

LEMMA RoomSaysStep ==
    ASSUME Wires, Places, PeersAreOpen, RoomSays, [Next]_vars, Grows
    PROVE  RoomSays'
<1>0. down \in Seq(Frame) /\ outbox \in Seq(Frame) /\ RoomsTyped(rooms)
  BY DEF Wires, Places
<1>1. ASSUME NEW d \in Documents, Whole(d)', NEW m \in Range(session'[d].queue)
      PROVE  m \in Range(session[d].queue) \/ m.content \subseteq Doc(d)'
  <2>1. Whole(d)
    BY <1>1 DEF Grows
  <2> QED
    BY <1>1, <2>1, QueuesStep DEF News, Whole, Doc
\* The server says no more than it has said.
<1>2. ASSUME Range(down') \subseteq Range(down) \cup Range(outbox),
             Range(outbox') \subseteq Range(outbox)
      PROVE  RoomSays'
  BY <1>1, <1>2, SaysOn
\* It says one thing more, or two.
<1>3. ASSUME NEW a \in Frame, NEW b \in Frame, outbox' = outbox,
             a.kind \in {"step1", "update"} /\ Whole(a.doc)' => a.content \subseteq Doc(a.doc)',
             b.kind \in {"step1", "update"} /\ Whole(b.doc)' => b.content \subseteq Doc(b.doc)',
             down' = Append(down, a) \/ down' = down \o <<a, b>>
      PROVE  RoomSays'
  <2>1. Range(Append(down, a)) = Range(down) \cup {a}
    BY <1>0, RangeAppend
  <2>2. Range(down \o <<a, b>>) = Range(down) \cup {a, b}
    BY <1>0, RangePair
  <2> QED
    BY <1>1, <1>3, <2>1, <2>2, SaysOn
<1>4. Range(<<>>) = {}
  BY DEF Range
<1>5. CASE Client
  <2>1. ASSUME Receive
        PROVE  Range(down') \subseteq Range(down) /\ outbox' = outbox
    BY <1>0, <2>1, RangeTail DEF Receive
  <2> QED
    BY <1>2, <1>5, <2>1 DEF Client, Attach, Detach, Edit, Connect
<1>6. CASE Elsewhere
  BY <1>2, <1>6 DEF Elsewhere, Noise, Delete, Others
<1>7. ASSUME NEW e \in Documents, UNCHANGED <<down, outbox>> \/ down' = Append(down, Denied(e)),
             outbox' = outbox
      PROVE  RoomSays'
  <2>1. Denied(e) \in Frame /\ Denied(e).kind = "denied"
    BY FrameTypes DEF Denied
  <2> QED
    BY <1>2, <1>3, <1>7, <2>1
<1>8. ASSUME NEW e \in Documents,
             \/ Authenticate(e) \/ Deny(e) \/ Pause(e) \/ ApplyUpdate(e) \/ CloseDocument(e)
      PROVE  RoomSays'
  BY <1>7, <1>8 DEF Authenticate, Deny, Pause, ApplyUpdate, CloseDocument
<1>9. ASSUME NEW e \in Documents, NEW X \in SUBSET Updates, NEW Y \in SUBSET Updates,
             Whole(e) => X \subseteq Doc(e) /\ Y \subseteq Doc(e), outbox' = outbox,
             \/ down' = down \o <<Update(e, X), Step1(e, Y)>>
             \/ down' = down \o <<Step1(e, Y), Update(e, X)>>
      PROVE  RoomSays'
  <2> DEFINE a == Update(e, X)
             b == Step1(e, Y)
  <2>1. a \in Frame /\ b \in Frame
    BY FrameTypes
  <2>2. /\ Whole(a.doc)' => a.content \subseteq Doc(a.doc)'
        /\ Whole(b.doc)' => b.content \subseteq Doc(b.doc)'
    BY <1>9 DEF Update, Step1, Grows
  <2> HIDE DEF a, b
  <2>3. down' = down \o <<a, b>> \/ down' = down \o <<b, a>>
    BY <1>9 DEF a, b
  <2> QED
    BY <1>3, <1>9, <2>1, <2>2, <2>3
<1>10. ASSUME NEW e \in Documents, AnswerStep1(e)
       PROVE  RoomSays'
  <2>1. CASE Open(e)
    <3> DEFINE doc == InRoom(e).doc
               missing == doc \ Head(up).content
    <3>1. Whole(e) => doc = Doc(e)
      BY <2>1, TheRoom DEF Doc
    <3>2. /\ outbox' = outbox
          /\ down' = down \o <<Update(e, missing), Step1(e, doc)>>
      BY <1>10, <2>1 DEF AnswerStep1
    <3>3. missing \in SUBSET doc /\ doc \in SUBSET Updates
      BY <2>1, InRoomType
    <3> HIDE DEF missing, doc
    <3> QED
      BY <1>9, <3>1, <3>2, <3>3
  <2>2. CASE ~Open(e)
    BY <1>2, <1>10, <2>2 DEF AnswerStep1
  <2> QED
    BY <2>1, <2>2
<1>11. ASSUME NEW e \in Documents, Recheck(e)
       PROVE  RoomSays'
  <2> DEFINE doc == rooms[e][Registered(e)].doc
  <2>1. /\ outbox' = outbox
        /\ down' = down \o <<Step1(e, doc), Update(e, doc)>>
    BY <1>11 DEF Recheck
  <2>2. doc \in SUBSET Updates
    BY <1>0, RoomFields DEF Registered
  <2>3. Whole(e) => doc = Doc(e)
    BY TheRoom DEF Doc
  <2> HIDE DEF doc
  <2> QED
    BY <1>9, <2>1, <2>2, <2>3
<1>12. CASE Outgoing \/ Ping \/ Drop
  <2>1. CASE End
    BY <1>2, <1>4, <2>1 DEF End
  <2>2. CASE ~End
    <3> DEFINE f == Head(outbox)
    <3>1. outbox # <<>> /\ down' = Append(down, f) /\ outbox' = Tail(outbox)
      BY <1>12, <2>2 DEF Outgoing, Ping, Drop
    <3>2. f \in Frame /\ Range(outbox) = {f} \cup Range(Tail(outbox))
      BY <1>0, <3>1, RangeTail
    <3> HIDE DEF f
    <3>3. Range(down') = Range(down) \cup {f}
      BY <1>0, <3>1, <3>2, RangeAppend
    <3> QED
      BY <1>2, <3>1, <3>2, <3>3
  <2> QED
    BY <2>1, <2>2
<1>13. ASSUME NEW e \in Documents, Forwarder(e)
       PROVE  RoomSays'
  <2>1. down' = down
    BY <1>13, ForwarderSteps
  <2>2. ASSUME NEW f \in Frame,
               f.kind \in {"step1", "update"} /\ Whole(f.doc)' => f.content \subseteq Doc(f.doc)',
               outbox' = outbox \/ outbox' = Append(outbox, f)
        PROVE  RoomSays'
    <3>1. Range(Append(outbox, f)) = Range(outbox) \cup {f}
      BY <1>0, RangeAppend
    <3> QED
      BY <1>1, <2>1, <2>2, <3>1, SaysOn
  <2>3. ASSUME ForwardLag(e) \/ Retry(e)
        PROVE  RoomSays'
    <3>1. Lagged(e) \in Frame /\ Lagged(e).kind = "lagged"
      BY FrameTypes DEF Lagged
    <3>2. outbox' = outbox \/ outbox' = Append(outbox, Lagged(e))
      BY <2>3 DEF ForwardLag, Retry
    <3> QED
      BY <2>2, <3>1, <3>2
  <2>4. ASSUME Forward(e)
        PROVE  RoomSays'
    <3> DEFINE m == Head(session[e].queue)
               out == IF m.kind = "closed" THEN Denied(e) ELSE Update(e, m.content)
    <3>1. outbox' = outbox \/ outbox' = Append(outbox, out)
      BY <2>4 DEF Forward
    <3>2. /\ m \in Fanout /\ m \in Range(session[e].queue)
          /\ m.content \in SUBSET Updates
      BY <2>4, QueueParts DEF Forward, Places, Fanout
    <3> HIDE DEF m
    <3>3. Whole(e)' => m.content \subseteq Doc(e)'
      BY <3>2 DEF RoomSays, Grows
    <3>4. /\ Denied(e) \in Frame /\ Denied(e).kind = "denied"
          /\ Update(e, m.content) \in Frame
          /\ Update(e, m.content).doc = e /\ Update(e, m.content).content = m.content
      BY <3>2, FrameTypes DEF Denied, Update
    <3>5. out \in {Denied(e), Update(e, m.content)}
      OBVIOUS
    <3> HIDE DEF out
    <3>6. PICK f \in {Denied(e), Update(e, m.content)} : f = out
      BY <3>5
    <3>7. f \in Frame /\ (f.kind \in {"step1", "update"} /\ Whole(f.doc)' =>
                             f.content \subseteq Doc(f.doc)')
      <4>1. CASE f = Denied(e)
        BY <3>4, <4>1
      <4>2. CASE f = Update(e, m.content)
        BY <3>3, <3>4, <4>2
      <4> QED
        BY <4>1, <4>2
    <3> QED
      BY <2>2, <3>1, <3>6, <3>7
  <2> QED
    BY <1>13, <2>3, <2>4 DEF Forwarder
<1>14. CASE UNCHANGED vars
  BY <1>2, <1>14 DEF vars
<1> QED
  BY <1>5, <1>6, <1>8, <1>10, <1>11, <1>12, <1>13, <1>14 DEF Next, Task

-----------------------------------------------------------------------------
(* An open document forgets nothing. *)

Kept(d) ==
    \/ Says(d, "step1", down) \/ Says(d, "step1", up)
    \/ replica[d] \subseteq InRoom(d).doc \cup Carried(d, up) \cup session[d].refused

\* A session that goes on takes back no refusal.
Recalls ==
    \A d \in Documents : Open(d) /\ Open(d)' => session[d].refused \subseteq session'[d].refused

LEMMA RefusalsStay ==
    ASSUME Wires, Places, [Next]_vars
    PROVE  Recalls
<1>0. SessionsTyped(session) /\ session \in [Documents -> SessionState]
  BY DEF Places, SessionsTyped
<1>1. ASSUME \A d \in Documents : session'[d].refused = session[d].refused
      PROVE  Recalls
  BY <1>1 DEF Recalls
<1>2. ASSUME NEW e \in Documents, NEW m \in Fanout, NEW r, session' = Broadcast(e, r, m)
      PROVE  Recalls
  BY <1>0, <1>1, <1>2, BroadcastProperties
<1>3. ASSUME NEW e \in Documents, ~Open(e), session' = JoinedSession(e)
      PROVE  Recalls
  BY <1>3, OpenedType DEF Recalls
<1>4. CASE Client
  BY <1>1, <1>4 DEF Client, Attach, Detach, Edit, Connect, Receive
<1>5. CASE Elsewhere
  <2>1. PICK e \in Documents : Noise(e) \/ Delete(e) \/ \E u \in Updates : Others(e, u)
    BY <1>5 DEF Elsewhere
  <2>2. \E X \in SUBSET Updates, kind \in {"other", "closed"} :
           session' = Broadcast(e, Registered(e), [kind |-> kind, content |-> X])
    BY <2>1 DEF Noise, Delete, Others
  <2> QED
    BY <1>2, <2>2 DEF Fanout
<1>6. ASSUME NEW e \in Documents, Authenticate(e) \/ Recheck(e)
      PROVE  Recalls
  <2>1. session' = session \/ (~Open(e) /\ session' = JoinedSession(e))
    BY <1>6 DEF Authenticate, Recheck, Open
  <2> QED
    BY <1>1, <1>3, <2>1
<1>7. ASSUME NEW e \in Documents, Deny(e) \/ AnswerStep1(e)
      PROVE  Recalls
  BY <1>1, <1>7 DEF Deny, AnswerStep1
<1>8. ASSUME NEW e \in Documents, Pause(e)
      PROVE  Recalls
  BY <1>0, <1>8 DEF Pause, Recalls, Open, SessionState
<1>9. ASSUME NEW e \in Documents, ApplyUpdate(e)
      PROVE  Recalls
  <2>1. CASE session' = Refusing(e, Head(up).content)
    BY <1>0, <1>9, <2>1, Applying, RefusingProperties DEF Recalls
  <2>2. CASE session' = session \/ \E m \in Fanout : session' = Broadcast(e, session[e].room, m)
    BY <1>1, <1>2, <2>2
  <2> QED
    BY <1>9, <2>1, <2>2, Applying
<1>10. ASSUME NEW e \in Documents, CloseDocument(e)
       PROVE  Recalls
  <2>1. session' = session \/ session' = [session EXCEPT ![e] = None]
    BY <1>10 DEF CloseDocument
  <2>2. \A d \in Documents : session'[d] = session[d] \/ ~Open(d)'
    BY <1>0, <2>1 DEF Open, None
  <2> QED
    BY <2>2 DEF Recalls
<1>11. CASE Outgoing \/ Ping \/ Drop
  <2>1. CASE End
    BY <2>1 DEF End, Recalls, Open, None
  <2>2. CASE ~End
    BY <1>1, <1>11, <2>2 DEF Outgoing, Ping, Drop
  <2> QED
    BY <2>1, <2>2
<1>12. ASSUME NEW e \in Documents, Forwarder(e)
       PROVE  Recalls
  <2>1. \A d \in Documents : session'[d].refused = session[d].refused
    BY <1>12, ForwarderSteps
  <2> QED
    BY <1>1, <2>1
<1>13. CASE UNCHANGED vars
  BY <1>1, <1>13 DEF vars
<1> QED
  BY <1>4, <1>5, <1>6, <1>7, <1>8, <1>9, <1>10, <1>11, <1>12, <1>13 DEF Next, Task

\* A document that stays open, in a step that brings the room what it takes
\* from the socket, and the client what the room has.
LEMMA StaysKept ==
    ASSUME Places, Places', Grows, Recalls,
           NEW d \in Documents, Whole(d)', Open(d), Open(d)', Kept(d),
           Says(d, "step1", down) => Says(d, "step1", down'),
           Says(d, "step1", up) => Says(d, "step1", up'),
           replica'[d] \subseteq replica[d] \cup Doc(d)' \cup Carried(d, up'),
           Carried(d, up) \subseteq Doc(d)' \cup Carried(d, up') \cup session'[d].refused
    PROVE  Kept(d)'
<1>0. Whole(d) /\ Doc(d) \subseteq Doc(d)'
  BY DEF Grows
<1>1. InRoom(d).doc = Doc(d)
  BY <1>0, TheRoom DEF Doc
<1>2. InRoom(d)'.doc = Doc(d)'
  <2>1. session'[d].room = 1
    BY DEF Places, Whole
  <2> QED
    BY <2>1 DEF InRoom, Doc
<1>3. CASE Says(d, "step1", down) \/ Says(d, "step1", up)
  BY <1>3 DEF Kept
<1>4. CASE replica[d] \subseteq InRoom(d).doc \cup Carried(d, up) \cup session[d].refused
  <2>1. replica'[d] \subseteq Doc(d)' \cup Carried(d, up') \cup session'[d].refused
    BY <1>0, <1>1, <1>4 DEF Recalls
  <2> QED
    BY <1>2, <2>1 DEF Kept
<1> QED
  BY <1>3, <1>4 DEF Kept

\* Channels that grow.
LEMMA Growing ==
    ASSUME NEW s \in Seq(Frame), NEW t \in Seq(Frame), Range(s) \subseteq Range(t), NEW d
    PROVE  /\ Says(d, "step1", s) => Says(d, "step1", t)
           /\ Carried(d, s) \subseteq Carried(d, t)
  BY SaysElements, CarriedElements

\* What is left on the socket when a frame is read.
LEMMA Reading ==
    ASSUME NEW s \in Seq(Frame), s # <<>>, NEW d
    PROVE  /\ Says(d, "step1", s) =>
                \/ Says(d, "step1", Tail(s))
                \/ Head(s).doc = d /\ Head(s).kind = "step1"
           /\ Head(s).doc # d \/ Head(s).kind # "update" =>
                Carried(d, s) \subseteq Carried(d, Tail(s))
           /\ Carried(d, s) \subseteq Carried(d, Tail(s)) \cup Head(s).content
<1> DEFINE h == Head(s)
           t == Tail(s)
<1>1. t \in Seq(Frame) /\ Range(s) = {h} \cup Range(t)
  BY RangeTail
<1> HIDE DEF h, t
<1>2. /\ Says(d, "step1", s) <=> \E f \in Range(s) : f.doc = d /\ f.kind = "step1"
      /\ Says(d, "step1", t) <=> \E f \in Range(t) : f.doc = d /\ f.kind = "step1"
  BY <1>1, SaysElements
<1>3. ASSUME NEW u
      PROVE  /\ u \in Carried(d, s) <=>
                   \E f \in Range(s) : f.doc = d /\ f.kind = "update" /\ u \in f.content
             /\ u \in Carried(d, t) <=>
                   \E f \in Range(t) : f.doc = d /\ f.kind = "update" /\ u \in f.content
  BY <1>1, CarriedElements
<1>4. /\ Says(d, "step1", s) => Says(d, "step1", t) \/ (h.doc = d /\ h.kind = "step1")
      /\ h.doc # d \/ h.kind # "update" => Carried(d, s) \subseteq Carried(d, t)
      /\ Carried(d, s) \subseteq Carried(d, t) \cup h.content
  BY <1>1, <1>2, <1>3
<1> QED
  BY <1>4 DEF h, t

\* What a step of the client keeps.
LEMMA KeptByClient ==
    ASSUME Wires, Wires', Places, Places', Grows, Recalls, RoomSays, OfflineIsEmpty, Client,
           NEW d \in wanted', Whole(d)', Open(d)', d \in wanted /\ Open(d) => Kept(d)
    PROVE  Kept(d)'
<1>0. /\ up \in Seq(Frame) /\ up' \in Seq(Frame) /\ down \in Seq(Frame) /\ down' \in Seq(Frame)
      /\ d \in Documents /\ replica \in [Documents -> SUBSET Updates]
  BY DEF Wires
<1>1. session' = session /\ rooms' = rooms
  BY DEF Client, Attach, Detach, Edit, Connect, Receive
<1>2. /\ Open(d) /\ Whole(d)
      /\ Doc(d)' = Doc(d) /\ Doc(d) \in SUBSET Updates
  BY <1>0, <1>1, TheRoom DEF Open, Doc, Whole
<1>3. connected
  BY <1>0, <1>2 DEF OfflineIsEmpty, Open, None
\* The client sends.
<1>4. ASSUME d \in wanted, down' = down, Range(up) \subseteq Range(up'),
             replica'[d] \subseteq replica[d] \cup Carried(d, up')
      PROVE  Kept(d)'
  BY <1>0, <1>2, <1>4, Growing, StaysKept
<1>5. ASSUME NEW e \in Documents, Attach(e)
      PROVE  Kept(d)'
  <2> DEFINE a == Token(e)
             b == Step1(e, replica[e])
  <2>1. a \in Frame /\ b \in Frame /\ b.doc = e /\ b.kind = "step1"
    BY <1>0, FrameTypes DEF Step1
  <2>2. up' = up \o <<a, b>> /\ down' = down /\ replica' = replica /\ wanted' = wanted \cup {e}
    BY <1>3, <1>5 DEF Attach, Hello
  <2> HIDE DEF a, b
  <2>3. Range(up') = Range(up) \cup {a, b}
    BY <1>0, <2>1, <2>2, RangePair
  <2>4. CASE e = d
    <3>1. Says(d, "step1", up')
      BY <1>0, <2>1, <2>3, <2>4, SaysElements
    <3> QED
      BY <3>1 DEF Kept
  <2>5. CASE e # d
    BY <1>4, <2>2, <2>3, <2>5
  <2> QED
    BY <2>4, <2>5
<1>6. ASSUME NEW e \in Documents, Detach(e)
      PROVE  Kept(d)'
  <2> DEFINE f == Close(e)
  <2>1. f \in Frame
    BY FrameTypes
  <2>2. up' = Append(up, f) /\ down' = down /\ replica' = replica /\ d \in wanted
    BY <1>3, <1>6 DEF Detach
  <2> HIDE DEF f
  <2>3. Range(up') = Range(up) \cup {f}
    BY <1>0, <2>1, <2>2, RangeAppend
  <2> QED
    BY <1>4, <2>2, <2>3
<1>7. ASSUME NEW e \in Documents, NEW u \in Updates, Edit(e, u)
      PROVE  Kept(d)'
  <2> DEFINE f == Update(e, {u})
  <2>1. f \in Frame /\ f.doc = e /\ f.kind = "update" /\ u \in f.content
    BY FrameTypes DEF Update
  <2>2. /\ up' = Append(up, f) /\ down' = down /\ d \in wanted
        /\ replica' = [replica EXCEPT ![e] = @ \cup {u}]
    BY <1>3, <1>7 DEF Edit
  <2> HIDE DEF f
  <2>3. Range(up') = Range(up) \cup {f}
    BY <1>0, <2>1, <2>2, RangeAppend
  <2>4. e = d => u \in Carried(d, up')
    BY <1>0, <2>1, <2>3, CarriedElements
  <2>5. replica'[d] \subseteq replica[d] \cup Carried(d, up')
    BY <1>0, <2>2, <2>4
  <2> QED
    BY <1>4, <2>2, <2>3, <2>5
<1>8. ASSUME Receive
      PROVE  Kept(d)'
  <2> DEFINE frame == Head(down)
             e == frame.doc
             f == Update(e, replica[e] \ frame.content)
  <2>1. /\ frame \in Frame /\ e \in Documents /\ frame.content \in SUBSET Updates
        /\ frame \in Range(down)
    BY <1>0, <1>8, RangeTail, FrameFields DEF Receive
  <2>2. f \in Frame /\ f.doc = e /\ f.kind = "update" /\ f.content = replica[e] \ frame.content
    <3>1. f \in Frame
      BY <1>0, <2>1, FrameTypes
    <3> QED
      BY <3>1 DEF Update
  <2>3. /\ wanted' = wanted /\ down # <<>> /\ down' = Tail(down)
        /\ replica' = IF e \in wanted /\ frame.kind = "update"
                      THEN [replica EXCEPT ![e] = @ \cup frame.content] ELSE replica
        /\ up' = IF e \in wanted /\ frame.kind = "step1" THEN Append(up, f) ELSE up
    BY <1>8 DEF Receive
  <2>4. Says(d, "step1", down) => Says(d, "step1", down') \/ (e = d /\ frame.kind = "step1")
    BY <1>0, <2>3, Reading
  <2>5. e = d /\ frame.kind \in {"step1", "update"} => frame.content \subseteq Doc(d)
    BY <1>2, <2>1 DEF RoomSays
  <2> HIDE DEF frame, e, f
  <2>6. Range(Append(up, f)) = Range(up) \cup {f}
    BY <1>0, <2>2, RangeAppend
  <2>7. Range(up) \subseteq Range(up')
    BY <2>3, <2>6
  <2>8. CASE e = d /\ frame.kind = "step1"
    <3>1. f \in Range(up') /\ replica' = replica
      BY <2>3, <2>6, <2>8
    <3>2. \A u \in f.content : u \in Carried(d, up')
      BY <1>0, <2>2, <2>8, <3>1, CarriedElements
    <3>3. replica'[d] \subseteq Doc(d)' \cup Carried(d, up')
      BY <1>2, <2>2, <2>5, <2>8, <3>1, <3>2
    <3>4. InRoom(d)'.doc = Doc(d)'
      BY <1>0, <1>1, <1>2, TheRoom DEF InRoom, Doc
    <3> QED
      BY <3>3, <3>4 DEF Kept
  <2>9. CASE ~(e = d /\ frame.kind = "step1")
    <3>1. replica'[d] \subseteq replica[d] \cup Doc(d)'
      BY <1>0, <1>2, <2>3, <2>5
    <3>2. /\ Says(d, "step1", up) => Says(d, "step1", up')
          /\ Carried(d, up) \subseteq Carried(d, up')
      BY <1>0, <2>7, Growing
    <3> QED
      BY <1>0, <1>2, <2>3, <2>4, <2>9, <3>1, <3>2, StaysKept
  <2> QED
    BY <2>8, <2>9
<1> QED
  BY <1>3, <1>5, <1>6, <1>7, <1>8 DEF Client, Connect

\* A step of the connection's task that reads no step 1 or update of d, or none
\* at all, and leaves its session alone.
LEMMA KeptAlone ==
    ASSUME Wires, Wires', Places, Places', Grows, Recalls, NothingForgotten,
           NEW d \in wanted' \ Readable, Whole(d)', wanted' = wanted, replica' = replica,
           session'[d].at = session[d].at, Open(d)',
           Range(down) \subseteq Range(down'),
           \/ up' = up
           \/ /\ up # <<>> /\ up' = Tail(up)
              /\ Head(up).doc = d => /\ Head(up).kind # "step1"
                                     /\ Head(up).kind = "update" =>
                                            Head(up).content \subseteq
                                                Doc(d)' \cup session'[d].refused
    PROVE  Kept(d)'
<1>1. /\ d \in Documents /\ d \in wanted \ Readable /\ Open(d)
      /\ up \in Seq(Frame) /\ up' \in Seq(Frame) /\ down \in Seq(Frame) /\ down' \in Seq(Frame)
  BY DEF Wires, Open
<1>2. Kept(d)
  <2>1. Registered(d) = 1
    BY <1>1, TheRoom DEF Grows
  <2> QED
    BY <1>1, <2>1 DEF NothingForgotten, Kept
<1>3. Says(d, "step1", down) => Says(d, "step1", down')
  BY <1>1, Growing
<1>4. /\ Says(d, "step1", up) => Says(d, "step1", up')
      /\ Carried(d, up) \subseteq Doc(d)' \cup Carried(d, up') \cup session'[d].refused
  <2>1. CASE up' = up
    BY <2>1
  <2>2. CASE up # <<>> /\ up' = Tail(up)
    BY <1>1, <2>2, Reading
  <2> QED
    BY <2>1, <2>2
<1> QED
  BY <1>1, <1>2, <1>3, <1>4, StaysKept

LEMMA KeptByTask ==
    ASSUME Wires, Wires', Places, Places', Grows, Recalls, HelloOrder, NothingForgotten, Task,
           NEW d \in wanted' \ Readable, Whole(d)', Open(d)'
    PROVE  Kept(d)'
<1>0. /\ SessionsTyped(session) /\ RoomsTyped(rooms) /\ d \in Documents
      /\ down \in Seq(Frame) /\ down' \in Seq(Frame)
      /\ Whole(d) /\ Doc(d) \subseteq Doc(d)'
  BY DEF Wires, Places, Grows
<1>1. wanted' = wanted /\ replica' = replica
  BY DEF Task, Authenticate, Deny, Pause, AnswerStep1, ApplyUpdate, CloseDocument, Recheck,
         Outgoing, Ping, Drop
<1>2. ~End
  BY <1>0 DEF End, None, Open
\* A frame of e that is no step 1 of d and no update is read.
<1>3. ASSUME NEW e \in Documents, NEW kind, Reads(e, kind), kind # "update",
             kind # "step1" \/ e # d,
             session'[d].at = session[d].at, Range(down) \subseteq Range(down')
      PROVE  Kept(d)'
  BY <1>1, <1>3, KeptAlone DEF Reads
<1>4. ASSUME NEW e \in Documents, down' = Append(down, Denied(e))
      PROVE  Range(down) \subseteq Range(down')
  <2>1. Denied(e) \in Frame
    BY FrameTypes
  <2> QED
    BY <1>0, <1>4, <2>1, RangeAppend
<1>5. ASSUME NEW e \in Documents, Authenticate(e)
      PROVE  Kept(d)'
  <2>1. /\ Reads(e, "token")
        /\ \/ session' = session /\ (down' = down \/ down' = Append(down, Denied(e)))
           \/ session' = JoinedSession(e) /\ down' = down
    BY <1>5 DEF Authenticate
  <2>2. CASE session' = session
    BY <1>3, <1>4, <2>1, <2>2
  <2>3. CASE session' = JoinedSession(e) /\ down' = down
    <3>1. CASE e = d
      BY <2>1, <3>1, TokenBeforeStep1 DEF Kept
    <3>2. CASE e # d
      BY <1>0, <1>3, <2>1, <2>3, <3>2, OpenedType
    <3> QED
      BY <3>1, <3>2
  <2> QED
    BY <2>1, <2>2, <2>3
<1>6. ASSUME NEW e \in Documents, Deny(e)
      PROVE  Kept(d)'
  BY <1>3, <1>4, <1>6 DEF Deny
<1>7. ASSUME NEW e \in Documents, Pause(e)
      PROVE  Kept(d)'
  <2>1. Reads(e, "token") /\ down' = down /\ session' = [session EXCEPT ![e].at = "paused"]
    BY <1>7 DEF Pause
  <2>2. e # d
    BY <1>0, <2>1 DEF Open, SessionsTyped, SessionState
  <2>3. session'[d] = session[d]
    BY <1>0, <2>1, <2>2 DEF SessionsTyped
  <2> QED
    BY <1>3, <2>1, <2>3
\* The server says a step 1 and an update.
<1>8. ASSUME NEW e \in Documents, NEW X \in SUBSET Updates, NEW Y \in SUBSET Updates,
             \/ down' = down \o <<Update(e, X), Step1(e, Y)>>
             \/ down' = down \o <<Step1(e, Y), Update(e, X)>>
      PROVE  Range(down) \subseteq Range(down') /\ Says(e, "step1", down')
  <2> DEFINE a == Update(e, X)
             b == Step1(e, Y)
  <2>1. a \in Frame /\ b \in Frame /\ b.doc = e /\ b.kind = "step1"
    BY FrameTypes DEF Step1
  <2> HIDE DEF a, b
  <2>2. down' = down \o <<a, b>> \/ down' = down \o <<b, a>>
    BY <1>8 DEF a, b
  <2>3. /\ Range(down \o <<a, b>>) = Range(down) \cup {a, b}
        /\ Range(down \o <<b, a>>) = Range(down) \cup {b, a}
    BY <1>0, <2>1, RangePair
  <2>4. Range(down') = Range(down) \cup {a, b}
    BY <2>2, <2>3
  <2> QED
    BY <1>0, <2>1, <2>4, SaysElements
<1>9. ASSUME NEW e \in Documents, AnswerStep1(e)
      PROVE  Kept(d)'
  <2>1. Reads(e, "step1") /\ session' = session
    BY <1>9 DEF AnswerStep1
  <2>2. CASE Open(e)
    <3>1. InRoom(e).doc \in SUBSET Updates /\ InRoom(e).doc \ Head(up).content \in SUBSET Updates
      BY <2>2, InRoomType
    <3>2. down' = down \o <<Update(e, InRoom(e).doc \ Head(up).content), Step1(e, InRoom(e).doc)>>
      BY <1>9, <2>2 DEF AnswerStep1
    <3>3. Range(down) \subseteq Range(down') /\ Says(e, "step1", down')
      BY <1>8, <3>1, <3>2
    <3> QED
      BY <1>3, <2>1, <3>3 DEF Kept
  <2>3. CASE ~Open(e)
    <3>1. e # d /\ down' = down
      BY <1>9, <2>1, <2>3 DEF Open, AnswerStep1
    <3> QED
      BY <1>3, <2>1, <3>1
  <2> QED
    BY <2>2, <2>3
<1>10. ASSUME NEW e \in Documents, ApplyUpdate(e)
       PROVE  Kept(d)'
  <2>1. Reads(e, "update") /\ down' = down
    BY <1>10, Applying
  <2>2. session'[d].at = session[d].at
    <3>1. \/ session' = session
          \/ session' = Refusing(e, Head(up).content)
          \/ \E m \in Fanout : session' = Broadcast(e, session[e].room, m)
      BY <1>10, Applying
    <3> QED
      BY <1>0, <1>10, <3>1, Applying, BroadcastProperties, RefusingProperties
  <2>3. e = d => Head(up).content \subseteq Doc(d)' \cup session'[d].refused
    <3>1. SUFFICES ASSUME e = d
                   PROVE  Head(up).content \subseteq Doc(d)' \cup session'[d].refused
      OBVIOUS
    <3>2. Open(d) /\ d \notin Readable /\ InRoom(d).doc = Doc(d) /\ session[d].room = 1
      BY <1>0, <2>2, TheRoom DEF Open, Doc
    <3>3. CASE Head(up).content \subseteq InRoom(d).doc
      BY <1>0, <3>2, <3>3
    <3>4. CASE /\ ~(Head(up).content \subseteq InRoom(d).doc)
               /\ session' # Refusing(d, Head(up).content)
      <4>1. PICK X \in SUBSET Head(up).content :
               /\ Head(up).content \subseteq X \cup InRoom(d).doc
               /\ rooms' = Grown(d, 1, X) /\ 1 \in DOMAIN rooms[d]
        BY <1>10, <3>1, <3>2, <3>4, Applying
      <4>2. RoomsTyped(rooms) /\ X \in SUBSET Updates
        BY <1>10, <4>1, Applying, ReadsProperties DEF Places
      <4>3. X \subseteq Doc(d)'
        BY <1>0, <4>1, <4>2, GrownDocs DEF Doc
      <4> QED
        BY <1>0, <3>2, <4>1, <4>3
    <3>5. CASE session' = Refusing(d, Head(up).content)
      BY <1>0, <1>10, <3>5, Applying, RefusingProperties
    <3> QED
      BY <3>3, <3>4, <3>5
  <2> QED
    BY <1>1, <2>1, <2>2, <2>3, KeptAlone DEF Reads
<1>11. ASSUME NEW e \in Documents, CloseDocument(e)
       PROVE  Kept(d)'
  <2>1. /\ Reads(e, "close") /\ down' = down
        /\ session' = session \/ (e # d /\ session' = [session EXCEPT ![e] = None])
    BY <1>0, <1>11 DEF CloseDocument, Open, None, SessionsTyped
  <2>2. session'[d].at = session[d].at
    BY <1>0, <2>1 DEF SessionsTyped
  <2> QED
    BY <1>3, <2>1, <2>2
<1>12. ASSUME NEW e \in Documents, Recheck(e)
       PROVE  Kept(d)'
  <2> DEFINE doc == rooms[e][Registered(e)].doc
  <2>1. /\ up' = up /\ session' = JoinedSession(e)
        /\ down' = down \o <<Step1(e, doc), Update(e, doc)>>
        /\ doc \in SUBSET Updates
    BY <1>0, <1>12, RoomFields DEF Recheck, Registered
  <2> HIDE DEF doc
  <2>2. Range(down) \subseteq Range(down') /\ Says(e, "step1", down')
    BY <1>8, <2>1
  <2>3. CASE e = d
    BY <2>2, <2>3 DEF Kept
  <2>4. CASE e # d
    <3>1. session'[d].at = session[d].at
      BY <1>0, <2>1, <2>4, OpenedType
    <3> QED
      BY <1>1, <2>1, <2>2, <3>1, KeptAlone
  <2> QED
    BY <2>3, <2>4
<1>13. CASE Outgoing \/ Ping \/ Drop
  <2> DEFINE f == Head(outbox)
  <2>1. outbox # <<>> /\ down' = Append(down, f) /\ up' = up /\ session' = session
    BY <1>2, <1>13 DEF Outgoing, Ping, Drop
  <2>2. f \in Frame
    BY <2>1, RangeTail DEF Wires
  <2> HIDE DEF f
  <2>3. Range(down) \subseteq Range(down')
    BY <1>0, <2>1, <2>2, RangeAppend
  <2> QED
    BY <1>1, <2>1, <2>3, KeptAlone
<1> QED
  BY <1>5, <1>6, <1>7, <1>9, <1>10, <1>11, <1>12, <1>13 DEF Task

\* What the room's other peers and the forwarders do.
LEMMA KeptByOthers ==
    ASSUME Wires, Wires', Places, Places', Grows, Recalls, NothingForgotten,
           Elsewhere \/ (\E e \in Documents : Forwarder(e)) \/ UNCHANGED vars,
           NEW d \in wanted' \ Readable, Whole(d)', Open(d)'
    PROVE  Kept(d)'
<1>0. SessionsTyped(session) /\ d \in Documents
  BY DEF Wires, Places
<1>1. ASSUME wanted' = wanted, replica' = replica, up' = up, down' = down,
             session'[d].at = session[d].at
      PROVE  Kept(d)'
  BY <1>1, KeptAlone
<1>2. ASSUME NEW e \in Documents, NEW m \in Fanout, NEW r, session' = Broadcast(e, r, m)
      PROVE  session'[d].at = session[d].at
  BY <1>0, <1>2, BroadcastProperties
<1>3. CASE Elsewhere
  <2>1. PICK e \in Documents : Noise(e) \/ Delete(e) \/ \E u \in Updates : Others(e, u)
    BY <1>3 DEF Elsewhere
  <2>2. \E X \in SUBSET Updates, kind \in {"other", "closed"} :
           session' = Broadcast(e, Registered(e), [kind |-> kind, content |-> X])
    BY <2>1 DEF Noise, Delete, Others
  <2>3. session'[d].at = session[d].at
    BY <1>2, <2>2 DEF Fanout
  <2> QED
    BY <1>1, <2>1, <2>3 DEF Noise, Delete, Others
<1>4. ASSUME NEW e \in Documents, Forwarder(e)
      PROVE  Kept(d)'
  BY <1>0, <1>1, <1>4, ForwarderSteps
<1>5. CASE UNCHANGED vars
  BY <1>1, <1>5 DEF vars
<1> QED
  BY <1>3, <1>4, <1>5

\* NothingForgotten and what it rests on.
Keeping ==
    Placed /\ OfflineIsEmpty /\ HelloOrder /\ ClientHolds /\ RoomSays /\ NothingForgotten

LEMMA KeepingInit == Init => Keeping
<1> SUFFICES ASSUME Init PROVE Keeping
  OBVIOUS
<1>1. Exchange
  BY ExchangeInit
<1>2. /\ down = <<>> /\ outbox = <<>> /\ wanted = {}
      /\ session = [d \in Documents |-> None]
  BY DEF Init
<1>4. Range(<<>>) = {}
  BY DEF Range
<1>5. RoomSays
  BY <1>2, <1>4 DEF RoomSays, None
<1> QED
  BY <1>1, <1>2, <1>5 DEF Keeping, Exchange, NothingForgotten

LEMMA KeepingStep == Keeping /\ [Next]_vars => Keeping'
<1> SUFFICES ASSUME Keeping, [Next]_vars PROVE Keeping'
  OBVIOUS
<1>1. Wires /\ Places /\ PeersAreOpen
  BY Halves DEF Keeping, Placed
<1>2. Placed' /\ Wires' /\ Places'
  BY <1>1, PlacedStep, WiresStep, PlacesStep DEF Keeping
<1>3. OfflineIsEmpty' /\ HelloOrder' /\ ClientHolds'
  BY <1>1, OfflineStep, UpStep DEF Keeping
<1>4. Grows /\ Recalls
  BY <1>1, DocsGrow, RefusalsStay DEF Keeping
<1>5. RoomSays'
  BY <1>1, <1>4, RoomSaysStep DEF Keeping
<1>6. ASSUME NEW d \in wanted' \ Readable, Whole(d)', Open(d)'
      PROVE  Kept(d)'
  <2>1. CASE Client
    <3>1. Registered(d) = 1
      BY <1>1, <1>2, <1>4, <1>6, TheRoom DEF Grows, Wires
    <3>2. d \in wanted /\ Open(d) => Kept(d)
      BY <1>6, <3>1 DEF Keeping, NothingForgotten, Kept
    <3> QED
      BY <1>1, <1>2, <1>4, <1>6, <2>1, <3>2, KeptByClient DEF Keeping
  <2>2. CASE Task
    BY <1>1, <1>2, <1>4, <1>6, <2>2, KeptByTask DEF Keeping
  <2>3. CASE Elsewhere \/ (\E e \in Documents : Forwarder(e)) \/ UNCHANGED vars
    BY <1>1, <1>2, <1>4, <1>6, <2>3, KeptByOthers DEF Keeping
  <2> QED
    BY <2>1, <2>2, <2>3 DEF Next
<1>7. NothingForgotten'
  <2>1. ASSUME NEW d \in wanted' \ Readable, Registered(d)' = 1
        PROVE  Whole(d)'
    <3>1. RoomsTyped(rooms')
      BY <1>2 DEF Places, RoomsTyped
    <3>2. DOMAIN rooms'[d] = {1}
      BY <2>1, <3>1, OneRoom DEF Registered
    <3> QED
      BY <3>2 DEF Whole
  <2> QED
    BY <1>6, <2>1 DEF NothingForgotten, Kept
<1> QED
  BY <1>2, <1>3, <1>4, <1>5, <1>7 DEF Keeping

\* Until somebody deletes it, what the client wrote in an open document is in its
\* room, on its way there, or asked for by a step 1 on the way, or the session
\* told it that the document is full: also what it wrote while the document was
\* paused or the socket closed, and whatever order pauses, refusals, closes and
\* reconnections come in (hocuspocus.rs relay, recheck, authenticate;
\* session.rs apply; room.rs apply).
THEOREM NothingForgottenTheorem == Spec => []NothingForgotten
<1>1. Keeping => NothingForgotten
  BY DEF Keeping
<1> QED
  BY <1>1, KeepingInit, KeepingStep, PTL DEF Spec
=============================================================================
