-------------------------- MODULE YWebsocket_proofs --------------------------
(***************************************************************************)
(* No edit of a y-websocket client is lost on the way, none of its room is *)
(* missed and none is left without what it builds on: for any number of    *)
(* clients, edits and troubles, any buffers and any size of a document.    *)
(***************************************************************************)
EXTENDS YWebsocket, Functions, TLAPS, FiniteSetTheorems, SequenceTheorems

(***************************************************************************)
(* Channels as the sets of what is in them.                                *)
(***************************************************************************)
\* What is appended is in it, and nothing else is new.
LEMMA RangeAppend ==
    ASSUME NEW S, NEW s \in Seq(S), NEW e \in S
    PROVE  /\ Append(s, e) \in Seq(S)
           /\ Range(Append(s, e)) = Range(s) \cup {e}
<1>1. /\ Append(s, e) \in Seq(S)
      /\ Len(Append(s, e)) = Len(s) + 1
      /\ \A i \in 1..Len(s) : Append(s, e)[i] = s[i]
      /\ Append(s, e)[Len(s) + 1] = e
  BY AppendProperties
<1>2. DOMAIN s = 1..Len(s) /\ DOMAIN Append(s, e) = 1..(Len(s) + 1) /\ Len(s) \in Nat
  BY <1>1, LenProperties
<1> QED
  BY <1>1, <1>2 DEF Range

\* What is left, and the first one, were in it.
LEMMA RangeTail ==
    ASSUME NEW S, NEW s \in Seq(S), s # <<>>
    PROVE  /\ Head(s) \in S
           /\ Tail(s) \in Seq(S)
           /\ Len(Tail(s)) = Len(s) - 1
           /\ Range(s) = {Head(s)} \cup Range(Tail(s))
<1>1. /\ Head(s) \in S
      /\ Tail(s) \in Seq(S)
      /\ Len(Tail(s)) = Len(s) - 1
      /\ \A i \in 1..Len(Tail(s)) : Tail(s)[i] = s[i + 1]
  BY HeadTailProperties
<1>2. DOMAIN s = 1..Len(s) /\ DOMAIN Tail(s) = 1..(Len(s) - 1) /\ Len(s) \in Nat \ {0}
  BY <1>1, LenProperties, EmptySeq
<1>3. Head(s) = s[1]
  OBVIOUS
<1>5. ASSUME NEW i \in 1..Len(s)
      PROVE  s[i] \in {Head(s)} \cup Range(Tail(s))
  <2>1. CASE i = 1
    BY <2>1, <1>3
  <2>2. CASE i # 1
    <3>1. i - 1 \in 1..(Len(s) - 1) /\ (i - 1) + 1 = i
      BY <2>2, <1>2
    <3>2. Tail(s)[i - 1] = s[i]
      BY <3>1, <1>1
    <3> QED
      BY <3>1, <3>2, <1>2 DEF Range
  <2> QED
    BY <2>1, <2>2
<1>6. {Head(s)} \cup Range(Tail(s)) \subseteq Range(s)
  <2>1. 1 \in 1..Len(s) /\ \A i \in 1..(Len(s) - 1) : i + 1 \in 1..Len(s)
    BY <1>2
  <2> QED
    BY <1>1, <1>2, <1>3, <2>1 DEF Range
<1> QED
  BY <1>1, <1>2, <1>5, <1>6 DEF Range

(***************************************************************************)
(* Tables by number, to which one is added, or in which one is changed.    *)
(***************************************************************************)
\* A sequence with an element more.
LEMMA LongerSeq ==
    ASSUME NEW S, NEW seq \in Seq(S), NEW x \in S, NEW new, new = Append(seq, x)
    PROVE  /\ new \in Seq(S)
           /\ Len(seq) \in Nat
           /\ Len(seq) + 1 \notin DOMAIN seq
           /\ DOMAIN new = DOMAIN seq \cup {Len(seq) + 1}
           /\ \A i \in DOMAIN seq : new[i] = seq[i]
           /\ new[Len(seq) + 1] = x
<1>1. /\ new \in Seq(S)
      /\ Len(new) = Len(seq) + 1
      /\ \A i \in 1 .. Len(seq) : new[i] = seq[i]
      /\ new[Len(seq) + 1] = x
  BY AppendProperties
<1>2. DOMAIN seq = 1 .. Len(seq) /\ DOMAIN new = 1 .. Len(seq) + 1 /\ Len(seq) \in Nat
  BY <1>1, LenProperties
<1> QED
  BY <1>1, <1>2

\* A sequence with an element changed.
LEMMA ChangedSeq ==
    ASSUME NEW S, NEW seq \in Seq(S), NEW i \in DOMAIN seq, NEW x \in S,
           NEW new, new = [seq EXCEPT ![i] = x]
    PROVE  /\ new \in Seq(S)
           /\ DOMAIN new = DOMAIN seq
           /\ \A j \in DOMAIN seq \ {i} : new[j] = seq[j]
           /\ new[i] = x
<1>1. new \in Seq(S)
  BY ExceptSeq, LenProperties
<1> QED
  BY <1>1

(***************************************************************************)
(* Types.  All that is written is finite: a full document stays full.      *)
(***************************************************************************)

Edits == {S \in SUBSET Updates : IsFiniteSet(S)}
FrameType == [kind: {"step1", "update"}, content: Edits]
MessageType == [from: Clients \cup {Server}, closed: BOOLEAN, content: Edits]
SessionType ==
    [at: {"off", "admitting", "holding", "greet", "relay"}, paused: BOOLEAN,
     room: Nat, queue: Seq(MessageType), lagged: BOOLEAN]
RoomType == [doc: Edits, held: Edits]

\* A session: within its capacity, and in a room that exists.
Seated(s, ids) ==
    /\ s \in SessionType
    /\ Len(s.queue) <= FanoutCapacity
    /\ s.at \in {"greet", "relay"} => s.room \in ids

RoomIds == DOMAIN rooms

WiresInv ==
    /\ replica \in [Clients -> Edits]
    /\ up \in [Clients -> Seq(FrameType)]
    /\ down \in [Clients -> Seq(FrameType)]

SessionsInv ==
    /\ session = [c \in Clients |-> session[c]]
    /\ \A c \in Clients : Seated(session[c], RoomIds)

RoomsInv == rooms \in Seq(RoomType) /\ rooms # <<>>

TypeInv ==
    /\ WiresInv
    /\ SessionsInv
    /\ RoomsInv
    /\ events \in 0 .. MaxEvents

-----------------------------------------------------------------------------
(***************************************************************************)
(* Frames.                                                                 *)
(***************************************************************************)

\* What a sequence carries, by its elements.
LEMMA CarriedElements ==
    ASSUME NEW s
    PROVE  /\ \A x : x \in Carried(s) <=> \E f \in Range(s) : x \in f.content
           /\ \A x : x \in CarriedUpdates(s) <=> \E f \in Range(s) : f.kind = "update" /\ x \in f.content
           /\ HasStep1(s) <=> \E f \in Range(s) : f.kind = "step1"
BY DEF Carried, CarriedUpdates, HasStep1, Range

\* What a sequence carries that has one element more than another.
LEMMA CarriedSum ==
    ASSUME NEW s, NEW t, NEW f, Range(s) = Range(t) \cup {f}
    PROVE  Carried(s) = Carried(t) \cup f.content
<1>1. \A x : x \in Carried(s) <=> x \in Carried(t) \/ x \in f.content
  BY CarriedElements
<1> QED
  BY <1>1

\* The same, with what of it clients will hold, and its questions.
LEMMA CarriedMore ==
    ASSUME NEW s, NEW t, NEW f, Range(s) = Range(t) \cup {f}
    PROVE  /\ Carried(s) = Carried(t) \cup f.content
           /\ f.kind = "update" => CarriedUpdates(s) = CarriedUpdates(t) \cup f.content
           /\ f.kind # "update" => CarriedUpdates(s) = CarriedUpdates(t)
           /\ HasStep1(s) <=> f.kind = "step1" \/ HasStep1(t)
<1>1. Carried(s) = Carried(t) \cup f.content
  BY CarriedSum
<1>2. \A x : x \in CarriedUpdates(s) <=> x \in CarriedUpdates(t) \/ (f.kind = "update" /\ x \in f.content)
  BY CarriedElements
<1>3. HasStep1(s) <=> f.kind = "step1" \/ HasStep1(t)
  BY CarriedElements
<1> QED
  BY <1>1, <1>2, <1>3

\* A frame is sent.
LEMMA FramesAppend ==
    ASSUME NEW s \in Seq(FrameType), NEW f \in FrameType, NEW new, new = Append(s, f)
    PROVE  /\ new \in Seq(FrameType)
           /\ Carried(new) = Carried(s) \cup f.content
           /\ f.kind = "update" => CarriedUpdates(new) = CarriedUpdates(s) \cup f.content
           /\ f.kind # "update" => CarriedUpdates(new) = CarriedUpdates(s)
           /\ HasStep1(new) <=> f.kind = "step1" \/ HasStep1(s)
<1>1. new \in Seq(FrameType) /\ Range(new) = Range(s) \cup {f}
  BY RangeAppend
<1> QED
  BY <1>1, CarriedMore

\* A frame is read.
LEMMA FramesTail ==
    ASSUME NEW s \in Seq(FrameType), s # <<>>
    PROVE  /\ Head(s) \in FrameType
           /\ Tail(s) \in Seq(FrameType)
           /\ Carried(s) = Carried(Tail(s)) \cup Head(s).content
           /\ Head(s).kind = "update" =>
                CarriedUpdates(s) = CarriedUpdates(Tail(s)) \cup Head(s).content
           /\ Head(s).kind # "update" => CarriedUpdates(s) = CarriedUpdates(Tail(s))
           /\ HasStep1(s) <=> Head(s).kind = "step1" \/ HasStep1(Tail(s))
<1> DEFINE f == Head(s)
           new == Tail(s)
<1>1. f \in FrameType /\ new \in Seq(FrameType) /\ Range(s) = Range(new) \cup {f}
  BY RangeTail
<1> HIDE DEF f, new
<1>2. \A x, y, z : Range(x) = Range(y) \cup {z} =>
         /\ Carried(x) = Carried(y) \cup z.content
         /\ z.kind = "update" => CarriedUpdates(x) = CarriedUpdates(y) \cup z.content
         /\ z.kind # "update" => CarriedUpdates(x) = CarriedUpdates(y)
         /\ HasStep1(x) <=> z.kind = "step1" \/ HasStep1(y)
  BY CarriedMore
<1>3. /\ Carried(s) = Carried(new) \cup f.content
      /\ f.kind = "update" => CarriedUpdates(s) = CarriedUpdates(new) \cup f.content
      /\ f.kind # "update" => CarriedUpdates(s) = CarriedUpdates(new)
      /\ HasStep1(s) <=> f.kind = "step1" \/ HasStep1(new)
  BY <1>1, <1>2
<1> QED
  BY <1>1, <1>3 DEF f, new

\* No frames, and the frames of a new connection.
LEMMA FramesNone ==
    /\ <<>> \in Seq(FrameType) /\ <<>> \in Seq(MessageType)
    /\ Carried(<<>>) = {} /\ CarriedUpdates(<<>>) = {} /\ ~HasStep1(<<>>)
<1>1. <<>> \in Seq(FrameType) /\ <<>> \in Seq(MessageType)
  BY EmptySeq
<1>2. DOMAIN <<>> = {}
  BY EmptySeq
<1> QED
  BY <1>1, <1>2 DEF Carried, CarriedUpdates, HasStep1

LEMMA FramesOne ==
    ASSUME NEW f \in FrameType
    PROVE  /\ <<f>> \in Seq(FrameType)
           /\ Carried(<<f>>) = f.content
           /\ f.kind # "update" => CarriedUpdates(<<f>>) = {}
           /\ HasStep1(<<f>>) <=> f.kind = "step1"
<1>1. <<>> \in Seq(FrameType) /\ <<f>> = Append(<<>>, f)
  BY FramesNone
<1> DEFINE new == <<f>>
<1>2. new = Append(<<>>, f)
  BY <1>1
<1> HIDE DEF new
<1>3. /\ new \in Seq(FrameType)
      /\ Carried(new) = Carried(<<>>) \cup f.content
      /\ f.kind # "update" => CarriedUpdates(new) = CarriedUpdates(<<>>)
      /\ HasStep1(new) <=> f.kind = "step1" \/ HasStep1(<<>>)
  BY <1>1, <1>2, FramesAppend
<1> QED
  BY <1>3, FramesNone DEF new

\* All updates carried are carried.
LEMMA CarriedAll ==
    ASSUME NEW s PROVE CarriedUpdates(s) \subseteq Carried(s)
BY CarriedElements

\* Frames and messages of finitely many edits.
LEMMA EditsFinite ==
    ASSUME NEW S \in Edits, NEW T \in Edits
    PROVE  /\ S \cup T \in Edits
           /\ \A U : U \subseteq S => U \in Edits
           /\ S \ T \in Edits
           /\ {} \in Edits
           /\ Cardinality(S) \in Nat
           /\ S \subseteq T => Cardinality(S) <= Cardinality(T)
<1>1. IsFiniteSet(S) /\ IsFiniteSet(T) /\ S \subseteq Updates /\ T \subseteq Updates
  BY DEF Edits
<1>2. IsFiniteSet(S \cup T)
  BY <1>1, FS_Union
<1>3. \A U : U \subseteq S => IsFiniteSet(U)
  BY <1>1, FS_Subset
<1>4. IsFiniteSet({})
  BY FS_EmptySet
<1>5. Cardinality(S) \in Nat
  BY <1>1, FS_CardinalityType
<1>6. S \subseteq T => Cardinality(S) <= Cardinality(T)
  BY <1>1, FS_Subset
<1> QED
  BY <1>1, <1>2, <1>3, <1>4, <1>5, <1>6 DEF Edits

LEMMA FrameTypes ==
    ASSUME NEW S \in Edits, NEW c \in Clients
    PROVE  /\ Step1(S) \in FrameType /\ Step1(S).kind = "step1" /\ Step1(S).content = S
           /\ Update(S) \in FrameType /\ Update(S).kind = "update" /\ Update(S).content = S
           /\ Message(c, S) \in MessageType /\ Message(c, S).content = S
           /\ Message(c, S).from = c /\ ~Message(c, S).closed
           /\ Closed \in MessageType /\ Closed.content = {}
<1>1. {} \in Edits
  BY EditsFinite
<1> QED
  BY <1>1 DEF Step1, Update, Message, Closed, FrameType, MessageType

-----------------------------------------------------------------------------
(***************************************************************************)
(* Broadcasts.                                                             *)
(***************************************************************************)

\* What the first i broadcasts of a receiver carry from others.
FromOthers(c, q, i) == UNION {q[j].content : j \in {k \in 1 .. i : q[k].from # c}}

LEMMA FromOthersElements ==
    ASSUME NEW c, NEW q, NEW i
    PROVE  \A x : x \in FromOthers(c, q, i) <=> \E k \in 1 .. i : q[k].from # c /\ x \in q[k].content
BY DEF FromOthers

\* A broadcast more, and all of them.
LEMMA PassedMore ==
    ASSUME NEW c, NEW q \in Seq(MessageType), NEW m \in MessageType
    PROVE  FromOthers(c, Append(q, m), Len(Append(q, m))) =
               FromOthers(c, q, Len(q)) \cup IF m.from = c THEN {} ELSE m.content
<1> DEFINE new == Append(q, m)
<1>1. /\ Len(new) = Len(q) + 1
      /\ \A i \in 1 .. Len(q) : new[i] = q[i]
      /\ new[Len(q) + 1] = m
      /\ Len(q) \in Nat
  BY AppendProperties, LenProperties
<1> HIDE DEF new
<1>2. \A k : k \in 1 .. Len(new) <=> k \in 1 .. Len(q) \/ k = Len(q) + 1
  BY <1>1
<1>3. /\ \A x : x \in FromOthers(c, new, Len(new)) <=>
                  \E k \in 1 .. Len(new) : new[k].from # c /\ x \in new[k].content
      /\ \A x : x \in FromOthers(c, q, Len(q)) <=>
                  \E k \in 1 .. Len(q) : q[k].from # c /\ x \in q[k].content
  BY FromOthersElements
<1>4. \A x : x \in FromOthers(c, new, Len(new)) <=>
               x \in FromOthers(c, q, Len(q)) \/ (m.from # c /\ x \in m.content)
  BY <1>1, <1>2, <1>3
<1>5. FromOthers(c, new, Len(new)) = FromOthers(c, q, Len(q)) \cup IF m.from = c THEN {} ELSE m.content
  BY <1>4
<1> QED
  BY <1>5 DEF new

\* The broadcasts before it.
LEMMA FromOthersBefore ==
    ASSUME NEW c, NEW q \in Seq(MessageType), NEW m \in MessageType, NEW new, new = Append(q, m),
           NEW i \in 0 .. Len(q)
    PROVE  FromOthers(c, new, i) = FromOthers(c, q, i)
<1>1. \A k \in 1 .. i : new[k] = q[k]
  BY AppendProperties, LenProperties
<1>2. /\ \A x : x \in FromOthers(c, new, i) <=> \E k \in 1 .. i : new[k].from # c /\ x \in new[k].content
      /\ \A x : x \in FromOthers(c, q, i) <=> \E k \in 1 .. i : q[k].from # c /\ x \in q[k].content
  BY FromOthersElements
<1>3. \A x : x \in FromOthers(c, new, i) <=> x \in FromOthers(c, q, i)
  BY <1>1, <1>2
<1> QED
  BY <1>3

\* A broadcast more.
LEMMA FromOthersAppend ==
    ASSUME NEW c, NEW q \in Seq(MessageType), NEW m \in MessageType, NEW new, new = Append(q, m)
    PROVE  /\ new \in Seq(MessageType)
           /\ Len(new) = Len(q) + 1
           /\ Carried(new) = Carried(q) \cup m.content
           /\ \A i \in 0 .. Len(q) : FromOthers(c, new, i) = FromOthers(c, q, i)
           /\ m.from # c => FromOthers(c, new, Len(new)) = FromOthers(c, q, Len(q)) \cup m.content
           /\ m.from = c => FromOthers(c, new, Len(new)) = FromOthers(c, q, Len(q))
<1>1. /\ new \in Seq(MessageType)
      /\ Len(new) = Len(q) + 1
      /\ \A i \in 1 .. Len(q) : new[i] = q[i]
      /\ new[Len(q) + 1] = m
      /\ Len(q) \in Nat
  BY AppendProperties, LenProperties
<1>2. Carried(new) = Carried(q) \cup m.content
  <2>1. Range(new) = Range(q) \cup {m}
    BY RangeAppend
  <2>2. \A x : x \in Carried(new) <=> \E f \in Range(new) : x \in f.content
    BY CarriedElements
  <2>3. \A x : x \in Carried(q) <=> \E f \in Range(q) : x \in f.content
    BY CarriedElements
  <2>4. \A x : x \in Carried(new) <=> x \in Carried(q) \/ x \in m.content
    BY <2>1, <2>2, <2>3
  <2> QED
    BY <2>4
<1>3. \A i \in 0 .. Len(q) : FromOthers(c, new, i) = FromOthers(c, q, i)
  BY FromOthersBefore, Zenon
<1>4. /\ m.from # c => FromOthers(c, new, Len(new)) = FromOthers(c, q, Len(q)) \cup m.content
      /\ m.from = c => FromOthers(c, new, Len(new)) = FromOthers(c, q, Len(q))
  <2>1. FromOthers(c, Append(q, m), Len(Append(q, m))) =
            FromOthers(c, q, Len(q)) \cup IF m.from = c THEN {} ELSE m.content
    <3>1. \A x \in Seq(MessageType), y \in MessageType :
              FromOthers(c, Append(x, y), Len(Append(x, y))) =
                FromOthers(c, x, Len(x)) \cup IF y.from = c THEN {} ELSE y.content
      BY PassedMore, Zenon
    <3> QED
      BY <3>1, Zenon
  <2>2. FromOthers(c, new, Len(new)) = FromOthers(c, q, Len(q)) \cup IF m.from = c THEN {} ELSE m.content
    BY <2>1
  <2> QED
    BY <2>2
<1> QED
  BY <1>1, <1>2, <1>3, <1>4

\* The first broadcast is read.
LEMMA FromOthersTail ==
    ASSUME NEW c, NEW q \in Seq(MessageType), q # <<>>
    PROVE  /\ Head(q) \in MessageType
           /\ Tail(q) \in Seq(MessageType)
           /\ Len(Tail(q)) = Len(q) - 1
           /\ Carried(q) = Carried(Tail(q)) \cup Head(q).content
           /\ \A i \in 0 .. Len(Tail(q)) :
                /\ i + 1 \in 0 .. Len(q)
                /\ Head(q).from # c =>
                     FromOthers(c, q, i + 1) = FromOthers(c, Tail(q), i) \cup Head(q).content
                /\ Head(q).from = c => FromOthers(c, q, i + 1) = FromOthers(c, Tail(q), i)
<1> DEFINE m == Head(q)
           new == Tail(q)
<1>1. /\ m \in MessageType
      /\ new \in Seq(MessageType)
      /\ Len(new) = Len(q) - 1
      /\ Range(q) = Range(new) \cup {m}
  BY RangeTail
<1>2. /\ Len(q) \in Nat \ {0}
      /\ m = q[1]
      /\ \A k \in 1 .. Len(new) : new[k] = q[k + 1]
  BY HeadTailProperties, LenProperties, EmptySeq
<1> HIDE DEF m, new
<1>3. Carried(q) = Carried(new) \cup m.content
  <2>1. Range(q) = Range(new) \cup {m}
    BY <1>1
  <2> QED
    BY <2>1, CarriedSum
<1>4. ASSUME NEW i \in 0 .. Len(new)
      PROVE  \A x : x \in FromOthers(c, q, i + 1) <=>
                     x \in FromOthers(c, new, i) \/ (m.from # c /\ x \in m.content)
  <2>1. \A k \in 1 .. i : new[k] = q[k + 1] /\ k + 1 \in 1 .. i + 1
    BY <1>1, <1>2
  <2>2. ASSUME NEW x, x \in FromOthers(c, q, i + 1)
        PROVE  x \in FromOthers(c, new, i) \/ (m.from # c /\ x \in m.content)
    <3>1. PICK k \in 1 .. i + 1 : q[k].from # c /\ x \in q[k].content
      BY <2>2, FromOthersElements
    <3>2. CASE k = 1
      BY <1>2, <3>1, <3>2
    <3>3. CASE k # 1
      <4>1. k - 1 \in 1 .. i /\ new[k - 1] = q[k]
        BY <1>1, <1>2, <2>1, <3>3
      <4> QED
        BY <3>1, <4>1, FromOthersElements
    <3> QED
      BY <3>2, <3>3
  <2>3. ASSUME NEW x, x \in FromOthers(c, new, i) \/ (m.from # c /\ x \in m.content)
        PROVE  x \in FromOthers(c, q, i + 1)
    <3>1. CASE x \in FromOthers(c, new, i)
      <4>1. PICK k \in 1 .. i : new[k].from # c /\ x \in new[k].content
        BY <3>1, FromOthersElements
      <4> QED
        BY <2>1, <4>1, FromOthersElements
    <3>2. CASE m.from # c /\ x \in m.content
      <4>1. 1 \in 1 .. i + 1
        BY <1>1, <1>2
      <4> QED
        BY <1>2, <3>2, <4>1, FromOthersElements
    <3> QED
      BY <2>3, <3>1, <3>2
  <2> QED
    BY <2>2, <2>3
<1>5. ASSUME NEW i \in 0 .. Len(new)
      PROVE  /\ i + 1 \in 0 .. Len(q)
             /\ m.from # c => FromOthers(c, q, i + 1) = FromOthers(c, new, i) \cup m.content
             /\ m.from = c => FromOthers(c, q, i + 1) = FromOthers(c, new, i)
  <2>1. i + 1 \in 0 .. Len(q)
    BY <1>1, <1>2
  <2>2. m.from # c => FromOthers(c, q, i + 1) = FromOthers(c, new, i) \cup m.content
    BY <1>4
  <2>3. m.from = c => FromOthers(c, q, i + 1) = FromOthers(c, new, i)
    BY <1>4
  <2> QED
    BY <2>1, <2>2, <2>3
<1> QED
  BY <1>1, <1>3, <1>5 DEF m, new

\* What a session gets of a broadcast, and what it may lose.
LEMMA EnqueueEffect ==
    ASSUME NEW ids, NEW s, Seated(s, ids), NEW m \in MessageType, NEW new, new = Enqueue(s, m)
    PROVE  /\ Seated(new, ids)
           /\ new.at = s.at /\ new.room = s.room /\ new.paused = s.paused
           /\ Carried(new.queue) \subseteq Carried(s.queue) \cup m.content
           /\ \/ new.lagged
              \/ new.lagged = s.lagged /\ new.queue = Append(s.queue, m)
<1> DEFINE q == s.queue
<1>0. q \in Seq(MessageType) /\ Len(q) \in Nat /\ s \in SessionType /\ Len(q) <= FanoutCapacity
  BY LenProperties DEF SessionType, Seated
<1>1. CASE Len(q) < FanoutCapacity
  <2>1. new = [s EXCEPT !.queue = Append(q, m)]
    BY <1>1 DEF Enqueue
  <2>2. /\ Append(q, m) \in Seq(MessageType) /\ Len(Append(q, m)) = Len(q) + 1
        /\ Carried(Append(q, m)) = Carried(q) \cup m.content
    BY <1>0, FromOthersAppend
  <2>3. Len(Append(q, m)) <= FanoutCapacity
    BY <2>2, <1>0, <1>1, YWebsocketAssumption
  <2> HIDE DEF q
  <2>4. /\ new \in SessionType /\ new.queue = Append(q, m) /\ new.lagged = s.lagged
        /\ new.at = s.at /\ new.room = s.room /\ new.paused = s.paused
    BY <1>0, <2>1, <2>2 DEF SessionType
  <2> QED
    BY <2>2, <2>3, <2>4 DEF Seated, q
<1>2. CASE ~(Len(q) < FanoutCapacity)
  <2>1. new = [s EXCEPT !.queue = Append(Tail(q), m), !.lagged = TRUE]
    BY <1>2 DEF Enqueue
  <2>2. q # <<>> /\ Len(q) = FanoutCapacity
    BY <1>0, <1>2, YWebsocketAssumption, EmptySeq
  <2> DEFINE t == Tail(q)
  <2>3. t \in Seq(MessageType) /\ Len(t) = Len(q) - 1 /\ Carried(t) \subseteq Carried(q)
    BY <1>0, <2>2, FromOthersTail
  <2> HIDE DEF t
  <2>4. /\ Append(t, m) \in Seq(MessageType) /\ Len(Append(t, m)) = Len(t) + 1
        /\ Carried(Append(t, m)) = Carried(t) \cup m.content
    BY <2>3, FromOthersAppend
  <2>5. Len(Append(t, m)) <= FanoutCapacity
    BY <1>0, <2>2, <2>3, <2>4
  <2>6. new = [s EXCEPT !.queue = Append(t, m), !.lagged = TRUE]
    BY <2>1 DEF t
  <2> HIDE DEF q
  <2>7. /\ new \in SessionType /\ new.queue = Append(t, m) /\ new.lagged
        /\ new.at = s.at /\ new.room = s.room /\ new.paused = s.paused
    BY <1>0, <2>4, <2>6 DEF SessionType
  <2>8. Carried(new.queue) \subseteq Carried(q) \cup m.content
    BY <2>3, <2>4, <2>7
  <2> QED
    BY <2>5, <2>7, <2>8 DEF Seated, q
<1> QED
  BY <1>1, <1>2

\* A session hears of a message, if it is in the room.
Hears(c, r, m) ==
    IF In(c) /\ session[c].room = r THEN session'[c] = Enqueue(session[c], m)
    ELSE session'[c] = session[c]

LEMMA BroadcastEffect ==
    ASSUME SessionsInv, NEW r, NEW m \in MessageType, session' = Broadcast(session, r, m)
    PROVE  /\ session' = [c \in Clients |-> session'[c]]
           /\ \A c \in Clients : Hears(c, r, m)
           /\ \A c \in Clients : Seated(session'[c], RoomIds)
<1>1. session' = [c \in Clients |-> IF c \in Present(r) THEN Enqueue(session[c], m) ELSE session[c]]
  BY DEF Broadcast
<1>2. \A c \in Clients : session'[c] = IF c \in Present(r) THEN Enqueue(session[c], m) ELSE session[c]
  BY <1>1
<1>3. \A c \in Clients : Hears(c, r, m)
  BY <1>2 DEF Hears, Present
<1>4. session' = [c \in Clients |-> session'[c]]
  BY <1>1
<1>5. \A c \in Clients : Seated(session'[c], RoomIds)
  BY <1>2, EnqueueEffect DEF SessionsInv
<1> QED
  BY <1>3, <1>4, <1>5

-----------------------------------------------------------------------------
(***************************************************************************)
(* The effect of each step.                                                *)
(***************************************************************************)

\* The sessions a step makes.
Entering == [Off EXCEPT !.at = "admitting"]
Moved(s, at) == [s EXCEPT !.at = at]
Paused(s) == [s EXCEPT !.at = "holding", !.paused = TRUE]
Joined(s, r) == [s EXCEPT !.at = "greet", !.room = r]
Heard(s) == [s EXCEPT !.queue = Tail(@)]

\* What they hold.
LEMMA SessionFields ==
    ASSUME NEW ids, NEW s, Seated(s, ids)
    PROVE  /\ s \in SessionType /\ s.queue \in Seq(MessageType)
           /\ \A at \in {"admitting", "relay"} :
                /\ Moved(s, at).at = at /\ Moved(s, at).paused = s.paused /\ Moved(s, at).room = s.room
                /\ Moved(s, at).queue = s.queue /\ Moved(s, at).lagged = s.lagged
                /\ at = "admitting" \/ s.at = "greet" => Seated(Moved(s, at), ids)
           /\ Paused(s).at = "holding" /\ Paused(s).paused /\ Paused(s).room = s.room
           /\ Paused(s).queue = s.queue /\ Paused(s).lagged = s.lagged /\ Seated(Paused(s), ids)
           /\ \A r \in Nat :
                /\ Joined(s, r).at = "greet" /\ Joined(s, r).paused = s.paused /\ Joined(s, r).room = r
                /\ Joined(s, r).queue = s.queue /\ Joined(s, r).lagged = s.lagged
                /\ r \in ids => Seated(Joined(s, r), ids)
           /\ Heard(s).at = s.at /\ Heard(s).paused = s.paused /\ Heard(s).room = s.room
           /\ Heard(s).queue = Tail(s.queue) /\ Heard(s).lagged = s.lagged
           /\ s.queue # <<>> => Seated(Heard(s), ids)
<1>1. s \in SessionType /\ s.queue \in Seq(MessageType) /\ Len(s.queue) <= FanoutCapacity
  BY DEF Seated, SessionType
<1>2. \A at \in {"admitting", "relay"} :
                /\ Moved(s, at).at = at /\ Moved(s, at).paused = s.paused /\ Moved(s, at).room = s.room
                /\ Moved(s, at).queue = s.queue /\ Moved(s, at).lagged = s.lagged
                /\ at = "admitting" \/ s.at = "greet" => Seated(Moved(s, at), ids)
  BY <1>1 DEF Moved, Seated, SessionType
<1>3. /\ Paused(s).at = "holding" /\ Paused(s).paused /\ Paused(s).room = s.room
      /\ Paused(s).queue = s.queue /\ Paused(s).lagged = s.lagged /\ Seated(Paused(s), ids)
  BY <1>1 DEF Paused, Seated, SessionType
<1>4. \A r \in Nat :
                /\ Joined(s, r).at = "greet" /\ Joined(s, r).paused = s.paused /\ Joined(s, r).room = r
                /\ Joined(s, r).queue = s.queue /\ Joined(s, r).lagged = s.lagged
                /\ r \in ids => Seated(Joined(s, r), ids)
  BY <1>1 DEF Joined, Seated, SessionType
<1>5. /\ Heard(s).at = s.at /\ Heard(s).paused = s.paused /\ Heard(s).room = s.room
      /\ Heard(s).queue = Tail(s.queue) /\ Heard(s).lagged = s.lagged
      /\ s.queue # <<>> => Seated(Heard(s), ids)
  <2> DEFINE t == Tail(s.queue)
  <2>1. s.queue # <<>> => t \in Seq(MessageType) /\ Len(t) = Len(s.queue) - 1
    BY <1>1, FromOthersTail
  <2>2. Len(s.queue) \in Nat
    BY <1>1, LenProperties
  <2>3. Heard(s) = [s EXCEPT !.queue = t]
    BY DEF Heard
  <2>4. s.queue # <<>> => Len(t) <= FanoutCapacity
    BY <1>1, <2>1, <2>2, YWebsocketAssumption
  <2> HIDE DEF t
  <2>5. /\ Heard(s).at = s.at /\ Heard(s).paused = s.paused /\ Heard(s).room = s.room
        /\ Heard(s).queue = t /\ Heard(s).lagged = s.lagged
    BY <1>1, <2>3 DEF SessionType
  <2>6. s.queue # <<>> => Heard(s) \in SessionType
    BY <1>1, <2>1, <2>3 DEF SessionType
  <2> QED
    BY <2>1, <2>4, <2>5, <2>6 DEF Seated, t
<1> QED
  BY <1>1, <1>2, <1>3, <1>4, <1>5

LEMMA NoSession ==
    /\ Off.at = "off" /\ ~Off.paused /\ Off.queue = <<>> /\ ~Off.lagged
    /\ Entering.at = "admitting" /\ ~Entering.paused /\ Entering.queue = <<>> /\ ~Entering.lagged
    /\ \A ids : Seated(Off, ids) /\ Seated(Entering, ids)
<1>1. Len(<<>>) = 0 /\ <<>> \in Seq(MessageType) /\ 0 <= FanoutCapacity
  BY EmptySeq, YWebsocketAssumption
<1> QED
  BY <1>1 DEF Off, Entering, Seated, SessionType

\* What a client and its session are.
LEMMA ClientFacts ==
    ASSUME TypeInv, NEW c \in Clients
    PROVE  /\ replica[c] \in Edits
           /\ up[c] \in Seq(FrameType)
           /\ down[c] \in Seq(FrameType)
           /\ Seated(session[c], RoomIds)
           /\ session[c] \in SessionType
           /\ session[c].queue \in Seq(MessageType)
           /\ In(c) => session[c].room \in RoomIds
BY DEF TypeInv, WiresInv, SessionsInv, Seated, SessionType, In

\* What its session may become.
LEMMA SessionMoves ==
    ASSUME TypeInv, NEW c \in Clients
    PROVE  LET s == session[c]
           IN  /\ \A at \in {"admitting", "relay"} :
                    /\ Moved(s, at).at = at /\ Moved(s, at).paused = s.paused /\ Moved(s, at).room = s.room
                    /\ Moved(s, at).queue = s.queue /\ Moved(s, at).lagged = s.lagged
               /\ Paused(s).at = "holding" /\ Paused(s).paused /\ Paused(s).room = s.room
               /\ Paused(s).queue = s.queue /\ Paused(s).lagged = s.lagged
               /\ LET j == Joined(s, Registered)
                  IN  /\ j.at = "greet" /\ j.paused = s.paused /\ j.room = Registered
                      /\ j.queue = s.queue /\ j.lagged = s.lagged
               /\ Heard(s).at = s.at /\ Heard(s).paused = s.paused /\ Heard(s).room = s.room
               /\ Heard(s).queue = Tail(s.queue) /\ Heard(s).lagged = s.lagged
<1>1. session[c] \in SessionType
  BY DEF TypeInv, SessionsInv, Seated
<1> QED
  BY <1>1 DEF Moved, Paused, Joined, Heard, SessionType

\* What a room is.
LEMMA RoomFacts ==
    ASSUME RoomsInv
    PROVE  /\ Registered \in RoomIds
           /\ RoomIds \subseteq Nat
           /\ \A r \in RoomIds : rooms[r] \in RoomType /\ rooms[r].doc \in Edits /\ rooms[r].held \in Edits
<1>1. rooms \in Seq(RoomType) /\ rooms # <<>>
  BY DEF RoomsInv
<1>2. Len(rooms) \in Nat /\ RoomIds = 1 .. Len(rooms) /\ Len(rooms) # 0
  BY <1>1, LenProperties, EmptySeq DEF RoomIds
<1>3. \A r \in RoomIds : rooms[r] \in RoomType
  BY <1>1, <1>2, ElementOfSeq
<1> QED
  BY <1>2, <1>3 DEF Registered, RoomType

\* The variables stay functions of the clients.
Functional ==
    /\ replica' = [d \in Clients |-> replica'[d]]
    /\ up' = [d \in Clients |-> up'[d]]
    /\ down' = [d \in Clients |-> down'[d]]
    /\ session' = [d \in Clients |-> session'[d]]

\* A step of c that changes nothing of the others, nor the rooms.
Solo(c) ==
    /\ Functional
    /\ \A d \in Clients \ {c} :
          /\ replica'[d] = replica[d]
          /\ up'[d] = up[d]
          /\ down'[d] = down[d]
          /\ session'[d] = session[d]
    /\ UNCHANGED rooms

\* The types after it.
LEMMA SoloTypes ==
    ASSUME TypeInv, NEW c \in Clients, Solo(c),
           replica'[c] \in Edits, up'[c] \in Seq(FrameType), down'[c] \in Seq(FrameType),
           Seated(session'[c], RoomIds), events' \in 0 .. MaxEvents
    PROVE  TypeInv'
<1>1. \A d \in Clients : /\ replica'[d] \in Edits /\ up'[d] \in Seq(FrameType)
                         /\ down'[d] \in Seq(FrameType) /\ Seated(session'[d], RoomIds)
  BY ClientFacts DEF Solo
<1>2. WiresInv'
  BY <1>1 DEF WiresInv, Solo, Functional
<1>3. SessionsInv'
  BY <1>1 DEF SessionsInv, Solo, Functional, RoomIds
<1>4. RoomsInv'
  BY DEF TypeInv, RoomsInv, Solo
<1> QED
  BY <1>2, <1>3, <1>4 DEF TypeInv

\* Troubles are counted.
LEMMA HappensCounts ==
    ASSUME TypeInv, NEW kind, Happens(kind) PROVE events' \in 0 .. MaxEvents /\ kind \in Events
BY YWebsocketAssumption DEF TypeInv, Happens

\* A connection: a session, and the client's step 1 on the wire.
LEMMA ConnectEffect ==
    ASSUME TypeInv, NEW c \in Clients, Connect(c)
    PROVE  /\ TypeInv' /\ Solo(c)
           /\ session[c].at = "off" /\ session'[c] = Entering
           /\ up'[c] = <<Step1(replica[c])>>
           /\ replica'[c] = replica[c] /\ down'[c] = down[c]
<1>1. /\ Solo(c) /\ events' = events
      /\ session[c].at = "off" /\ session'[c] = Entering
      /\ up'[c] = <<Step1(replica[c])>>
      /\ replica'[c] = replica[c] /\ down'[c] = down[c]
  BY DEF Connect, Entering, Solo, Functional, TypeInv, WiresInv, SessionsInv
<1>2. Step1(replica[c]) \in FrameType
  BY ClientFacts, FrameTypes
<1>3. up'[c] \in Seq(FrameType) /\ Seated(session'[c], RoomIds)
  BY <1>1, <1>2, FramesOne, NoSession
<1> QED
  BY <1>1, <1>3, ClientFacts, SoloTypes DEF TypeInv

\* An edit: in the client's replica, and on the wire if it is connected.
LEMMA EditEffect ==
    ASSUME TypeInv, NEW c \in Clients, NEW u \in Updates, Edit(c, u)
    PROVE  /\ TypeInv' /\ Solo(c)
           /\ u \notin Made /\ Requires[u] \subseteq replica[c]
           /\ replica'[c] = replica[c] \cup {u}
           /\ IF session[c].at = "off" THEN up'[c] = up[c]
              ELSE up'[c] = Append(up[c], Update({u})) /\ Update({u}) \in FrameType
           /\ session'[c] = session[c] /\ down'[c] = down[c]
<1>1. /\ Solo(c) /\ events' = events
      /\ u \notin Made /\ Requires[u] \subseteq replica[c]
      /\ replica'[c] = replica[c] \cup {u}
      /\ IF session[c].at = "off" THEN up'[c] = up[c] ELSE up'[c] = Append(up[c], Update({u}))
      /\ session'[c] = session[c] /\ down'[c] = down[c]
  BY DEF Edit, Solo, Functional, TypeInv, WiresInv, SessionsInv
<1>2. {u} \in Edits
  BY FS_Singleton DEF Edits
<1>3. Update({u}) \in FrameType
  BY <1>2, FrameTypes
<1>4. replica'[c] \in Edits
  BY <1>1, <1>2, ClientFacts, EditsFinite
<1>5. up'[c] \in Seq(FrameType)
  <2>1. up[c] \in Seq(FrameType)
    BY ClientFacts
  <2> QED
    BY <1>1, <1>3, <2>1, FramesAppend
<1> QED
  BY <1>1, <1>3, <1>4, <1>5, ClientFacts, SoloTypes DEF TypeInv

\* A frame arrives at the client: a step 1 is answered, an update applied.
LEMMA ReceiveEffect ==
    ASSUME TypeInv, NEW c \in Clients, Receive(c)
    PROVE  LET frame == Head(down[c])
               answer == Update(replica[c] \ frame.content)
           IN  /\ TypeInv' /\ Solo(c)
               /\ down[c] # <<>> /\ down'[c] = Tail(down[c])
               /\ \/ /\ frame.kind = "step1" /\ replica'[c] = replica[c]
                     /\ up'[c] = Append(up[c], answer)
                     /\ answer \in FrameType
                  \/ /\ frame.kind # "step1" /\ replica'[c] = replica[c] \cup frame.content
                     /\ up'[c] = up[c]
               /\ session'[c] = session[c]
<1> DEFINE frame == Head(down[c])
           answer == Update(replica[c] \ frame.content)
<1>1. /\ Solo(c) /\ events' = events
      /\ down[c] # <<>> /\ down'[c] = Tail(down[c])
      /\ \/ frame.kind = "step1" /\ replica'[c] = replica[c] /\ up'[c] = Append(up[c], answer)
         \/ frame.kind # "step1" /\ replica'[c] = replica[c] \cup frame.content /\ up'[c] = up[c]
      /\ session'[c] = session[c]
  BY DEF Receive, Solo, Functional, TypeInv, WiresInv, SessionsInv
<1>2. frame \in FrameType /\ down'[c] \in Seq(FrameType)
  <2>1. down[c] \in Seq(FrameType) /\ down[c] # <<>>
    BY <1>1, ClientFacts
  <2> QED
    BY <1>1, <2>1, FramesTail
<1>3. frame.content \in Edits /\ replica[c] \in Edits
  BY <1>2, ClientFacts DEF FrameType
<1> HIDE DEF frame
<1>4. replica[c] \ frame.content \in Edits /\ replica[c] \cup frame.content \in Edits
  BY <1>3, EditsFinite
<1>5. answer \in FrameType
  BY <1>4, FrameTypes
<1> HIDE DEF answer
<1>6. up[c] \in Seq(FrameType)
  BY ClientFacts
<1>7. up'[c] \in Seq(FrameType) /\ replica'[c] \in Edits
  BY <1>1, <1>3, <1>4, <1>5, <1>6, FramesAppend
<1>8. TypeInv'
  BY <1>1, <1>2, <1>7, ClientFacts, SoloTypes DEF TypeInv
<1> QED
  BY <1>1, <1>5, <1>8 DEF frame, answer

\* The document is over its plan's limit.
LEMMA PauseEffect ==
    ASSUME TypeInv, NEW c \in Clients, Pause(c)
    PROVE  /\ TypeInv' /\ Solo(c)
           /\ session[c].at = "admitting" /\ session'[c] = Paused(session[c])
           /\ replica'[c] = replica[c] /\ up'[c] = up[c] /\ down'[c] = down[c]
<1>1. /\ Solo(c) /\ Happens("pause")
      /\ session[c].at = "admitting" /\ session'[c] = Paused(session[c])
      /\ replica'[c] = replica[c] /\ up'[c] = up[c] /\ down'[c] = down[c]
  BY DEF Pause, Paused, Solo, Functional, TypeInv, WiresInv, SessionsInv
<1>2. Seated(session'[c], RoomIds)
  BY <1>1, ClientFacts, SessionFields
<1> QED
  BY <1>1, <1>2, ClientFacts, HappensCounts, SoloTypes

\* A frame of a paused client is dropped.
LEMMA HoldEffect ==
    ASSUME TypeInv, NEW c \in Clients, Hold(c)
    PROVE  /\ TypeInv' /\ Solo(c)
           /\ session[c].at = "holding" /\ session'[c] = session[c]
           /\ up[c] # <<>> /\ up'[c] = Tail(up[c])
           /\ replica'[c] = replica[c] /\ down'[c] = down[c]
<1>1. /\ Solo(c) /\ events' = events
      /\ session[c].at = "holding" /\ session'[c] = session[c]
      /\ up[c] # <<>> /\ up'[c] = Tail(up[c])
      /\ replica'[c] = replica[c] /\ down'[c] = down[c]
  BY DEF Hold, Solo, Functional, TypeInv, WiresInv, SessionsInv
<1>2. up'[c] \in Seq(FrameType)
  <2>1. up[c] \in Seq(FrameType) /\ up[c] # <<>>
    BY <1>1, ClientFacts
  <2> QED
    BY <1>1, <2>1, FramesTail
<1> QED
  BY <1>1, <1>2, ClientFacts, SoloTypes DEF TypeInv

\* It is admitted again.
LEMMA RecheckEffect ==
    ASSUME TypeInv, NEW c \in Clients, Recheck(c)
    PROVE  /\ TypeInv' /\ Solo(c)
           /\ session[c].at = "holding" /\ session'[c] = Moved(session[c], "admitting")
           /\ replica'[c] = replica[c] /\ up'[c] = up[c] /\ down'[c] = down[c]
<1>1. /\ Solo(c) /\ events' = events
      /\ session[c].at = "holding" /\ session'[c] = Moved(session[c], "admitting")
      /\ replica'[c] = replica[c] /\ up'[c] = up[c] /\ down'[c] = down[c]
  BY DEF Recheck, Moved, Solo, Functional, TypeInv, WiresInv, SessionsInv
<1>2. Seated(session'[c], RoomIds)
  BY <1>1, ClientFacts, SessionFields
<1> QED
  BY <1>1, <1>2, ClientFacts, SoloTypes DEF TypeInv

\* It joins the registered room.
LEMMA JoinEffect ==
    ASSUME TypeInv, NEW c \in Clients, Join(c)
    PROVE  /\ TypeInv' /\ Solo(c)
           /\ session[c].at = "admitting" /\ session'[c] = Joined(session[c], Registered)
           /\ replica'[c] = replica[c] /\ up'[c] = up[c] /\ down'[c] = down[c]
<1>1. /\ Solo(c) /\ events' = events
      /\ session[c].at = "admitting" /\ session'[c] = Joined(session[c], Registered)
      /\ replica'[c] = replica[c] /\ up'[c] = up[c] /\ down'[c] = down[c]
  BY DEF Join, Joined, Solo, Functional, TypeInv, WiresInv, SessionsInv
<1>2. Registered \in RoomIds /\ Registered \in Nat
  BY RoomFacts DEF TypeInv
<1>3. Seated(session'[c], RoomIds)
  <2>1. Seated(session[c], RoomIds)
    BY ClientFacts
  <2>2. Seated(Joined(session[c], Registered), RoomIds)
    BY <1>2, <2>1, SessionFields
  <2> QED
    BY <1>1, <2>2
<1> QED
  BY <1>1, <1>3, ClientFacts, SoloTypes DEF TypeInv

\* It is greeted with the room's step 1, and with the document if it was
\* paused.
LEMMA GreetEffect ==
    ASSUME TypeInv, NEW c \in Clients, Greet(c)
    PROVE  LET doc == rooms[session[c].room].doc
               greeted == Append(down[c], Step1(doc))
           IN  /\ TypeInv' /\ Solo(c)
               /\ session[c].at = "greet" /\ session'[c] = Moved(session[c], "relay")
               /\ replica'[c] = replica[c] /\ up'[c] = up[c]
               /\ Step1(doc) \in FrameType /\ Update(doc) \in FrameType
               /\ greeted \in Seq(FrameType)
               /\ down'[c] = IF session[c].paused THEN Append(greeted, Update(doc)) ELSE greeted
<1> DEFINE doc == rooms[session[c].room].doc
           greeted == Append(down[c], Step1(doc))
<1>1. /\ Solo(c) /\ events' = events
      /\ session[c].at = "greet" /\ session'[c] = Moved(session[c], "relay")
      /\ replica'[c] = replica[c] /\ up'[c] = up[c]
      /\ down'[c] = down[c] \o IF session[c].paused THEN <<Step1(doc), Update(doc)>> ELSE <<Step1(doc)>>
  BY DEF Greet, Moved, Solo, Functional, TypeInv, WiresInv, SessionsInv
<1>2. doc \in Edits
  BY <1>1, ClientFacts, RoomFacts DEF TypeInv, In
<1> HIDE DEF doc
<1>3. Step1(doc) \in FrameType /\ Update(doc) \in FrameType
  BY <1>2, FrameTypes
<1>4. down[c] \in Seq(FrameType)
  BY ClientFacts
<1>5. greeted \in Seq(FrameType) /\ Append(greeted, Update(doc)) \in Seq(FrameType)
  <2>1. greeted \in Seq(FrameType)
    BY <1>3, <1>4, AppendProperties
  <2> HIDE DEF greeted
  <2> QED
    BY <1>3, <2>1, AppendProperties
<1>6. down'[c] = IF session[c].paused THEN Append(greeted, Update(doc)) ELSE greeted
  <2>1. \A f \in FrameType : down[c] \o <<f>> = Append(down[c], f)
    BY <1>4
  <2>2. \A f, g \in FrameType : down[c] \o <<f, g>> = Append(Append(down[c], f), g)
    BY <1>4
  <2> QED
    BY <1>1, <1>3, <2>1, <2>2
<1>7. Seated(session'[c], RoomIds)
  BY <1>1, ClientFacts, SessionFields
<1> HIDE DEF greeted
<1>8. TypeInv'
  BY <1>1, <1>5, <1>6, <1>7, ClientFacts, SoloTypes DEF TypeInv
<1> QED
  BY <1>1, <1>3, <1>5, <1>6, <1>8 DEF doc, greeted

\* A session ends.
Ended(c) == session'[c] = Off /\ up'[c] = <<>> /\ down'[c] = <<>> /\ replica'[c] = replica[c]

LEMMA EndEffect ==
    ASSUME TypeInv, NEW c \in Clients, End(c), UNCHANGED <<replica, rooms>>, events' \in 0 .. MaxEvents
    PROVE  TypeInv' /\ Solo(c) /\ Ended(c)
<1>1. Solo(c) /\ Ended(c)
  BY DEF End, Ended, Solo, Functional, TypeInv, WiresInv, SessionsInv
<1>2. up'[c] \in Seq(FrameType) /\ down'[c] \in Seq(FrameType) /\ Seated(session'[c], RoomIds)
  BY <1>1, FramesNone, NoSession DEF Ended
<1>3. replica'[c] \in Edits
  BY <1>1, ClientFacts DEF Ended
<1> QED
  BY <1>1, <1>2, <1>3, SoloTypes

\* Its frame is taken from the wire; nothing changes of the sessions, nor of
\* the rooms.
Taken(c) == up[c] # <<>> /\ up'[c] = Tail(up[c]) /\ replica'[c] = replica[c]

\* What Room::apply makes of a payload: what waits with it, what of that is
\* ready, and what is new.
Waiting(r, content) == rooms[r].held \cup content
Readied(r, content) == Ready(Waiting(r, content), rooms[r].doc)
Delta(r, content) == Readied(r, content) \ rooms[r].doc
AppliedRoom(r, content) == [doc |-> rooms[r].doc \cup Delta(r, content),
                            held |-> Waiting(r, content) \ Readied(r, content)]

LEMMA AppliedFacts ==
    ASSUME RoomsInv, NEW r \in RoomIds, NEW content \in Edits
    PROVE  /\ Delta(r, content) \in Edits
           /\ AppliedRoom(r, content) \in RoomType
           /\ AppliedRoom(r, content).doc = rooms[r].doc \cup Delta(r, content)
           /\ AppliedRoom(r, content).held = Waiting(r, content) \ Readied(r, content)
<1>1. rooms[r].doc \in Edits /\ rooms[r].held \in Edits
  BY RoomFacts
<1> DEFINE w == Waiting(r, content)
           e == Readied(r, content)
           d == Delta(r, content)
<1>2. w \in Edits
  BY <1>1, EditsFinite DEF Waiting
<1>3. e \subseteq w
  BY DEF Readied, Ready
<1>4. d \subseteq e /\ w \ e \subseteq w
  BY DEF Delta
<1> HIDE DEF w, e, d
<1>5. d \in Edits /\ w \ e \in Edits
  BY <1>2, <1>3, <1>4, EditsFinite
<1>6. rooms[r].doc \cup d \in Edits
  BY <1>1, <1>5, EditsFinite
<1>7. AppliedRoom(r, content) = [doc |-> rooms[r].doc \cup d, held |-> w \ e]
  BY DEF AppliedRoom, w, e, d
<1> QED
  BY <1>5, <1>6, <1>7 DEF RoomType, w, e, d

\* A session hears of what changed, if anything did.
Told(d, r, m) == Hears(d, r, m) \/ (m.content = {} /\ session'[d] = session[d])

\* A payload is applied to room r and broadcast.
Applied(c, r, content) ==
    /\ Functional
    /\ UNCHANGED <<replica, down>>
    /\ \A d \in Clients \ {c} : up'[d] = up[d]
    /\ DOMAIN rooms' = RoomIds
    /\ \A s \in RoomIds \ {r} : rooms'[s] = rooms[s]
    /\ rooms'[r] = AppliedRoom(r, content)
    /\ \A d \in Clients : Told(d, r, Message(c, Delta(r, content)))

LEMMA ApplyEffect ==
    ASSUME TypeInv, NEW c \in Clients, NEW r \in RoomIds, NEW content \in Edits, Apply(c, r, content),
           UNCHANGED <<replica, down, events>>, up' = [up EXCEPT ![c] = Tail(@)], Tail(up[c]) \in Seq(FrameType)
    PROVE  /\ TypeInv'
           /\ \/ /\ Cardinality(rooms[r].doc) + Cardinality(content) > MaxDocument
                 /\ UNCHANGED <<session, rooms>>
              \/ Applied(c, r, content)
<1> DEFINE m == Message(c, Delta(r, content))
<1>0. RoomsInv /\ SessionsInv
  BY DEF TypeInv
<1>1. \/ /\ Cardinality(rooms[r].doc) + Cardinality(content) > MaxDocument
         /\ UNCHANGED <<session, rooms>>
      \/ /\ rooms' = [rooms EXCEPT ![r] = AppliedRoom(r, content)]
         /\ session' = IF Delta(r, content) = {} THEN session ELSE Broadcast(session, r, m)
  BY DEF Apply, AppliedRoom, Delta, Readied, Waiting
<1>2. WiresInv'
  <2>1. /\ replica' = replica /\ down' = down
        /\ up' = [d \in Clients |-> IF d = c THEN Tail(up[c]) ELSE up[d]]
    BY DEF TypeInv, WiresInv
  <2> QED
    BY <2>1 DEF TypeInv, WiresInv
<1>3. CASE /\ Cardinality(rooms[r].doc) + Cardinality(content) > MaxDocument
           /\ UNCHANGED <<session, rooms>>
  BY <1>2, <1>3 DEF TypeInv, SessionsInv, RoomsInv, RoomIds
<1>4. CASE /\ rooms' = [rooms EXCEPT ![r] = AppliedRoom(r, content)]
           /\ session' = IF Delta(r, content) = {} THEN session ELSE Broadcast(session, r, m)
  <2> DEFINE new == AppliedRoom(r, content)
  <2>1. new \in RoomType /\ Delta(r, content) \in Edits
    BY <1>0, AppliedFacts
  <2>2. m \in MessageType /\ m.content = Delta(r, content)
    BY <2>1, FrameTypes
  <2>3. rooms \in Seq(RoomType) /\ rooms # <<>> /\ r \in DOMAIN rooms
    BY <1>0 DEF RoomsInv, RoomIds
  <2> HIDE DEF new
  <2>4. /\ rooms' \in Seq(RoomType)
        /\ DOMAIN rooms' = RoomIds
        /\ \A s \in RoomIds \ {r} : rooms'[s] = rooms[s]
        /\ rooms'[r] = new
    BY <1>4, <2>1, <2>3, ChangedSeq DEF RoomIds, new
  <2>5. RoomsInv'
    BY <2>3, <2>4, EmptySeq DEF RoomsInv, RoomIds
  <2> HIDE DEF m
  <2>6. /\ session' = [d \in Clients |-> session'[d]]
        /\ \A d \in Clients : Told(d, r, m) /\ Seated(session'[d], RoomIds)
    <3>1. CASE Delta(r, content) = {}
      BY <1>0, <1>4, <2>2, <3>1 DEF Told, SessionsInv
    <3>2. CASE Delta(r, content) # {}
      <4>1. session' = Broadcast(session, r, m)
        BY <1>4, <3>2 DEF m
      <4> QED
        BY <1>0, <2>2, <4>1, BroadcastEffect DEF Told
    <3> QED
      BY <3>1, <3>2
  <2>7. RoomIds' = RoomIds
    BY <2>4 DEF RoomIds
  <2>8. SessionsInv'
    BY <2>6, <2>7 DEF SessionsInv
  <2>9. TypeInv'
    BY <1>2, <2>5, <2>8 DEF TypeInv
  <2>10. Functional
    BY <1>2, <2>8 DEF WiresInv, SessionsInv, Functional
  <2>11. \A d \in Clients \ {c} : up'[d] = up[d]
    OBVIOUS
  <2> QED
    BY <2>4, <2>6, <2>9, <2>10, <2>11 DEF Applied, m, new
<1> QED
  BY <1>1, <1>3, <1>4

\* A frame arrives at the session: a step 1 is answered; an update is
\* dropped, refused or applied.
LEMMA IncomingEffect ==
    ASSUME TypeInv, NEW c \in Clients, Incoming(c)
    PROVE  LET frame == Head(up[c])
               r == session[c].room
               answer == Update(rooms[r].doc \ frame.content)
           IN  /\ TypeInv'
               /\ session[c].at = "relay" /\ r \in RoomIds
               /\ Taken(c)
               /\ \/ /\ Solo(c) /\ session'[c] = session[c]
                     /\ frame.kind = "step1" /\ answer \in FrameType
                     /\ down'[c] = Append(down[c], answer)
                  \/ /\ Solo(c) /\ session'[c] = session[c] /\ down'[c] = down[c]
                     /\ frame.kind = "update"
                     /\ \/ c \in Readers
                        \/ Cardinality(rooms[r].doc) + Cardinality(frame.content) > MaxDocument
                  \/ frame.kind = "update" /\ Applied(c, r, frame.content)
<1> DEFINE frame == Head(up[c])
           r == session[c].room
           answer == Update(rooms[r].doc \ frame.content)
<1>1. session[c].at = "relay" /\ up[c] # <<>> /\ r \in RoomIds
  BY ClientFacts DEF Incoming, In
<1>2. up[c] \in Seq(FrameType)
  BY ClientFacts
<1>3. frame \in FrameType /\ Tail(up[c]) \in Seq(FrameType)
  BY <1>1, <1>2, FramesTail
<1>4. frame.kind \in {"step1", "update"} /\ frame.content \in Edits
  BY <1>3 DEF FrameType
<1>5. /\ up' = [up EXCEPT ![c] = Tail(@)] /\ UNCHANGED <<replica, events>>
      /\ \/ /\ frame.kind = "step1" /\ UNCHANGED <<session, rooms>>
            /\ down' = [down EXCEPT ![c] = Append(@, answer)]
         \/ /\ frame.kind # "step1" /\ UNCHANGED down
            /\ c \in Readers /\ UNCHANGED <<session, rooms>>
         \/ /\ frame.kind # "step1" /\ UNCHANGED down
            /\ Apply(c, r, frame.content)
  BY DEF Incoming
<1> HIDE DEF frame, r
<1>6. up'[c] = Tail(up[c]) /\ replica'[c] = replica[c]
  BY <1>5 DEF TypeInv, WiresInv
<1>7. ASSUME UNCHANGED <<session, rooms>>, down' = [d \in Clients |-> IF d = c THEN down'[c] ELSE down[d]]
      PROVE Solo(c) /\ session'[c] = session[c]
  BY <1>5, <1>7 DEF TypeInv, WiresInv, SessionsInv, Solo, Functional
<1>8. down = [d \in Clients |-> down[d]]
  BY DEF TypeInv, WiresInv
<1>9. ASSUME Solo(c), session'[c] = session[c], down'[c] \in Seq(FrameType)
      PROVE TypeInv'
  <2>1. replica'[c] \in Edits /\ up'[c] \in Seq(FrameType) /\ Seated(session'[c], RoomIds)
    BY <1>3, <1>6, <1>9, ClientFacts
  <2>2. events' \in 0 .. MaxEvents
    BY <1>5 DEF TypeInv
  <2> QED
    BY <1>9, <2>1, <2>2, SoloTypes
<1>10. CASE /\ frame.kind = "step1" /\ UNCHANGED <<session, rooms>>
            /\ down' = [down EXCEPT ![c] = Append(@, answer)]
  <2>1. rooms[r].doc \in Edits
    BY <1>1, RoomFacts DEF TypeInv
  <2>2. rooms[r].doc \ frame.content \in Edits
    BY <1>4, <2>1, EditsFinite
  <2>3. answer \in FrameType
    BY <2>2, FrameTypes
  <2> HIDE DEF answer
  <2>4. /\ down'[c] = Append(down[c], answer)
        /\ down' = [d \in Clients |-> IF d = c THEN down'[c] ELSE down[d]]
    BY <1>8, <1>10
  <2>5. Solo(c) /\ session'[c] = session[c]
    BY <1>7, <1>10, <2>4
  <2>6. down[c] \in Seq(FrameType)
    BY ClientFacts
  <2>7. down'[c] \in Seq(FrameType)
    BY <2>3, <2>4, <2>6, FramesAppend
  <2>8. TypeInv'
    BY <1>9, <2>5, <2>7
  <2> QED
    BY <1>1, <1>6, <1>10, <2>3, <2>4, <2>5, <2>8 DEF Taken, frame, r, answer
<1>11. ASSUME frame.kind # "step1", UNCHANGED <<down, session, rooms>>
       PROVE  TypeInv' /\ Solo(c) /\ session'[c] = session[c] /\ down'[c] = down[c]
  <2>1. down' = [d \in Clients |-> IF d = c THEN down'[c] ELSE down[d]] /\ down'[c] = down[c]
    BY <1>8, <1>11
  <2>2. Solo(c) /\ session'[c] = session[c]
    BY <1>7, <1>11, <2>1
  <2> QED
    BY <1>9, <2>1, <2>2, ClientFacts
<1>12. CASE frame.kind # "step1" /\ UNCHANGED down /\ c \in Readers /\ UNCHANGED <<session, rooms>>
  <2>1. TypeInv' /\ Solo(c) /\ session'[c] = session[c] /\ down'[c] = down[c]
    BY <1>11, <1>12
  <2> QED
    BY <1>1, <1>4, <1>6, <1>12, <2>1 DEF Taken, frame, r
<1>13. CASE frame.kind # "step1" /\ UNCHANGED down /\ Apply(c, r, frame.content)
  <2> DEFINE content == frame.content
  <2>0. content \in Edits /\ Apply(c, r, content) /\ frame.kind = "update"
    BY <1>4, <1>13
  <2> HIDE DEF content
  <2>1. /\ TypeInv'
        /\ \/ /\ Cardinality(rooms[r].doc) + Cardinality(content) > MaxDocument
              /\ UNCHANGED <<session, rooms>>
           \/ Applied(c, r, content)
    BY <1>1, <1>3, <1>5, <1>13, <2>0, ApplyEffect
  <2>2. CASE UNCHANGED <<session, rooms>> /\ Cardinality(rooms[r].doc) + Cardinality(content) > MaxDocument
    <3>1. TypeInv' /\ Solo(c) /\ session'[c] = session[c] /\ down'[c] = down[c]
      BY <1>11, <1>13, <2>2
    <3> QED
      BY <1>1, <1>6, <2>0, <2>2, <3>1 DEF Taken, frame, r, content
  <2>3. CASE Applied(c, r, content)
    BY <1>1, <1>6, <2>0, <2>1, <2>3 DEF Taken, frame, r, content
  <2> QED
    BY <2>1, <2>2, <2>3
<1> QED
  BY <1>5, <1>10, <1>12, <1>13

\* A broadcast arrives at the session: it is told to go, skips its own
\* message, or passes it on.
LEMMA OutgoingEffect ==
    ASSUME TypeInv, NEW c \in Clients, Outgoing(c)
    PROVE  LET message == Head(session[c].queue)
               frame == Update(message.content)
           IN  /\ TypeInv' /\ Solo(c)
               /\ session[c].at = "relay"
               /\ \/ Ended(c)
                  \/ /\ ~session[c].lagged /\ session[c].queue # <<>>
                     /\ session'[c] = Heard(session[c])
                     /\ replica'[c] = replica[c] /\ up'[c] = up[c]
                     /\ \/ message.from = c /\ down'[c] = down[c]
                        \/ /\ message.from # c /\ frame \in FrameType
                           /\ down'[c] = Append(down[c], frame)
<1> DEFINE q == session[c].queue
           message == Head(q)
           frame == Update(message.content)
<1>1. /\ session[c].at = "relay" /\ UNCHANGED <<replica, rooms, events>>
      /\ \/ End(c)
         \/ /\ ~session[c].lagged /\ q # <<>>
            /\ session' = [session EXCEPT ![c] = Heard(session[c])] /\ UNCHANGED up
            /\ \/ message.from = c /\ UNCHANGED down
               \/ message.from # c /\ down' = [down EXCEPT ![c] = Append(@, frame)]
  BY DEF Outgoing, Heard
<1>2. CASE End(c)
  <2>1. events' \in 0 .. MaxEvents
    BY <1>1 DEF TypeInv
  <2>2. TypeInv' /\ Solo(c) /\ Ended(c)
    BY <1>1, <1>2, <2>1, EndEffect
  <2> QED
    BY <1>1, <2>2
<1>3. CASE /\ ~session[c].lagged /\ q # <<>>
           /\ session' = [session EXCEPT ![c] = Heard(session[c])] /\ UNCHANGED up
           /\ \/ message.from = c /\ UNCHANGED down
              \/ message.from # c /\ down' = [down EXCEPT ![c] = Append(@, frame)]
  <2>1. q \in Seq(MessageType) /\ q # <<>>
    BY <1>3, ClientFacts
  <2>2. message \in MessageType
    BY <2>1, FromOthersTail
  <2>3. message.content \in Edits
    BY <2>2 DEF MessageType
  <2>4. frame \in FrameType
    BY <2>3, FrameTypes
  <2>5. session'[c] = Heard(session[c])
    BY <1>3 DEF TypeInv, SessionsInv
  <2>6. Seated(session[c], RoomIds)
    BY ClientFacts
  <2>7. Seated(session'[c], RoomIds)
    BY <2>1, <2>5, <2>6, SessionFields
  <2> HIDE DEF message, frame
  <2>8. Solo(c) /\ replica'[c] = replica[c] /\ up'[c] = up[c]
    BY <1>1, <1>3 DEF TypeInv, WiresInv, SessionsInv, Solo, Functional
  <2>9. \/ message.from = c /\ down'[c] = down[c]
        \/ message.from # c /\ down'[c] = Append(down[c], frame)
    BY <1>3 DEF TypeInv, WiresInv
  <2>10. down[c] \in Seq(FrameType)
    BY ClientFacts
  <2>11. down'[c] \in Seq(FrameType)
    BY <2>4, <2>9, <2>10, FramesAppend
  <2>12. events' \in 0 .. MaxEvents
    BY <1>1 DEF TypeInv
  <2>13. TypeInv'
    BY <2>7, <2>8, <2>11, <2>12, ClientFacts, SoloTypes
  <2> QED
    BY <1>1, <1>3, <2>4, <2>5, <2>8, <2>9, <2>13 DEF message, frame
<1> QED
  BY <1>1, <1>2, <1>3

\* The rooms and their sessions, when a message of nothing is sent to all.
LEMMA PresenceEffect ==
    ASSUME TypeInv, NEW c \in Clients, Presence(c)
    PROVE  /\ TypeInv' /\ Functional
           /\ UNCHANGED <<replica, up, down, rooms>>
           /\ \A d \in Clients : Hears(d, session[c].room, Message(c, {}))
           /\ Message(c, {}) \in MessageType
<1>1. {} \in Edits
  BY FS_EmptySet DEF Edits
<1>2. Message(c, {}) \in MessageType
  BY <1>1, FrameTypes
<1>3. SessionsInv
  BY DEF TypeInv
<1>4. session' = Broadcast(session, session[c].room, Message(c, {})) /\ Happens("presence")
      /\ UNCHANGED <<replica, up, down, rooms>>
  BY DEF Presence
<1> DEFINE m == Message(c, {})
           r == session[c].room
<1>5. m \in MessageType /\ session' = Broadcast(session, r, m)
  BY <1>2, <1>4
<1> HIDE DEF m, r
<1>6. /\ session' = [d \in Clients |-> session'[d]]
      /\ \A d \in Clients : Hears(d, r, m)
      /\ \A d \in Clients : Seated(session'[d], RoomIds)
  BY <1>3, <1>5, BroadcastEffect
<1>7. SessionsInv' /\ WiresInv' /\ RoomsInv'
  BY <1>4, <1>6 DEF SessionsInv, RoomIds, TypeInv, WiresInv, RoomsInv
<1>8. TypeInv'
  BY <1>4, <1>7, HappensCounts DEF TypeInv
<1>9. Functional
  BY <1>7 DEF WiresInv, SessionsInv, Functional
<1> QED
  BY <1>2, <1>4, <1>6, <1>8, <1>9 DEF m, r

\* A connection breaks.
LEMMA DropEffect ==
    ASSUME TypeInv, NEW c \in Clients, Drop(c) PROVE TypeInv' /\ Solo(c) /\ Ended(c)
<1>1. End(c) /\ UNCHANGED <<replica, rooms>> /\ Happens("drop")
  BY DEF Drop
<1>2. events' \in 0 .. MaxEvents
  BY <1>1, HappensCounts
<1> QED
  BY <1>1, <1>2, EndEffect

\* The registered room is unloaded: nobody is in it, and what it held back
\* is gone.
LEMMA EvictEffect ==
    ASSUME TypeInv, Evict
    PROVE  /\ TypeInv' /\ Functional
           /\ UNCHANGED <<replica, up, down, session>>
           /\ DOMAIN rooms' = RoomIds
           /\ \A c \in Clients : In(c) => session[c].room # Registered
           /\ \A s \in RoomIds : /\ rooms'[s].doc = rooms[s].doc
                                 /\ s # Registered => rooms'[s] = rooms[s]
           /\ rooms'[Registered].held = {}
<1>1. /\ Happens("evict") /\ Present(Registered) = {}
      /\ UNCHANGED <<replica, up, down, session>>
      /\ rooms' = [rooms EXCEPT ![Registered].held = {}]
  BY DEF Evict
<1> DEFINE new == [rooms[Registered] EXCEPT !.held = {}]
           r == Registered
<1>2. RoomsInv /\ SessionsInv /\ WiresInv
  BY DEF TypeInv
<1>3. r \in RoomIds /\ rooms[r] \in RoomType
  BY <1>2, RoomFacts
<1>4. {} \in Edits
  BY FS_EmptySet DEF Edits
<1>5. new \in RoomType /\ new.doc = rooms[r].doc /\ new.held = {}
  BY <1>3, <1>4 DEF RoomType
<1>6. rooms' = [rooms EXCEPT ![r] = new]
  BY <1>1
<1> HIDE DEF new, r
<1>7. rooms \in Seq(RoomType) /\ rooms # <<>> /\ r \in DOMAIN rooms
  BY <1>2, <1>3 DEF RoomsInv, RoomIds
<1>8. /\ rooms' \in Seq(RoomType)
      /\ DOMAIN rooms' = RoomIds
      /\ \A s \in RoomIds \ {r} : rooms'[s] = rooms[s]
      /\ rooms'[r] = new
  BY <1>5, <1>6, <1>7, ChangedSeq DEF RoomIds
<1>9. RoomsInv'
  BY <1>7, <1>8, EmptySeq DEF RoomsInv, RoomIds
<1>10. SessionsInv' /\ WiresInv' /\ RoomIds' = RoomIds
  BY <1>1, <1>2, <1>8 DEF SessionsInv, WiresInv, RoomIds
<1>11. TypeInv'
  BY <1>1, <1>9, <1>10, HappensCounts DEF TypeInv
<1>12. Functional
  BY <1>10 DEF SessionsInv, WiresInv, Functional
<1>13. \A c \in Clients : In(c) => session[c].room # r
  BY <1>1 DEF Present, r
<1>14. \A s \in RoomIds : rooms'[s].doc = rooms[s].doc /\ (s # r => rooms'[s] = rooms[s])
  BY <1>5, <1>8
<1>15. rooms'[r].held = {}
  BY <1>5, <1>8
<1> QED
  BY <1>1, <1>8, <1>11, <1>12, <1>13, <1>14, <1>15 DEF r

\* The registered room is closed, and its document is in a new one.
LEMMA DeleteEffect ==
    ASSUME TypeInv, Delete
    PROVE  /\ TypeInv' /\ Functional
           /\ UNCHANGED <<replica, up, down>>
           /\ \A c \in Clients : Hears(c, Registered, Closed)
           /\ DOMAIN rooms' = RoomIds \cup {Registered + 1}
           /\ \A s \in RoomIds : rooms'[s] = rooms[s]
           /\ rooms'[Registered + 1] = [doc |-> {}, held |-> {}]
           /\ "delete" \in Events
<1> DEFINE new == [doc |-> {}, held |-> {}]
<1>1. /\ Happens("delete")
      /\ session' = Broadcast(session, Registered, Closed)
      /\ rooms' = Append(rooms, new)
      /\ UNCHANGED <<replica, up, down>>
  BY DEF Delete
<1>2. RoomsInv /\ SessionsInv /\ WiresInv
  BY DEF TypeInv
<1>3. {} \in Edits
  BY FS_EmptySet DEF Edits
<1>4. new \in RoomType /\ Closed \in MessageType
  BY <1>3 DEF RoomType, Closed, MessageType
<1> HIDE DEF new
<1>5. rooms \in Seq(RoomType)
  BY <1>2 DEF RoomsInv
<1>6. /\ rooms' \in Seq(RoomType)
      /\ DOMAIN rooms' = RoomIds \cup {Registered + 1}
      /\ \A s \in RoomIds : rooms'[s] = rooms[s]
      /\ rooms'[Registered + 1] = new
  BY <1>1, <1>4, <1>5, LongerSeq DEF RoomIds, Registered
<1>7. RoomsInv'
  BY <1>6, EmptySeq DEF RoomsInv
<1>8. /\ session' = [d \in Clients |-> session'[d]]
      /\ \A d \in Clients : Hears(d, Registered, Closed)
      /\ \A d \in Clients : Seated(session'[d], RoomIds)
  BY <1>1, <1>2, <1>4, BroadcastEffect
<1>9. SessionsInv'
  <2>1. \A d \in Clients : Seated(session'[d], DOMAIN rooms')
    BY <1>6, <1>8 DEF Seated
  <2> QED
    BY <1>8, <2>1 DEF SessionsInv, RoomIds
<1>10. WiresInv'
  BY <1>1, <1>2 DEF WiresInv
<1>11. TypeInv' /\ "delete" \in Events
  BY <1>1, <1>7, <1>9, <1>10, HappensCounts DEF TypeInv
<1>12. Functional
  BY <1>9, <1>10 DEF SessionsInv, WiresInv, Functional
<1> QED
  BY <1>1, <1>6, <1>8, <1>11, <1>12 DEF new

\* A new process: every session has ended, and the document is what was saved.
LEMMA RestartEffect ==
    ASSUME TypeInv, Restart
    PROVE  /\ TypeInv' /\ UNCHANGED replica
           /\ \A c \in Clients : Ended(c)
           /\ DOMAIN rooms' = {1} /\ rooms'[1].held = {}
           /\ "crash" \in Events
<1>1. PICK saved \in SUBSET rooms[Registered].doc : rooms' = <<[doc |-> saved, held |-> {}]>>
  BY DEF Restart
<1>2. /\ Happens("crash")
      /\ session' = [c \in Clients |-> Off]
      /\ up' = [c \in Clients |-> <<>>]
      /\ down' = [c \in Clients |-> <<>>]
      /\ UNCHANGED replica
  BY DEF Restart
<1> DEFINE new == [doc |-> saved, held |-> {}]
<1>3. rooms[Registered].doc \in Edits
  BY RoomFacts DEF TypeInv
<1>4. saved \in Edits /\ {} \in Edits
  BY <1>3, EditsFinite
<1>5. new \in RoomType /\ new.held = {}
  BY <1>4 DEF RoomType
<1>6. rooms' = <<new>>
  BY <1>1
<1> HIDE DEF new
<1>7. <<new>> \in Seq(RoomType) /\ <<new>> # <<>> /\ DOMAIN <<new>> = {1} /\ <<new>>[1] = new
  BY <1>5
<1>8. RoomsInv' /\ DOMAIN rooms' = {1} /\ rooms'[1].held = {}
  BY <1>5, <1>6, <1>7 DEF RoomsInv
<1>9. SessionsInv'
  BY <1>2, NoSession DEF SessionsInv
<1>10. WiresInv'
  BY <1>2, FramesNone DEF TypeInv, WiresInv
<1>11. TypeInv' /\ "crash" \in Events
  BY <1>2, <1>8, <1>9, <1>10, HappensCounts DEF TypeInv
<1>12. \A c \in Clients : Ended(c)
  BY <1>2 DEF Ended
<1> QED
  BY <1>2, <1>8, <1>11, <1>12

-----------------------------------------------------------------------------
(***************************************************************************)
(* The types hold.                                                         *)
(***************************************************************************)

\* Each step keeps the types.
LEMMA TypeStep == ASSUME TypeInv, [Next]_vars PROVE TypeInv'
<1>1. ASSUME NEW c \in Clients, Client(c) \/ Serve(c) PROVE TypeInv'
  <2>1. CASE Connect(c)
    BY <2>1, ConnectEffect
  <2>2. CASE Receive(c)
    BY <2>2, ReceiveEffect
  <2>3. CASE \E u \in Updates : Edit(c, u)
    BY <2>3, EditEffect
  <2>4. CASE Pause(c)
    BY <2>4, PauseEffect
  <2>5. CASE Hold(c)
    BY <2>5, HoldEffect
  <2>6. CASE Recheck(c)
    BY <2>6, RecheckEffect
  <2>7. CASE Join(c)
    BY <2>7, JoinEffect
  <2>8. CASE Greet(c)
    BY <2>8, GreetEffect
  <2>9. CASE Incoming(c)
    BY <2>9, IncomingEffect
  <2>10. CASE Outgoing(c)
    BY <2>10, OutgoingEffect
  <2>11. CASE Presence(c)
    BY <2>11, PresenceEffect
  <2>12. CASE Drop(c)
    BY <2>12, DropEffect
  <2> QED
    BY <1>1, <2>1, <2>2, <2>3, <2>4, <2>5, <2>6, <2>7, <2>8, <2>9, <2>10, <2>11, <2>12 DEF Client, Serve
<1>2. CASE Evict
  BY <1>2, EvictEffect
<1>3. CASE Delete
  BY <1>3, DeleteEffect
<1>4. CASE Restart
  BY <1>4, RestartEffect
<1>5. CASE UNCHANGED vars
  BY <1>5 DEF vars, TypeInv, WiresInv, SessionsInv, RoomsInv, RoomIds
<1> QED
  BY <1>1, <1>2, <1>3, <1>4, <1>5 DEF Next

\* The first room.
LEMMA FirstRoom ==
    ASSUME Init
    PROVE  /\ RoomsInv /\ DOMAIN rooms = {1} /\ Len(rooms) = 1
           /\ rooms[1].doc = {} /\ rooms[1].held = {}
<1> DEFINE new == [doc |-> {}, held |-> {}]
<1>1. {} \in Edits
  BY FS_EmptySet DEF Edits
<1>2. new \in RoomType /\ new.held = {} /\ new.doc = {}
  BY <1>1 DEF RoomType
<1>3. rooms = <<new>>
  BY DEF Init
<1> HIDE DEF new
<1>4. <<new>> \in Seq(RoomType) /\ <<new>> # <<>> /\ DOMAIN <<new>> = {1} /\ <<new>>[1] = new /\ Len(<<new>>) = 1
  BY <1>2
<1> QED
  BY <1>2, <1>3, <1>4 DEF RoomsInv

LEMMA TypeInit == Init => TypeInv
<1> SUFFICES ASSUME Init PROVE TypeInv
  OBVIOUS
<1>1. RoomsInv
  BY FirstRoom
<1>2. SessionsInv
  BY NoSession DEF Init, SessionsInv
<1>3. {} \in Edits
  BY FS_EmptySet DEF Edits
<1>4. WiresInv
  BY <1>3, FramesNone DEF Init, WiresInv
<1>5. events \in 0 .. MaxEvents
  BY YWebsocketAssumption DEF Init
<1> QED
  BY <1>1, <1>2, <1>4, <1>5 DEF TypeInv

\* Every variable keeps its type: no receiver holds more than the channel's
\* capacity, and a session that is in a room is in one that exists.
THEOREM TypeCorrect == Spec => []TypeOK
<1>1. TypeInv => TypeOK
  <2> SUFFICES ASSUME TypeInv PROVE TypeOK
    OBVIOUS
  <2>1. /\ Edits \subseteq SUBSET Updates /\ FrameType \subseteq Frame
        /\ MessageType \subseteq Fanout /\ RoomType \subseteq RoomState
    BY DEF Edits, FrameType, MessageType, RoomType, Frame, Fanout, RoomState
  <2>2. \A S, T : S \subseteq T => Seq(S) \subseteq Seq(T)
    OBVIOUS
  <2>3. SessionType \subseteq SessionState
    BY <2>1, <2>2 DEF SessionType, SessionState
  <2>4. /\ Seq(FrameType) \subseteq Seq(Frame) /\ Seq(RoomType) \subseteq Seq(RoomState)
    BY <2>1, <2>2
  <2>5. /\ replica \in [Clients -> SUBSET Updates]
        /\ up \in [Clients -> Seq(Frame)]
        /\ down \in [Clients -> Seq(Frame)]
    BY <2>1, <2>4 DEF TypeInv, WiresInv
  <2>6. \A c \in Clients : Seated(session[c], RoomIds)
    BY ClientFacts
  <2>7. /\ session \in [Clients -> SessionState]
        /\ \A c \in Clients : /\ In(c) => session[c].room \in DOMAIN rooms
                              /\ Len(session[c].queue) <= FanoutCapacity
    BY <2>3, <2>6 DEF TypeInv, SessionsInv, Seated, In, RoomIds
  <2>8. rooms \in Seq(RoomState) /\ rooms # <<>> /\ events \in 0 .. MaxEvents
    BY <2>4 DEF TypeInv, RoomsInv
  <2> QED
    BY <2>5, <2>7, <2>8 DEF TypeOK
<1> QED
  BY <1>1, TypeInit, TypeStep, PTL DEF Spec

-----------------------------------------------------------------------------
(***************************************************************************)
(* The wires: a session off its room has nothing to pass on, whatever is   *)
(* on the way to a client in a room is in the room's document, and         *)
(* whatever a client sent is in its replica.                               *)
(***************************************************************************)

Doc(c) == rooms[session[c].room].doc

Linked(c) ==
    /\ ~In(c) => session[c].queue = <<>> /\ ~session[c].lagged
    /\ session[c].at # "relay" => down[c] = <<>>
    /\ In(c) => Carried(down[c]) \subseteq Doc(c) /\ Carried(session[c].queue) \subseteq Doc(c)
    /\ Carried(up[c]) \subseteq replica[c]

WiresLinked == \A c \in Clients : Linked(c)

\* How a session takes a broadcast.
Heeds(c, r, m) ==
    /\ session'[c].at = session[c].at
    /\ session'[c].room = session[c].room
    /\ session'[c].paused = session[c].paused
    /\ \/ /\ session'[c] = session[c]
          /\ m.content = {} \/ ~(In(c) /\ session[c].room = r)
       \/ /\ In(c) /\ session[c].room = r
          /\ Carried(session'[c].queue) \subseteq Carried(session[c].queue) \cup m.content
          /\ \/ session'[c].lagged
             \/ /\ session'[c].lagged = session[c].lagged
                /\ session'[c].queue = Append(session[c].queue, m)

LEMMA ToldHeeds ==
    ASSUME TypeInv, NEW c \in Clients, NEW r, NEW m \in MessageType, Told(c, r, m)
    PROVE  Heeds(c, r, m)
<1> DEFINE s == session[c]
           new == session'[c]
<1>1. CASE new = s /\ (m.content = {} \/ ~(In(c) /\ s.room = r))
  BY <1>1 DEF Heeds
<1>2. CASE In(c) /\ s.room = r /\ new = Enqueue(s, m)
  <2>1. Seated(s, RoomIds)
    BY ClientFacts
  <2> HIDE DEF s, new
  <2>2. /\ new.at = s.at /\ new.room = s.room /\ new.paused = s.paused
        /\ Carried(new.queue) \subseteq Carried(s.queue) \cup m.content
        /\ \/ new.lagged
           \/ new.lagged = s.lagged /\ new.queue = Append(s.queue, m)
    BY <1>2, <2>1, EnqueueEffect
  <2> QED
    BY <1>2, <2>2 DEF Heeds, s, new
<1> QED
  BY <1>1, <1>2 DEF Told, Hears

\* The documents of the rooms there were only grow.
Grown == \A r \in RoomIds : rooms[r].doc \subseteq rooms'[r].doc

\* What becomes of a client that only reads from its wire, or whose session
\* is told of something that is in the document.
LEMMA LinkedStill ==
    ASSUME TypeInv, NEW c \in Clients, Linked(c), Grown,
           replica'[c] = replica[c], down'[c] = down[c],
           up'[c] = up[c] \/ Taken(c),
           NEW r, NEW m \in MessageType, Heeds(c, r, m),
           In(c) /\ session[c].room = r => m.content \subseteq rooms'[r].doc
    PROVE  Linked(c)'
<1>1. In(c)' <=> In(c)
  BY DEF In, Heeds
<1>2. Carried(up'[c]) \subseteq replica[c]
  <2>1. CASE up'[c] = up[c]
    BY <2>1 DEF Linked
  <2>2. CASE Taken(c)
    <3>1. up[c] \in Seq(FrameType) /\ up[c] # <<>> /\ up'[c] = Tail(up[c])
      BY <2>2, ClientFacts DEF Taken
    <3>2. Carried(up'[c]) \subseteq Carried(up[c])
      BY <3>1, FramesTail
    <3> QED
      BY <3>2 DEF Linked
  <2> QED
    BY <2>1, <2>2
<1>3. ~In(c)' => session'[c].queue = <<>> /\ ~session'[c].lagged
  BY <1>1 DEF Linked, Heeds
<1>4. session'[c].at # "relay" => down'[c] = <<>>
  BY DEF Linked, Heeds
<1>5. In(c) => Carried(down'[c]) \subseteq Doc(c)' /\ Carried(session'[c].queue) \subseteq Doc(c)'
  <2> SUFFICES ASSUME In(c)
               PROVE  Carried(down'[c]) \subseteq Doc(c)' /\ Carried(session'[c].queue) \subseteq Doc(c)'
    OBVIOUS
  <2>1. session[c].room \in RoomIds
    BY ClientFacts
  <2>2. Doc(c) \subseteq Doc(c)'
    BY <2>1 DEF Doc, Grown, Heeds
  <2>3. Carried(down'[c]) \subseteq Doc(c) /\ Carried(session[c].queue) \subseteq Doc(c)
    BY DEF Linked
  <2>4. \/ session'[c] = session[c]
        \/ session[c].room = r /\ Carried(session'[c].queue) \subseteq Carried(session[c].queue) \cup m.content
    BY DEF Heeds
  <2>5. session[c].room = r => m.content \subseteq Doc(c)'
    BY DEF Doc, Heeds
  <2> QED
    BY <2>2, <2>3, <2>4, <2>5
<1> QED
  BY <1>1, <1>2, <1>3, <1>4, <1>5 DEF Linked

\* A client of which nothing changes, in rooms that only grow.
LEMMA LinkedSame ==
    ASSUME TypeInv, NEW c \in Clients, Linked(c), Grown,
           replica'[c] = replica[c], down'[c] = down[c], up'[c] = up[c], session'[c] = session[c]
    PROVE  Linked(c)'
<1>1. In(c)' <=> In(c)
  BY DEF In
<1>2. In(c) => Doc(c) \subseteq Doc(c)'
  BY ClientFacts DEF Doc, Grown
<1> QED
  BY <1>1, <1>2 DEF Linked

\* A step of one client keeps the others linked.
LEMMA LinkedSolo ==
    ASSUME TypeInv, WiresLinked, NEW c \in Clients, Solo(c), Linked(c)'
    PROVE  WiresLinked'
<1>1. Grown
  BY DEF Solo, Grown
<1>2. \A d \in Clients \ {c} : Linked(d)'
  BY <1>1, LinkedSame DEF Solo, WiresLinked
<1> QED
  BY <1>2 DEF WiresLinked

\* Rooms only grow but by a restart.
LEMMA AppliedGrows ==
    ASSUME TypeInv, NEW c \in Clients, NEW r \in RoomIds, NEW content \in Edits, Applied(c, r, content)
    PROVE  /\ Grown
           /\ Delta(r, content) \subseteq rooms'[r].doc
           /\ rooms'[r].doc = rooms[r].doc \cup Delta(r, content)
           /\ rooms'[r].held = Waiting(r, content) \ Readied(r, content)
           /\ Message(c, Delta(r, content)) \in MessageType
           /\ Message(c, Delta(r, content)).content = Delta(r, content)
           /\ Message(c, Delta(r, content)).from = c
           /\ \A d \in Clients : Heeds(d, r, Message(c, Delta(r, content)))
<1> DEFINE m == Message(c, Delta(r, content))
<1>1. /\ rooms'[r] = AppliedRoom(r, content)
      /\ \A s \in RoomIds \ {r} : rooms'[s] = rooms[s]
      /\ \A d \in Clients : Told(d, r, m)
  BY DEF Applied
<1>2. /\ Delta(r, content) \in Edits
      /\ AppliedRoom(r, content).doc = rooms[r].doc \cup Delta(r, content)
      /\ AppliedRoom(r, content).held = Waiting(r, content) \ Readied(r, content)
  BY AppliedFacts DEF TypeInv
<1>3. m \in MessageType /\ m.content = Delta(r, content) /\ m.from = c
  BY <1>2, FrameTypes
<1> HIDE DEF m
<1>4. \A d \in Clients : Heeds(d, r, m)
  BY <1>1, <1>3, ToldHeeds
<1>5. Grown
  BY <1>1, <1>2 DEF Grown
<1> QED
  BY <1>1, <1>2, <1>3, <1>4, <1>5 DEF m

\* What a frame that arrives carries is the client's.
LEMMA TakenContent ==
    ASSUME TypeInv, NEW c \in Clients, Linked(c), Taken(c)
    PROVE  /\ Head(up[c]) \in FrameType
           /\ Head(up[c]).content \in Edits
           /\ Head(up[c]).content \subseteq replica[c]
           /\ Carried(up'[c]) \subseteq replica[c]
           /\ up'[c] \in Seq(FrameType)
           /\ Head(up[c]).kind = "update" =>
                CarriedUpdates(up[c]) = CarriedUpdates(up'[c]) \cup Head(up[c]).content
           /\ Head(up[c]).kind # "update" => CarriedUpdates(up[c]) = CarriedUpdates(up'[c])
           /\ HasStep1(up[c]) <=> Head(up[c]).kind = "step1" \/ HasStep1(up'[c])
<1> DEFINE f == Head(up[c])
<1>1. up[c] \in Seq(FrameType) /\ up[c] # <<>> /\ up'[c] = Tail(up[c])
  BY ClientFacts DEF Taken
<1>2. /\ f \in FrameType
      /\ up'[c] \in Seq(FrameType)
      /\ Carried(up[c]) = Carried(up'[c]) \cup f.content
      /\ f.kind = "update" => CarriedUpdates(up[c]) = CarriedUpdates(up'[c]) \cup f.content
      /\ f.kind # "update" => CarriedUpdates(up[c]) = CarriedUpdates(up'[c])
      /\ HasStep1(up[c]) <=> f.kind = "step1" \/ HasStep1(up'[c])
  BY <1>1, FramesTail
<1> HIDE DEF f
<1>3. f.content \in Edits
  BY <1>2 DEF FrameType
<1>4. Carried(up[c]) \subseteq replica[c]
  BY DEF Linked
<1> QED
  BY <1>2, <1>3, <1>4 DEF f

\* Each step keeps every client linked.
LEMMA LinkedStep == ASSUME TypeInv, WiresLinked, [Next]_vars PROVE WiresLinked'
<1>1. ASSUME NEW c \in Clients, Client(c) \/ Serve(c) PROVE WiresLinked'
  <2>0. Linked(c)
    BY DEF WiresLinked
  <2>1. CASE Connect(c)
    <3>1. /\ Solo(c) /\ session[c].at = "off" /\ session'[c] = Entering
          /\ up'[c] = <<Step1(replica[c])>>
          /\ replica'[c] = replica[c] /\ down'[c] = down[c]
      BY <2>1, ConnectEffect
    <3>2. replica[c] \in Edits
      BY ClientFacts
    <3>3. Step1(replica[c]) \in FrameType /\ Step1(replica[c]).content = replica[c]
      BY <3>2, FrameTypes
    <3>4. Carried(up'[c]) = replica[c]
      BY <3>1, <3>3, FramesOne
    <3>5. down'[c] = <<>>
      BY <2>0, <3>1 DEF Linked
    <3>6. Linked(c)'
      BY <3>1, <3>4, <3>5, NoSession DEF Linked, In
    <3> QED
      BY <3>1, <3>6, LinkedSolo
  <2>2. CASE Receive(c)
    <3> DEFINE frame == Head(down[c])
               answer == Update(replica[c] \ frame.content)
    <3>1. /\ Solo(c) /\ down[c] # <<>> /\ down'[c] = Tail(down[c])
          /\ \/ /\ frame.kind = "step1" /\ replica'[c] = replica[c]
                /\ up'[c] = Append(up[c], answer) /\ answer \in FrameType
             \/ /\ frame.kind # "step1" /\ replica'[c] = replica[c] \cup frame.content
                /\ up'[c] = up[c]
          /\ session'[c] = session[c]
      BY <2>2, ReceiveEffect
    <3>2. answer.content = replica[c] \ frame.content
      BY DEF Update
    <3> HIDE DEF frame, answer
    <3>3. down[c] \in Seq(FrameType) /\ up[c] \in Seq(FrameType)
      BY ClientFacts
    <3>4. Carried(down'[c]) \subseteq Carried(down[c])
      BY <3>1, <3>3, FramesTail
    <3>5. Carried(up'[c]) \subseteq replica'[c]
      <4>1. Carried(up[c]) \subseteq replica[c]
        BY <2>0 DEF Linked
      <4>2. CASE up'[c] = Append(up[c], answer) /\ answer \in FrameType /\ replica'[c] = replica[c]
        <5>1. Carried(up'[c]) = Carried(up[c]) \cup answer.content
          BY <3>3, <4>2, FramesAppend
        <5> QED
          BY <3>2, <4>1, <4>2, <5>1
      <4> QED
        BY <3>1, <4>1, <4>2
    <3>6. session[c].at = "relay"
      BY <2>0, <3>1 DEF Linked
    <3>7. Doc(c)' = Doc(c) /\ In(c) /\ In(c)'
      BY <3>1, <3>6 DEF Doc, Solo, In
    <3>8. Linked(c)'
      BY <2>0, <3>1, <3>4, <3>5, <3>6, <3>7 DEF Linked
    <3> QED
      BY <3>1, <3>8, LinkedSolo
  <2>3. CASE \E u \in Updates : Edit(c, u)
    <3> PICK u \in Updates : Edit(c, u)
      BY <2>3
    <3> DEFINE frame == Update({u})
    <3>1. /\ Solo(c) /\ replica'[c] = replica[c] \cup {u}
          /\ up'[c] = up[c] \/ (up'[c] = Append(up[c], frame) /\ frame \in FrameType)
          /\ session'[c] = session[c] /\ down'[c] = down[c]
      BY EditEffect
    <3>2. frame.content = {u} /\ up[c] \in Seq(FrameType)
      BY ClientFacts DEF Update
    <3> HIDE DEF frame
    <3>3. Carried(up'[c]) \subseteq replica'[c]
      <4>1. Carried(up[c]) \subseteq replica[c]
        BY <2>0 DEF Linked
      <4>2. CASE up'[c] = Append(up[c], frame) /\ frame \in FrameType
        <5>1. Carried(up'[c]) = Carried(up[c]) \cup frame.content
          BY <3>2, <4>2, FramesAppend
        <5> QED
          BY <3>1, <3>2, <4>1, <5>1
      <4> QED
        BY <3>1, <4>1, <4>2
    <3>4. Doc(c)' = Doc(c) /\ (In(c) <=> In(c)')
      BY <3>1 DEF Doc, Solo, In
    <3>5. Linked(c)'
      BY <2>0, <3>1, <3>3, <3>4 DEF Linked
    <3> QED
      BY <3>1, <3>5, LinkedSolo
  <2>4. ASSUME Solo(c), ~In(c), replica'[c] = replica[c], up'[c] = up[c] \/ Taken(c), down'[c] = down[c],
               session'[c].queue = session[c].queue, session'[c].lagged = session[c].lagged,
               session'[c].at # "relay"
        PROVE  WiresLinked'
    <3>1. Carried(up'[c]) \subseteq replica'[c]
      BY <2>0, <2>4, TakenContent DEF Linked
    <3>2. down'[c] = <<>> /\ session'[c].queue = <<>> /\ ~session'[c].lagged
      BY <2>0, <2>4 DEF Linked, In
    <3>3. Carried(down'[c]) = {} /\ Carried(session'[c].queue) = {}
      BY <3>2, FramesNone
    <3>4. Linked(c)'
      BY <3>1, <3>2, <3>3 DEF Linked
    <3> QED
      BY <2>4, <3>4, LinkedSolo
  <2>6. CASE Pause(c)
    <3>1. /\ Solo(c) /\ session[c].at = "admitting" /\ session'[c] = Paused(session[c])
          /\ replica'[c] = replica[c] /\ up'[c] = up[c] /\ down'[c] = down[c]
      BY <2>6, PauseEffect
    <3>2. session'[c].at = "holding" /\ session'[c].queue = session[c].queue
          /\ session'[c].lagged = session[c].lagged
      BY <3>1, SessionMoves
    <3> QED
      BY <2>4, <3>1, <3>2 DEF In
  <2>7. CASE Hold(c)
    <3>1. /\ Solo(c) /\ session[c].at = "holding" /\ session'[c] = session[c] /\ Taken(c)
          /\ replica'[c] = replica[c] /\ down'[c] = down[c]
      BY <2>7, HoldEffect DEF Taken
    <3> QED
      BY <2>4, <3>1 DEF In
  <2>8. CASE Recheck(c)
    <3>1. /\ Solo(c) /\ session[c].at = "holding" /\ session'[c] = Moved(session[c], "admitting")
          /\ replica'[c] = replica[c] /\ up'[c] = up[c] /\ down'[c] = down[c]
      BY <2>8, RecheckEffect
    <3>2. session'[c].at = "admitting" /\ session'[c].queue = session[c].queue
          /\ session'[c].lagged = session[c].lagged
      BY <3>1, SessionMoves
    <3> QED
      BY <2>4, <3>1, <3>2 DEF In
  <2>9. CASE Join(c)
    <3>1. /\ Solo(c) /\ session[c].at = "admitting" /\ session'[c] = Joined(session[c], Registered)
          /\ replica'[c] = replica[c] /\ up'[c] = up[c] /\ down'[c] = down[c]
      BY <2>9, JoinEffect
    <3>3. session'[c].at = "greet" /\ session'[c].queue = session[c].queue
          /\ session'[c].lagged = session[c].lagged
      BY <3>1, SessionMoves
    <3> QED
      BY <2>4, <3>1, <3>3 DEF In
  <2>10. CASE Greet(c)
    <3> DEFINE doc == rooms[session[c].room].doc
               greeted == Append(down[c], Step1(doc))
    <3>1. /\ Solo(c) /\ session[c].at = "greet" /\ session'[c] = Moved(session[c], "relay")
          /\ replica'[c] = replica[c] /\ up'[c] = up[c]
          /\ Step1(doc) \in FrameType /\ Update(doc) \in FrameType /\ greeted \in Seq(FrameType)
          /\ down'[c] = IF session[c].paused THEN Append(greeted, Update(doc)) ELSE greeted
      BY <2>10, GreetEffect
    <3> DEFINE first == Step1(doc)
               second == Update(doc)
    <3>2. /\ first.content = doc /\ second.content = doc
          /\ down[c] \in Seq(FrameType) /\ greeted = Append(down[c], first)
          /\ first \in FrameType /\ second \in FrameType /\ greeted \in Seq(FrameType)
          /\ down'[c] = Append(greeted, second) \/ down'[c] = greeted
      BY <3>1, ClientFacts DEF Step1, Update
    <3> HIDE DEF first, second, greeted, doc
    <3>3. Carried(greeted) = Carried(down[c]) \cup doc
      <4>1. down[c] \in Seq(FrameType) /\ first \in FrameType /\ greeted = Append(down[c], first)
        BY <3>2
      <4>2. Carried(greeted) = Carried(down[c]) \cup first.content
        BY <4>1, FramesAppend
      <4> QED
        BY <3>2, <4>2
    <3>4. Carried(Append(greeted, second)) = Carried(greeted) \cup doc
      <4>1. greeted \in Seq(FrameType) /\ second \in FrameType
        BY <3>2
      <4>2. Carried(Append(greeted, second)) = Carried(greeted) \cup second.content
        BY <4>1, FramesAppend
      <4> QED
        BY <3>2, <4>2
    <3>5. Carried(down[c]) \subseteq doc /\ Carried(session[c].queue) \subseteq doc
      BY <2>0, <3>1 DEF Linked, In, Doc, doc
    <3>6. Carried(down'[c]) \subseteq doc
      BY <3>2, <3>3, <3>4, <3>5
    <3>7. session'[c].at = "relay" /\ session'[c].queue = session[c].queue
          /\ session'[c].lagged = session[c].lagged /\ session'[c].room = session[c].room
      BY <3>1, SessionMoves
    <3>8. Doc(c)' = doc
      BY <3>1, <3>7 DEF Doc, Solo, doc
    <3>9. Linked(c)'
      BY <2>0, <3>1, <3>5, <3>6, <3>7, <3>8 DEF Linked, In
    <3> QED
      BY <3>1, <3>9, LinkedSolo
  <2>11. CASE Incoming(c)
    <3> DEFINE frame == Head(up[c])
               r == session[c].room
               answer == Update(rooms[r].doc \ frame.content)
               content == frame.content
    <3>1. /\ session[c].at = "relay" /\ r \in RoomIds /\ Taken(c)
          /\ \/ /\ Solo(c) /\ session'[c] = session[c] /\ answer \in FrameType
                /\ down'[c] = Append(down[c], answer)
             \/ Solo(c) /\ session'[c] = session[c] /\ down'[c] = down[c]
             \/ Applied(c, r, content)
      BY <2>11, IncomingEffect
    <3>2. content \in Edits /\ Carried(up'[c]) \subseteq replica[c] /\ replica'[c] = replica[c]
      BY <2>0, <3>1, TakenContent DEF Taken
    <3>3. answer.content \subseteq Doc(c)
      BY DEF Update, Doc
    <3>4. Doc(c) = rooms[r].doc
      BY DEF Doc
    <3> HIDE DEF frame, r, answer, content
    <3>5. CASE /\ Solo(c) /\ session'[c] = session[c]
               /\ \/ down'[c] = down[c]
                  \/ answer \in FrameType /\ down'[c] = Append(down[c], answer)
      <4>1. down[c] \in Seq(FrameType)
        BY ClientFacts
      <4>2. Carried(down'[c]) \subseteq Carried(down[c]) \cup Doc(c)
        BY <3>3, <3>5, <4>1, FramesAppend
      <4>3. Doc(c)' = Doc(c)
        BY <3>5 DEF Doc, Solo
      <4>4. Linked(c)'
        BY <2>0, <3>1, <3>2, <3>5, <4>2, <4>3 DEF Linked, In
      <4> QED
        BY <3>5, <4>4, LinkedSolo
    <3>6. CASE Applied(c, r, content)
      <4> DEFINE m == Message(c, Delta(r, content))
      <4>1. /\ Grown
            /\ m.content \subseteq rooms'[r].doc
            /\ m \in MessageType
            /\ \A d \in Clients : Heeds(d, r, m)
        BY <3>1, <3>2, <3>6, AppliedGrows
      <4>2. \A d \in Clients : /\ replica'[d] = replica[d] /\ down'[d] = down[d]
                               /\ up'[d] = up[d] \/ Taken(d)
        BY <3>1, <3>6 DEF Applied
      <4> HIDE DEF m
      <4>3. \A d \in Clients : Linked(d)'
        BY <4>1, <4>2, LinkedStill DEF WiresLinked
      <4> QED
        BY <4>3 DEF WiresLinked
    <3> QED
      BY <3>1, <3>5, <3>6
  <2>12. ASSUME Solo(c), Ended(c) PROVE WiresLinked'
    <3>1. Linked(c)'
      BY <2>12, FramesNone, NoSession DEF Linked, Ended, In
    <3> QED
      BY <2>12, <3>1, LinkedSolo
  <2>13. CASE Outgoing(c)
    <3> DEFINE message == Head(session[c].queue)
               frame == Update(message.content)
    <3>1. /\ Solo(c) /\ session[c].at = "relay"
          /\ \/ Ended(c)
             \/ /\ session[c].queue # <<>>
                /\ session'[c] = Heard(session[c])
                /\ replica'[c] = replica[c] /\ up'[c] = up[c]
                /\ \/ down'[c] = down[c]
                   \/ frame \in FrameType /\ down'[c] = Append(down[c], frame)
      BY <2>13, OutgoingEffect
    <3>2. CASE /\ session[c].queue # <<>>
               /\ session'[c] = Heard(session[c])
               /\ replica'[c] = replica[c] /\ up'[c] = up[c]
               /\ \/ down'[c] = down[c]
                  \/ frame \in FrameType /\ down'[c] = Append(down[c], frame)
      <4>1. /\ session'[c].at = session[c].at /\ session'[c].room = session[c].room
            /\ session'[c].queue = Tail(session[c].queue) /\ session'[c].lagged = session[c].lagged
        BY <3>2, SessionMoves
      <4>2. session[c].queue \in Seq(MessageType) /\ down[c] \in Seq(FrameType)
        BY ClientFacts
      <4>3. Carried(session[c].queue) = Carried(session'[c].queue) \cup message.content
        BY <3>2, <4>1, <4>2, FromOthersTail
      <4>4. frame.content = message.content
        BY DEF Update
      <4> HIDE DEF message, frame
      <4>5. Carried(down'[c]) \subseteq Carried(down[c]) \cup message.content
        <5>1. CASE down'[c] = down[c]
          BY <5>1
        <5>2. CASE frame \in FrameType /\ down'[c] = Append(down[c], frame)
          <6>1. Carried(down'[c]) = Carried(down[c]) \cup frame.content
            BY <4>2, <5>2, FramesAppend
          <6> QED
            BY <4>4, <6>1
        <5> QED
          BY <3>2, <5>1, <5>2
      <4>6. Doc(c)' = Doc(c)
        BY <3>1, <4>1 DEF Doc, Solo
      <4>7. Linked(c)'
        BY <2>0, <3>1, <3>2, <4>1, <4>3, <4>5, <4>6 DEF Linked, In
      <4> QED
        BY <3>1, <4>7, LinkedSolo
    <3> QED
      BY <2>12, <3>1, <3>2
  <2>14. CASE Presence(c)
    <3> DEFINE m == Message(c, {})
               r == session[c].room
    <3>1. /\ UNCHANGED <<replica, up, down, rooms>>
          /\ \A d \in Clients : Hears(d, r, m)
          /\ m \in MessageType
      BY <2>14, PresenceEffect
    <3>2. m.content = {}
      BY DEF Message
    <3> HIDE DEF m, r
    <3>3. \A d \in Clients : Heeds(d, r, m)
      BY <3>1, ToldHeeds DEF Told
    <3>4. Grown
      BY <3>1 DEF Grown
    <3>5. \A d \in Clients : Linked(d)'
      BY <3>1, <3>2, <3>3, <3>4, LinkedStill DEF WiresLinked
    <3> QED
      BY <3>5 DEF WiresLinked
  <2>15. CASE Drop(c)
    BY <2>12, <2>15, DropEffect
  <2> QED
    BY <1>1, <2>1, <2>2, <2>3, <2>6, <2>7, <2>8, <2>9, <2>10, <2>11, <2>13, <2>14, <2>15 DEF Client, Serve
<1>2. CASE Evict
  <2>1. /\ UNCHANGED <<replica, up, down, session>>
        /\ \A s \in RoomIds : rooms'[s].doc = rooms[s].doc
    BY <1>2, EvictEffect
  <2>2. Grown
    BY <2>1 DEF Grown
  <2>3. \A d \in Clients : Linked(d)'
    BY <2>1, <2>2, LinkedSame DEF WiresLinked
  <2> QED
    BY <2>3 DEF WiresLinked
<1>3. CASE Delete
  <2>1. /\ UNCHANGED <<replica, up, down>>
        /\ \A c \in Clients : Hears(c, Registered, Closed)
        /\ \A s \in RoomIds : rooms'[s] = rooms[s]
    BY <1>3, DeleteEffect
  <2>2. Closed \in MessageType /\ Closed.content = {}
    BY FS_EmptySet DEF Closed, MessageType, Edits
  <2>3. Grown
    BY <2>1 DEF Grown
  <2>4. \A d \in Clients : Heeds(d, Registered, Closed)
    BY <2>1, <2>2, ToldHeeds DEF Told
  <2>5. \A d \in Clients : Linked(d)'
    BY <2>1, <2>2, <2>3, <2>4, LinkedStill DEF WiresLinked
  <2> QED
    BY <2>5 DEF WiresLinked
<1>4. CASE Restart
  <2>1. UNCHANGED replica /\ \A c \in Clients : Ended(c)
    BY <1>4, RestartEffect
  <2> QED
    BY <2>1, FramesNone, NoSession DEF WiresLinked, Linked, Ended, In
<1>5. CASE UNCHANGED vars
  <2>1. Grown /\ \A d \in Clients : Linked(d)'
    BY <1>5, LinkedSame DEF vars, Grown, WiresLinked
  <2> QED
    BY <2>1 DEF WiresLinked
<1> QED
  BY <1>1, <1>2, <1>3, <1>4, <1>5 DEF Next

LEMMA LinkedInit == Init => WiresLinked
BY FramesNone, NoSession DEF Init, WiresLinked, Linked, In

-----------------------------------------------------------------------------
(***************************************************************************)
(* Nothing is forgotten.                                                   *)
(***************************************************************************)

Backlog(c) == rooms[session[c].room].held

Full(c) == Cardinality(Doc(c)) + Cardinality(replica[c]) > MaxDocument

\* NothingForgotten, of one client.
Kept(c) ==
    (c \notin Readers /\ session[c].at = "relay") =>
        \/ HasStep1(down[c])
        \/ Full(c)
        \/ replica[c] \subseteq Doc(c) \cup Backlog(c) \cup CarriedUpdates(up[c])

LEMMA KeptMeans == NothingForgotten <=> \A c \in Clients : Kept(c)
BY DEF NothingForgotten, Kept, Full, Doc, Backlog

\* A document that was full of a client's edits stays full of them.
LEMMA FullStays ==
    ASSUME TypeInv, TypeInv', NEW c \in Clients, session[c].at = "relay", session'[c].at = "relay",
           Full(c), Doc(c) \subseteq Doc(c)', replica[c] \subseteq replica'[c]
    PROVE  Full(c)'
<1>1. In(c) /\ In(c)'
  BY DEF In
<1>2. Doc(c) \in Edits /\ replica[c] \in Edits
  BY <1>1, ClientFacts, RoomFacts DEF Doc, TypeInv
<1>3. session'[c].room \in RoomIds' /\ replica'[c] \in Edits /\ RoomsInv'
  BY <1>1 DEF TypeInv, WiresInv, SessionsInv, Seated, In
<1>4. rooms'[session'[c].room] \in RoomType
  BY <1>3, ElementOfSeq, LenProperties DEF RoomsInv, RoomIds
<1>5. Doc(c)' \in Edits
  BY <1>4 DEF Doc, RoomType
<1> DEFINE d == Doc(c)
           e == Doc(c)'
           p == replica[c]
           q == replica'[c]
<1> HIDE DEF d, e, p, q
<1>6. d \in Edits /\ e \in Edits /\ p \in Edits /\ q \in Edits /\ d \subseteq e /\ p \subseteq q
  BY <1>2, <1>3, <1>5 DEF d, e, p, q
<1>7. /\ Cardinality(d) \in Nat /\ Cardinality(e) \in Nat /\ Cardinality(d) <= Cardinality(e)
      /\ Cardinality(p) \in Nat /\ Cardinality(q) \in Nat /\ Cardinality(p) <= Cardinality(q)
  BY <1>6, EditsFinite
<1>8. Cardinality(d) + Cardinality(p) > MaxDocument
  BY DEF Full, d, p
<1>9. Cardinality(d) + Cardinality(p) <= Cardinality(e) + Cardinality(q)
  BY <1>7
<1>10. Cardinality(e) + Cardinality(q) > MaxDocument
  BY <1>7, <1>8, <1>9, YWebsocketAssumption
<1> QED
  BY <1>10 DEF Full, e, q

\* A client that keeps its edits and its wires, in a room that only grows.
LEMMA KeptStill ==
    ASSUME TypeInv, TypeInv', NEW c \in Clients, Kept(c),
           replica'[c] = replica[c], up'[c] = up[c], down'[c] = down[c],
           session'[c].at = session[c].at,
           Doc(c) \subseteq Doc(c)',
           Doc(c) \cup Backlog(c) \subseteq Doc(c)' \cup Backlog(c)'
    PROVE  Kept(c)'
<1> SUFFICES ASSUME c \notin Readers, session'[c].at = "relay" PROVE
        \/ HasStep1(down'[c])
        \/ Full(c)'
        \/ replica'[c] \subseteq Doc(c)' \cup Backlog(c)' \cup CarriedUpdates(up'[c])
  BY DEF Kept
<1>1. CASE Full(c)
  BY <1>1, FullStays
<1> QED
  BY <1>1 DEF Kept

LEMMA KeptSame ==
    ASSUME TypeInv, TypeInv', NEW c \in Clients, Kept(c), UNCHANGED rooms,
           replica'[c] = replica[c], up'[c] = up[c], down'[c] = down[c], session'[c] = session[c]
    PROVE  Kept(c)'
BY DEF Kept, Full, Doc, Backlog

\* A step of one client: the others are as they were.
LEMMA KeptSolo ==
    ASSUME TypeInv, TypeInv', NothingForgotten, NEW c \in Clients, Solo(c), Kept(c)'
    PROVE  NothingForgotten'
<1>1. \A d \in Clients \ {c} : Kept(d)'
  BY KeptSame, KeptMeans DEF Solo
<1>2. \A d \in Clients : Kept(d)'
  BY <1>1
<1> QED
  BY <1>2 DEF NothingForgotten, Kept, Full, Doc, Backlog

\* What a client receives, it keeps.
LEMMA KeptReceive ==
    ASSUME TypeInv, TypeInv', WiresLinked, NothingForgotten, NEW c \in Clients, Receive(c)
    PROVE  Kept(c)'
<1> DEFINE frame == Head(down[c])
           answer == Update(replica[c] \ frame.content)
<1>1. /\ Solo(c) /\ down[c] # <<>> /\ down'[c] = Tail(down[c])
      /\ \/ /\ frame.kind = "step1" /\ replica'[c] = replica[c]
            /\ up'[c] = Append(up[c], answer) /\ answer \in FrameType
         \/ /\ frame.kind # "step1" /\ replica'[c] = replica[c] \cup frame.content
            /\ up'[c] = up[c]
      /\ session'[c] = session[c]
  BY ReceiveEffect
<1>2. answer.content = replica[c] \ frame.content /\ answer.kind = "update"
  BY DEF Update
<1> HIDE DEF frame, answer
<1>3. down[c] \in Seq(FrameType) /\ up[c] \in Seq(FrameType)
  BY ClientFacts
<1>4. /\ Carried(down[c]) = Carried(down'[c]) \cup frame.content
      /\ HasStep1(down[c]) <=> frame.kind = "step1" \/ HasStep1(down'[c])
  BY <1>1, <1>3, FramesTail DEF frame
<1>5. session[c].at = "relay" /\ Carried(down[c]) \subseteq Doc(c)
  BY <1>1 DEF WiresLinked, Linked, In
<1>6. Doc(c)' = Doc(c) /\ Backlog(c)' = Backlog(c)
  BY <1>1 DEF Doc, Backlog, Solo
<1>7. frame.content \subseteq Doc(c)
  BY <1>4, <1>5
<1>8. CASE frame.kind = "step1" /\ up'[c] = Append(up[c], answer) /\ answer \in FrameType /\ replica'[c] = replica[c]
  <2>1. CarriedUpdates(up'[c]) = CarriedUpdates(up[c]) \cup answer.content
    BY <1>2, <1>3, <1>8, FramesAppend
  <2>2. replica'[c] \subseteq Doc(c)' \cup Backlog(c)' \cup CarriedUpdates(up'[c])
    BY <1>2, <1>6, <1>7, <1>8, <2>1
  <2> QED
    BY <2>2 DEF Kept
<1>9. CASE frame.kind # "step1" /\ up'[c] = up[c] /\ replica'[c] = replica[c] \cup frame.content
  <2>1. CASE Full(c)
    BY <1>1, <1>5, <1>6, <1>9, <2>1, FullStays DEF Kept
  <2>2. CASE HasStep1(down[c])
    BY <1>4, <1>9, <2>2 DEF Kept
  <2>3. CASE replica[c] \subseteq Doc(c) \cup Backlog(c) \cup CarriedUpdates(up[c])
    BY <1>6, <1>7, <1>9, <2>3 DEF Kept
  <2>4. c \in Readers \/ HasStep1(down[c]) \/ Full(c)
        \/ replica[c] \subseteq Doc(c) \cup Backlog(c) \cup CarriedUpdates(up[c])
    BY <1>5, KeptMeans DEF Kept
  <2> QED
    BY <2>1, <2>2, <2>3, <2>4 DEF Kept
<1> QED
  BY <1>1, <1>8, <1>9

\* What it writes, it sends.
LEMMA KeptEdit ==
    ASSUME TypeInv, TypeInv', NothingForgotten, NEW c \in Clients, NEW u \in Updates, Edit(c, u)
    PROVE  Kept(c)'
<1> SUFFICES ASSUME c \notin Readers, session'[c].at = "relay" PROVE
        \/ HasStep1(down'[c])
        \/ Full(c)'
        \/ replica'[c] \subseteq Doc(c)' \cup Backlog(c)' \cup CarriedUpdates(up'[c])
  BY DEF Kept
<1> DEFINE frame == Update({u})
<1>1. /\ Solo(c) /\ replica'[c] = replica[c] \cup {u}
      /\ session'[c] = session[c] /\ down'[c] = down[c]
      /\ session[c].at = "off" => up'[c] = up[c]
      /\ session[c].at # "off" => up'[c] = Append(up[c], frame) /\ frame \in FrameType
  BY EditEffect
<1>2. up'[c] = Append(up[c], frame) /\ frame \in FrameType /\ session[c].at = "relay"
  BY <1>1
<1>3. frame.content = {u} /\ frame.kind = "update" /\ up[c] \in Seq(FrameType)
  BY ClientFacts DEF Update
<1> HIDE DEF frame
<1>4. CarriedUpdates(up'[c]) = CarriedUpdates(up[c]) \cup {u}
  <2>1. frame \in FrameType /\ up[c] \in Seq(FrameType) /\ frame.kind = "update"
    BY <1>2, <1>3
  <2>2. CarriedUpdates(Append(up[c], frame)) = CarriedUpdates(up[c]) \cup frame.content
    BY <2>1, FramesAppend
  <2> QED
    BY <1>2, <1>3, <2>2
<1>5. Doc(c)' = Doc(c) /\ Backlog(c)' = Backlog(c)
  BY <1>1 DEF Doc, Backlog, Solo
<1>6. Full(c) => Full(c)'
  BY <1>1, <1>2, <1>5, FullStays
<1>7. \/ HasStep1(down[c])
      \/ Full(c)
      \/ replica[c] \subseteq Doc(c) \cup Backlog(c) \cup CarriedUpdates(up[c])
  BY <1>2, KeptMeans DEF Kept
<1> QED
  BY <1>1, <1>4, <1>5, <1>6, <1>7

\* It is asked for everything.
LEMMA KeptGreet ==
    ASSUME TypeInv, NEW c \in Clients, Greet(c)
    PROVE  Kept(c)' /\ Solo(c)
<1> DEFINE doc == rooms[session[c].room].doc
           first == Step1(doc)
           second == Update(doc)
           greeted == Append(down[c], first)
<1>1. /\ Solo(c) /\ first \in FrameType /\ second \in FrameType /\ greeted \in Seq(FrameType)
      /\ down'[c] = Append(greeted, second) \/ down'[c] = greeted
  BY GreetEffect
<1>2. first.kind = "step1" /\ down[c] \in Seq(FrameType)
  BY ClientFacts DEF Step1
<1> HIDE DEF first, second
<1>3. HasStep1(greeted)
  BY <1>1, <1>2, FramesAppend
<1> HIDE DEF greeted
<1>4. HasStep1(Append(greeted, second))
  BY <1>1, <1>3, FramesAppend
<1>5. HasStep1(down'[c])
  BY <1>1, <1>3, <1>4
<1> QED
  BY <1>1, <1>5 DEF Kept

\* What arrives of it is answered, or is full to take, or taken in.
LEMMA KeptIncoming ==
    ASSUME TypeInv, TypeInv', WiresLinked, NothingForgotten, NEW c \in Clients, Incoming(c)
    PROVE  NothingForgotten'
<1> DEFINE frame == Head(up[c])
           r == session[c].room
           answer == Update(rooms[r].doc \ frame.content)
           content == frame.content
<1>1. /\ session[c].at = "relay" /\ r \in RoomIds /\ Taken(c)
      /\ \/ /\ Solo(c) /\ session'[c] = session[c] /\ answer \in FrameType
            /\ frame.kind = "step1"
            /\ down'[c] = Append(down[c], answer)
         \/ /\ Solo(c) /\ session'[c] = session[c] /\ down'[c] = down[c]
            /\ frame.kind = "update"
            /\ \/ c \in Readers
               \/ Cardinality(rooms[r].doc) + Cardinality(content) > MaxDocument
         \/ frame.kind = "update" /\ Applied(c, r, content)
  BY IncomingEffect
<1>2. /\ content \in Edits /\ content \subseteq replica[c] /\ replica'[c] = replica[c]
      /\ frame.kind = "update" => CarriedUpdates(up[c]) = CarriedUpdates(up'[c]) \cup content
      /\ frame.kind # "update" => CarriedUpdates(up[c]) = CarriedUpdates(up'[c])
  BY <1>1, TakenContent DEF WiresLinked, Taken
<1>3. Doc(c) = rooms[r].doc /\ Backlog(c) = rooms[r].held
  BY DEF Doc, Backlog
<1>4. \/ c \in Readers
      \/ HasStep1(down[c])
      \/ Full(c)
      \/ replica[c] \subseteq Doc(c) \cup Backlog(c) \cup CarriedUpdates(up[c])
  BY <1>1, KeptMeans DEF Kept
<1> HIDE DEF frame, r, answer, content
<1>5. CASE /\ Solo(c) /\ session'[c] = session[c] /\ answer \in FrameType
           /\ frame.kind = "step1"
           /\ down'[c] = Append(down[c], answer)
  <2>1. Doc(c)' = Doc(c) /\ Backlog(c)' = Backlog(c)
    BY <1>5 DEF Doc, Backlog, Solo
  <2>2. down[c] \in Seq(FrameType)
    BY ClientFacts
  <2>3. HasStep1(down[c]) => HasStep1(down'[c])
    BY <1>5, <2>2, FramesAppend
  <2>4. CarriedUpdates(up'[c]) = CarriedUpdates(up[c])
    BY <1>2, <1>5
  <2>5. Full(c) => Full(c)'
    BY <1>2, <2>1 DEF Full
  <2>6. Kept(c)'
    BY <1>2, <1>4, <2>1, <2>3, <2>4, <2>5 DEF Kept
  <2> QED
    BY <1>5, <2>6, KeptSolo
<1>6. CASE /\ Solo(c) /\ session'[c] = session[c] /\ down'[c] = down[c]
           /\ frame.kind = "update"
           /\ \/ c \in Readers
              \/ Cardinality(rooms[r].doc) + Cardinality(content) > MaxDocument
  <2>1. Doc(c)' = Doc(c)
    BY <1>6 DEF Doc, Solo
  <2>2. CASE c \in Readers
    BY <2>2, <1>6, KeptSolo DEF Kept
  <2>3. CASE Cardinality(rooms[r].doc) + Cardinality(content) > MaxDocument
    <3>1. replica[c] \in Edits /\ rooms[r].doc \in Edits
      BY <1>1, ClientFacts, RoomFacts DEF TypeInv
    <3>2. /\ Cardinality(content) <= Cardinality(replica[c])
          /\ Cardinality(content) \in Nat /\ Cardinality(replica[c]) \in Nat
      BY <1>2, <3>1, EditsFinite
    <3>3. Cardinality(rooms[r].doc) \in Nat
      BY <3>1, EditsFinite
    <3>4. Cardinality(rooms[r].doc) + Cardinality(replica[c]) > MaxDocument
      BY <2>3, <3>2, <3>3, YWebsocketAssumption
    <3>5. Full(c)'
      BY <1>2, <1>3, <2>1, <3>4 DEF Full
    <3> QED
      BY <1>6, <3>5, KeptSolo DEF Kept
  <2> QED
    BY <1>6, <2>2, <2>3
<1>7. CASE frame.kind = "update" /\ Applied(c, r, content)
  <2> DEFINE m == Message(c, Delta(r, content))
  <2>1. /\ rooms'[r].doc = rooms[r].doc \cup Delta(r, content)
        /\ rooms'[r].held = Waiting(r, content) \ Readied(r, content)
        /\ \A d \in Clients : Heeds(d, r, m)
    BY <1>1, <1>2, <1>7, AppliedGrows
  <2>2. /\ \A s \in RoomIds \ {r} : rooms'[s] = rooms[s]
        /\ UNCHANGED <<replica, down>>
        /\ \A d \in Clients \ {c} : up'[d] = up[d]
    BY <1>7 DEF Applied
  <2>3. rooms[r].doc \cup rooms[r].held \cup content \subseteq rooms'[r].doc \cup rooms'[r].held
    BY <2>1 DEF Delta, Waiting
  <2>4. rooms[r].doc \subseteq rooms'[r].doc
    BY <2>1
  <2>5. \A s \in RoomIds : /\ rooms[s].doc \subseteq rooms'[s].doc
                           /\ rooms[s].doc \cup rooms[s].held \subseteq rooms'[s].doc \cup rooms'[s].held
    BY <2>2, <2>3, <2>4
  <2>6. \A d \in Clients : session'[d].at = session[d].at /\ session'[d].room = session[d].room
    BY <2>1 DEF Heeds
  <2>7. ASSUME NEW d \in Clients, session[d].at = "relay"
        PROVE  /\ Doc(d) \subseteq Doc(d)'
               /\ Doc(d) \cup Backlog(d) \subseteq Doc(d)' \cup Backlog(d)'
    <3>1. session[d].room \in RoomIds
      BY <2>7, ClientFacts DEF In
    <3> QED
      BY <2>5, <2>6, <3>1 DEF Doc, Backlog
  <2>8. ASSUME NEW d \in Clients \ {c} PROVE Kept(d)'
    <3>1. CASE session[d].at = "relay"
      BY <2>2, <2>6, <2>7, <3>1, KeptStill, KeptMeans
    <3>2. CASE session[d].at # "relay"
      BY <2>6, <3>2 DEF Kept
    <3> QED
      BY <3>1, <3>2
  <2>9. Kept(c)'
    <3>1. Doc(c) \subseteq Doc(c)' /\ Doc(c) \cup Backlog(c) \subseteq Doc(c)' \cup Backlog(c)'
      BY <1>1, <2>7
    <3>2. content \subseteq Doc(c)' \cup Backlog(c)'
      BY <2>3, <2>6 DEF Doc, Backlog, r
    <3>3. Full(c) => Full(c)'
      BY <1>1, <1>2, <2>6, <3>1, FullStays
    <3>4. CarriedUpdates(up[c]) = CarriedUpdates(up'[c]) \cup content
      BY <1>2, <1>7
    <3>5. down'[c] = down[c]
      BY <2>2
    <3> QED
      BY <1>2, <1>4, <3>1, <3>2, <3>3, <3>4, <3>5 DEF Kept
  <2>10. \A d \in Clients : Kept(d)'
    BY <2>8, <2>9
  <2> QED
    BY <2>10 DEF NothingForgotten, Kept, Full, Doc, Backlog
<1> QED
  BY <1>1, <1>5, <1>6, <1>7

\* Each step keeps what clients hold.
LEMMA ForgottenStep ==
    ASSUME TypeInv, TypeInv', WiresLinked, NothingForgotten, [Next]_vars PROVE NothingForgotten'
<1>0. ASSUME \A d \in Clients : Kept(d)' PROVE NothingForgotten'
  BY <1>0 DEF NothingForgotten, Kept, Full, Doc, Backlog
<1>1. ASSUME NEW c \in Clients, Client(c) \/ Serve(c) PROVE NothingForgotten'
  <2>1. ASSUME Solo(c), session'[c].at # "relay" PROVE NothingForgotten'
    BY <2>1, KeptSolo DEF Kept
  <2>2. CASE Connect(c)
    BY <2>1, <2>2, ConnectEffect, NoSession
  <2>3. CASE Receive(c)
    BY <2>3, KeptReceive, ReceiveEffect, KeptSolo
  <2>4. CASE \E u \in Updates : Edit(c, u)
    BY <2>4, KeptEdit, EditEffect, KeptSolo
  <2>5. CASE Pause(c)
    <3>1. Solo(c) /\ session'[c] = Paused(session[c])
      BY <2>5, PauseEffect
    <3> QED
      BY <2>1, <3>1, SessionMoves
  <2>6. CASE Hold(c)
    BY <2>1, <2>6, HoldEffect
  <2>7. CASE Recheck(c)
    <3>1. Solo(c) /\ session'[c] = Moved(session[c], "admitting")
      BY <2>7, RecheckEffect
    <3> QED
      BY <2>1, <3>1, SessionMoves
  <2>8. CASE Join(c)
    <3>1. Solo(c) /\ session'[c] = Joined(session[c], Registered)
      BY <2>8, JoinEffect
    <3> QED
      BY <2>1, <3>1, SessionMoves
  <2>9. CASE Greet(c)
    BY <2>9, KeptGreet, KeptSolo
  <2>10. CASE Incoming(c)
    BY <2>10, KeptIncoming
  <2>11. ASSUME Solo(c), Ended(c) PROVE NothingForgotten'
    BY <2>1, <2>11, NoSession DEF Ended
  <2>12. CASE Outgoing(c)
    <3> DEFINE message == Head(session[c].queue)
               frame == Update(message.content)
    <3>1. /\ Solo(c) /\ session[c].at = "relay"
          /\ \/ Ended(c)
             \/ /\ session'[c] = Heard(session[c])
                /\ replica'[c] = replica[c] /\ up'[c] = up[c]
                /\ \/ down'[c] = down[c]
                   \/ frame \in FrameType /\ down'[c] = Append(down[c], frame)
      BY <2>12, OutgoingEffect
    <3>2. CASE /\ session'[c] = Heard(session[c])
               /\ replica'[c] = replica[c] /\ up'[c] = up[c]
               /\ \/ down'[c] = down[c]
                  \/ frame \in FrameType /\ down'[c] = Append(down[c], frame)
      <4>1. session'[c].at = session[c].at /\ session'[c].room = session[c].room
        BY <3>2, SessionMoves
      <4>2. Doc(c)' = Doc(c) /\ Backlog(c)' = Backlog(c)
        BY <3>1, <4>1 DEF Doc, Backlog, Solo
      <4>3. down[c] \in Seq(FrameType)
        BY ClientFacts
      <4> HIDE DEF frame
      <4>4. HasStep1(down[c]) => HasStep1(down'[c])
        BY <3>2, <4>3, FramesAppend
      <4>5. Full(c) => Full(c)'
        BY <3>2, <4>2 DEF Full
      <4>6. Kept(c)
        BY KeptMeans
      <4>7. Kept(c)'
        BY <3>1, <3>2, <4>2, <4>4, <4>5, <4>6 DEF Kept
      <4> QED
        BY <3>1, <4>7, KeptSolo
    <3> QED
      BY <2>11, <3>1, <3>2
  <2>13. CASE Presence(c)
    <3>1. /\ UNCHANGED <<replica, up, down, rooms>>
          /\ \A d \in Clients : Hears(d, session[c].room, Message(c, {}))
          /\ Message(c, {}) \in MessageType
      BY <2>13, PresenceEffect
    <3>2. \A d \in Clients : session'[d].at = session[d].at /\ session'[d].room = session[d].room
      BY <3>1, ToldHeeds DEF Told, Heeds
    <3>3. \A d \in Clients : Doc(d)' = Doc(d) /\ Backlog(d)' = Backlog(d)
      BY <3>1, <3>2 DEF Doc, Backlog
    <3>4. \A d \in Clients : Kept(d)'
      BY <3>1, <3>2, <3>3, KeptStill, KeptMeans
    <3> QED
      BY <1>0, <3>4
  <2>14. CASE Drop(c)
    BY <2>11, <2>14, DropEffect
  <2> QED
    BY <1>1, <2>2, <2>3, <2>4, <2>5, <2>6, <2>7, <2>8, <2>9, <2>10, <2>12, <2>13, <2>14 DEF Client, Serve
<1>2. CASE Evict
  <2>1. /\ UNCHANGED <<replica, up, down, session>>
        /\ \A d \in Clients : In(d) => session[d].room # Registered
        /\ \A s \in RoomIds : s # Registered => rooms'[s] = rooms[s]
    BY <1>2, EvictEffect
  <2>2. ASSUME NEW d \in Clients PROVE Kept(d)'
    <3>1. CASE session[d].at = "relay"
      <4>1. In(d) /\ session[d].room \in RoomIds /\ session[d].room # Registered
        BY <2>1, <3>1, ClientFacts DEF In
      <4>2. Doc(d)' = Doc(d) /\ Backlog(d)' = Backlog(d)
        BY <2>1, <4>1 DEF Doc, Backlog
      <4> QED
        BY <2>1, <4>2, KeptStill, KeptMeans
    <3>2. CASE session[d].at # "relay"
      BY <2>1, <3>2 DEF Kept
    <3> QED
      BY <3>1, <3>2
  <2> QED
    BY <1>0, <2>2
<1>3. CASE Delete
  <2>1. /\ UNCHANGED <<replica, up, down>>
        /\ \A c \in Clients : Hears(c, Registered, Closed)
        /\ \A s \in RoomIds : rooms'[s] = rooms[s]
    BY <1>3, DeleteEffect
  <2>2. Closed \in MessageType
    BY FS_EmptySet DEF Closed, MessageType, Edits
  <2>3. \A d \in Clients : session'[d].at = session[d].at /\ session'[d].room = session[d].room
    BY <2>1, <2>2, ToldHeeds DEF Told, Heeds
  <2>4. ASSUME NEW d \in Clients PROVE Kept(d)'
    <3>1. CASE session[d].at = "relay"
      <4>1. session[d].room \in RoomIds
        BY <3>1, ClientFacts DEF In
      <4>2. Doc(d)' = Doc(d) /\ Backlog(d)' = Backlog(d)
        BY <2>1, <2>3, <4>1 DEF Doc, Backlog
      <4> QED
        BY <2>1, <2>3, <4>2, KeptStill, KeptMeans
    <3>2. CASE session[d].at # "relay"
      BY <2>3, <3>2 DEF Kept
    <3> QED
      BY <3>1, <3>2
  <2> QED
    BY <1>0, <2>4
<1>4. CASE Restart
  <2>1. \A c \in Clients : Ended(c)
    BY <1>4, RestartEffect
  <2>2. \A d \in Clients : Kept(d)'
    BY <2>1, NoSession DEF Kept, Ended
  <2> QED
    BY <1>0, <2>2
<1>5. CASE UNCHANGED vars
  <2>1. \A d \in Clients : Kept(d)'
    BY <1>5, KeptSame, KeptMeans DEF vars
  <2> QED
    BY <1>0, <2>1
<1> QED
  BY <1>1, <1>2, <1>3, <1>4, <1>5 DEF Next

\* What a client that may write holds is in its room, or on the way there,
\* or will be in its answer to the room's step 1, unless the document is
\* full: whatever the order of its edits, its pauses and its disconnections.
THEOREM NothingForgottenTheorem == Spec => []NothingForgotten
<1> DEFINE Inv == TypeInv /\ WiresLinked /\ NothingForgotten
<1>1. Init => Inv
  <2>1. Init => NothingForgotten
    BY NoSession DEF Init, NothingForgotten
  <2> QED
    BY <2>1, TypeInit, LinkedInit
<1>2. Inv /\ [Next]_vars => Inv'
  BY TypeStep, LinkedStep, ForgottenStep
<1>3. Inv => NothingForgotten
  OBVIOUS
<1> QED
  BY <1>1, <1>2, <1>3, PTL DEF Spec

-----------------------------------------------------------------------------
(***************************************************************************)
(* Nothing is missed, as long as what a client's payload makes new in its  *)
(* room is that client's: a session skips its own messages.                *)
(***************************************************************************)

OwnEdits ==
    \A c \in Clients : In(c) =>
        \A content \in Edits : content \subseteq replica[c] =>
            Delta(session[c].room, content) \subseteq replica[c]

\* A client that was not paused has asked for the document by the time it
\* joins.
Asked(c) ==
    /\ (session[c].at \in {"admitting", "holding", "greet"} /\ ~session[c].paused) => HasStep1(up[c])
    /\ session[c].at = "holding" => session[c].paused

\* NothingMissed, of one client.
Wire(c) == replica[c] \cup CarriedUpdates(down[c])
Passed(c) == FromOthers(c, session[c].queue, Len(session[c].queue))

Reached(c) ==
    In(c) =>
        \/ session[c].lagged
        \/ HasStep1(up[c])
        \/ session[c].at = "greet" /\ session[c].paused
        \/ Doc(c) \subseteq Wire(c) \cup Passed(c)

LEMMA PassedMeans ==
    ASSUME NEW c, NEW q \in Seq(MessageType)
    PROVE  UNION {q[i].content : i \in {j \in DOMAIN q : q[j].from # c}} = FromOthers(c, q, Len(q))
<1>1. DOMAIN q = 1 .. Len(q)
  BY LenProperties
<1> QED
  BY <1>1 DEF FromOthers

LEMMA ReachedMeans ==
    ASSUME TypeInv PROVE NothingMissed <=> \A c \in Clients : Reached(c)
<1>1. ASSUME NEW c \in Clients PROVE Coming(c) = Wire(c) \cup Passed(c)
  <2>1. session[c].queue \in Seq(MessageType)
    BY <1>1, ClientFacts
  <2> QED
    BY <2>1, PassedMeans DEF Coming, Wire, Passed
<1> QED
  BY <1>1 DEF NothingMissed, Reached, Doc

LEMMA ReachedLater ==
    ASSUME TypeInv', \A c \in Clients : Reached(c)' PROVE NothingMissed'
<1>1. ASSUME NEW c \in Clients PROVE Coming(c)' = Wire(c)' \cup Passed(c)'
  <2>1. session'[c].queue \in Seq(MessageType)
    BY <1>1 DEF TypeInv, SessionsInv, Seated, SessionType
  <2> QED
    BY <2>1, PassedMeans DEF Coming, Wire, Passed
<1> QED
  BY <1>1 DEF NothingMissed, Reached, Doc

\* A client that keeps its edits, its wires and its questions, when its
\* session is told of what its room has more.
LEMMA ReachedHeeds ==
    ASSUME TypeInv, NEW c \in Clients, Reached(c),
           replica'[c] = replica[c], down'[c] = down[c], HasStep1(up[c]) => HasStep1(up'[c]),
           NEW r, NEW m \in MessageType, Heeds(c, r, m),
           m.from = c => m.content \subseteq replica[c],
           In(c) /\ session[c].room = r => Doc(c)' \subseteq Doc(c) \cup m.content,
           In(c) /\ session[c].room # r => Doc(c)' \subseteq Doc(c)
    PROVE  Reached(c)'
<1> SUFFICES ASSUME In(c), ~session'[c].lagged, ~HasStep1(up[c]),
                    ~(session[c].at = "greet" /\ session[c].paused)
             PROVE  Doc(c)' \subseteq Wire(c)' \cup Passed(c)'
  BY DEF Reached, Heeds, In
<1> DEFINE q == session[c].queue
<1>1. q \in Seq(MessageType)
  BY ClientFacts
<1>2. Wire(c)' = Wire(c) /\ replica[c] \subseteq Wire(c)
  BY DEF Wire
<1>3. CASE session'[c] = session[c] /\ (m.content = {} \/ ~(In(c) /\ session[c].room = r))
  <2>1. Doc(c) \subseteq Wire(c) \cup Passed(c)
    BY <1>3 DEF Reached
  <2>2. Passed(c)' = Passed(c)
    BY <1>3 DEF Passed
  <2>3. Doc(c)' \subseteq Doc(c)
    BY <1>3
  <2> QED
    BY <1>2, <2>1, <2>2, <2>3
<1>4. CASE /\ session[c].room = r /\ session'[c].lagged = session[c].lagged
           /\ session'[c].queue = Append(q, m)
  <2>1. Doc(c) \subseteq Wire(c) \cup Passed(c)
    BY <1>4 DEF Reached
  <2>2. Passed(c)' = IF m.from = c THEN Passed(c) ELSE Passed(c) \cup m.content
    <3> HIDE DEF q
    <3> DEFINE new == session'[c].queue
    <3>1. new = Append(q, m)
      BY <1>4
    <3>2. FromOthers(c, Append(q, m), Len(Append(q, m))) =
              FromOthers(c, q, Len(q)) \cup IF m.from = c THEN {} ELSE m.content
      <4>1. \A x \in Seq(MessageType), y \in MessageType :
                FromOthers(c, Append(x, y), Len(Append(x, y))) =
                  FromOthers(c, x, Len(x)) \cup IF y.from = c THEN {} ELSE y.content
        BY PassedMore, Zenon
      <4> QED
        BY <1>1, <4>1, Zenon
    <3>3. Passed(c)' = FromOthers(c, new, Len(new))
      BY DEF Passed
    <3>4. Passed(c) = FromOthers(c, q, Len(q))
      BY DEF Passed, q
    <3> HIDE DEF new
    <3> QED
      BY <3>1, <3>2, <3>3, <3>4
  <2>3. Doc(c)' \subseteq Doc(c) \cup m.content
    BY <1>4
  <2> QED
    BY <1>2, <2>1, <2>2, <2>3
<1> QED
  BY <1>3, <1>4 DEF Heeds

\* A step of one client: the others are as they were.
LEMMA ReachedSolo ==
    ASSUME TypeInv, TypeInv', NothingMissed, NEW c \in Clients, Solo(c), Reached(c)'
    PROVE  NothingMissed'
<1>1. ASSUME NEW d \in Clients \ {c} PROVE Reached(d)'
  <2>1. Reached(d)
    BY ReachedMeans
  <2> QED
    BY <2>1 DEF Solo, Reached, In, Doc, Wire, Passed
<1>2. \A d \in Clients : Reached(d)'
  BY <1>1
<1> QED
  BY <1>2, ReachedLater

\* What it receives, it has.
LEMMA ReachedReceive ==
    ASSUME TypeInv, WiresLinked, NEW c \in Clients, Reached(c), Receive(c)
    PROVE  /\ Reached(c)' /\ Solo(c) /\ Wire(c)' = Wire(c) /\ session'[c] = session[c]
           /\ HasStep1(up[c]) => HasStep1(up'[c])
<1> DEFINE frame == Head(down[c])
           answer == Update(replica[c] \ frame.content)
<1>1. /\ Solo(c) /\ down[c] # <<>> /\ down'[c] = Tail(down[c])
      /\ \/ /\ frame.kind = "step1" /\ replica'[c] = replica[c]
            /\ up'[c] = Append(up[c], answer) /\ answer \in FrameType
         \/ /\ frame.kind # "step1" /\ replica'[c] = replica[c] \cup frame.content
            /\ up'[c] = up[c]
      /\ session'[c] = session[c]
  BY ReceiveEffect
<1> HIDE DEF frame, answer
<1>2. down[c] \in Seq(FrameType) /\ up[c] \in Seq(FrameType)
  BY ClientFacts
<1>3. /\ frame \in FrameType
      /\ frame.kind = "update" => CarriedUpdates(down[c]) = CarriedUpdates(down'[c]) \cup frame.content
      /\ frame.kind # "update" => CarriedUpdates(down[c]) = CarriedUpdates(down'[c])
  BY <1>1, <1>2, FramesTail DEF frame
<1>4. Wire(c)' = Wire(c)
  BY <1>1, <1>3 DEF Wire, FrameType
<1>5. HasStep1(up[c]) => HasStep1(up'[c])
  BY <1>1, <1>2, FramesAppend
<1>6. Doc(c)' = Doc(c) /\ Passed(c)' = Passed(c) /\ (In(c)' <=> In(c))
  BY <1>1 DEF Doc, Passed, In, Solo
<1>7. Reached(c)'
  BY <1>1, <1>4, <1>5, <1>6 DEF Reached
<1> QED
  BY <1>1, <1>4, <1>5, <1>7

\* What it writes changes nothing of that.
LEMMA ReachedEdit ==
    ASSUME TypeInv, NEW c \in Clients, Reached(c), NEW u \in Updates, Edit(c, u)
    PROVE  Reached(c)' /\ Solo(c) /\ (HasStep1(up[c]) => HasStep1(up'[c]))
<1> DEFINE frame == Update({u})
<1>1. /\ Solo(c) /\ replica'[c] = replica[c] \cup {u}
      /\ up'[c] = up[c] \/ (up'[c] = Append(up[c], frame) /\ frame \in FrameType)
      /\ session'[c] = session[c] /\ down'[c] = down[c]
  BY EditEffect
<1> HIDE DEF frame
<1>2. up[c] \in Seq(FrameType)
  BY ClientFacts
<1>3. HasStep1(up[c]) => HasStep1(up'[c])
  BY <1>1, <1>2, FramesAppend
<1>4. Doc(c)' = Doc(c) /\ Passed(c)' = Passed(c) /\ (In(c)' <=> In(c)) /\ Wire(c) \subseteq Wire(c)'
  BY <1>1 DEF Doc, Passed, In, Solo, Wire
<1>5. Reached(c)'
  BY <1>1, <1>3, <1>4 DEF Reached
<1> QED
  BY <1>1, <1>3, <1>5

\* A greeting gives a paused client the document; the other one has asked.
LEMMA GreetedHas ==
    ASSUME TypeInv, NEW c \in Clients, Greet(c)
    PROVE  /\ Solo(c)
           /\ session[c].at = "greet" /\ session'[c] = Moved(session[c], "relay")
           /\ replica'[c] = replica[c] /\ up'[c] = up[c]
           /\ Wire(c) \subseteq Wire(c)'
           /\ session[c].paused => Doc(c) \subseteq Wire(c)'
<1> DEFINE doc == rooms[session[c].room].doc
           first == Step1(doc)
           second == Update(doc)
           greeted == Append(down[c], first)
<1>1. /\ Solo(c) /\ session[c].at = "greet" /\ session'[c] = Moved(session[c], "relay")
      /\ replica'[c] = replica[c] /\ up'[c] = up[c]
      /\ first \in FrameType /\ second \in FrameType /\ greeted \in Seq(FrameType)
      /\ down'[c] = IF session[c].paused THEN Append(greeted, second) ELSE greeted
  BY GreetEffect
<1>2. /\ first.kind # "update" /\ second.kind = "update" /\ second.content = doc
      /\ down[c] \in Seq(FrameType)
  BY ClientFacts DEF Step1, Update
<1> HIDE DEF first, second
<1>3. CarriedUpdates(greeted) = CarriedUpdates(down[c])
  BY <1>1, <1>2, FramesAppend
<1> HIDE DEF greeted
<1>4. CarriedUpdates(Append(greeted, second)) = CarriedUpdates(greeted) \cup second.content
  <2>1. greeted \in Seq(FrameType) /\ second \in FrameType /\ second.kind = "update"
    BY <1>1, <1>2
  <2> QED
    BY <2>1, FramesAppend
<1>5. Doc(c) = doc
  BY DEF Doc
<1> QED
  BY <1>1, <1>2, <1>3, <1>4, <1>5 DEF Wire

\* An answer gives the client what it lacked.
LEMMA AnsweredHas ==
    ASSUME TypeInv, NEW c \in Clients, NEW had, had \subseteq replica[c],
           Update(Doc(c) \ had) \in FrameType, down'[c] = Append(down[c], Update(Doc(c) \ had)),
           replica'[c] = replica[c]
    PROVE  Doc(c) \subseteq Wire(c)' /\ Wire(c) \subseteq Wire(c)'
<1> DEFINE answer == Update(Doc(c) \ had)
<1>1. answer \in FrameType /\ answer.kind = "update" /\ answer.content = Doc(c) \ had
  BY DEF Update
<1> HIDE DEF answer
<1>2. down[c] \in Seq(FrameType)
  BY ClientFacts
<1>3. CarriedUpdates(Append(down[c], answer)) = CarriedUpdates(down[c]) \cup answer.content
  BY <1>1, <1>2, FramesAppend
<1> QED
  BY <1>1, <1>3 DEF Wire, answer

\* A broadcast is passed on, or skipped as the client's own.
LEMMA HeardPasses ==
    ASSUME TypeInv, NEW c \in Clients, session[c].queue # <<>>,
           session'[c] = Heard(session[c]), replica'[c] = replica[c],
           \/ Head(session[c].queue).from = c /\ down'[c] = down[c]
           \/ /\ Head(session[c].queue).from # c
              /\ Update(Head(session[c].queue).content) \in FrameType
              /\ down'[c] = Append(down[c], Update(Head(session[c].queue).content))
    PROVE  LET q == session[c].queue
               rest == session'[c].queue
           IN  /\ Wire(c)' \cup Passed(c)' = Wire(c) \cup Passed(c)
               /\ \A i \in 0 .. Len(rest) :
                    /\ i + 1 \in 0 .. Len(q)
                    /\ Wire(c)' \cup FromOthers(c, rest, i) = Wire(c) \cup FromOthers(c, q, i + 1)
<1> DEFINE q == session[c].queue
           rest == session'[c].queue
           message == Head(q)
           frame == Update(message.content)
<1>1. q \in Seq(MessageType) /\ q # <<>> /\ down[c] \in Seq(FrameType) /\ rest = Tail(q)
  BY ClientFacts, SessionMoves
<1>2. frame.kind = "update" /\ frame.content = message.content
  BY DEF Update
<1>3. \/ message.from = c /\ down'[c] = down[c]
      \/ message.from # c /\ frame \in FrameType /\ down'[c] = Append(down[c], frame)
  OBVIOUS
<1>4. /\ Len(Tail(q)) = Len(q) - 1
      /\ \A i \in 0 .. Len(Tail(q)) :
           /\ i + 1 \in 0 .. Len(q)
           /\ Head(q).from # c => FromOthers(c, q, i + 1) = FromOthers(c, Tail(q), i) \cup Head(q).content
           /\ Head(q).from = c => FromOthers(c, q, i + 1) = FromOthers(c, Tail(q), i)
  <2>1. \A x \in Seq(MessageType) : x # <<>> =>
           /\ Len(Tail(x)) = Len(x) - 1
           /\ \A i \in 0 .. Len(Tail(x)) :
                /\ i + 1 \in 0 .. Len(x)
                /\ Head(x).from # c => FromOthers(c, x, i + 1) = FromOthers(c, Tail(x), i) \cup Head(x).content
                /\ Head(x).from = c => FromOthers(c, x, i + 1) = FromOthers(c, Tail(x), i)
    BY FromOthersTail
  <2> HIDE DEF q
  <2>2. q \in Seq(MessageType) /\ q # <<>>
    BY <1>1
  <2> QED
    BY <2>1, <2>2
<1>5. /\ Len(rest) = Len(q) - 1
      /\ \A i \in 0 .. Len(rest) :
           /\ i + 1 \in 0 .. Len(q)
           /\ message.from # c => FromOthers(c, q, i + 1) = FromOthers(c, rest, i) \cup message.content
           /\ message.from = c => FromOthers(c, q, i + 1) = FromOthers(c, rest, i)
  BY <1>1, <1>4, Zenon
<1>6. Len(q) \in Nat /\ Len(rest) \in Nat
  BY <1>1, LenProperties, HeadTailProperties
<1> HIDE DEF q, rest, message, frame
<1>7. CASE message.from = c /\ down'[c] = down[c]
  <2>1. Wire(c)' = Wire(c)
    BY <1>7 DEF Wire
  <2>2. \A i \in 0 .. Len(rest) : /\ i + 1 \in 0 .. Len(q)
                                  /\ FromOthers(c, q, i + 1) = FromOthers(c, rest, i)
    BY <1>5, <1>7
  <2>3. Len(rest) \in 0 .. Len(rest) /\ Len(rest) + 1 = Len(q)
    BY <1>5, <1>6
  <2>4. FromOthers(c, q, Len(q)) = FromOthers(c, rest, Len(rest))
    BY <2>2, <2>3
  <2> QED
    BY <2>1, <2>2, <2>4 DEF Passed, q, rest
<1>8. CASE message.from # c /\ frame \in FrameType /\ down'[c] = Append(down[c], frame)
  <2>1. CarriedUpdates(Append(down[c], frame)) = CarriedUpdates(down[c]) \cup frame.content
    BY <1>1, <1>2, <1>8, FramesAppend
  <2>2. Wire(c)' = Wire(c) \cup message.content
    BY <1>2, <1>8, <2>1 DEF Wire
  <2>3. \A i \in 0 .. Len(rest) : /\ i + 1 \in 0 .. Len(q)
                                  /\ FromOthers(c, q, i + 1) = FromOthers(c, rest, i) \cup message.content
    BY <1>5, <1>8
  <2>4. Len(rest) \in 0 .. Len(rest) /\ Len(rest) + 1 = Len(q)
    BY <1>5, <1>6
  <2>5. FromOthers(c, q, Len(q)) = FromOthers(c, rest, Len(rest)) \cup message.content
    BY <2>3, <2>4
  <2>6. Wire(c)' \cup Passed(c)' = Wire(c) \cup Passed(c)
    BY <2>2, <2>5 DEF Passed, q, rest
  <2>7. \A i \in 0 .. Len(rest) : Wire(c)' \cup FromOthers(c, rest, i) = Wire(c) \cup FromOthers(c, q, i + 1)
    BY <2>2, <2>3
  <2> QED
    BY <2>3, <2>6, <2>7 DEF q, rest
<1> QED
  BY <1>3, <1>7, <1>8

\* Each step keeps the questions of the clients that wait.
AllAsked == \A c \in Clients : Asked(c)

LEMMA AskedInit == Init => AllAsked
BY NoSession DEF Init, AllAsked, Asked

LEMMA AskedStep == ASSUME TypeInv, WiresLinked, AllAsked, [Next]_vars PROVE AllAsked'
<1>0. ASSUME NEW c \in Clients, Solo(c), Asked(c)' PROVE AllAsked'
  BY <1>0 DEF AllAsked, Asked, Solo
<1>1. ASSUME NEW c \in Clients, Client(c) \/ Serve(c) PROVE AllAsked'
  <2>0. Asked(c) /\ up[c] \in Seq(FrameType)
    BY ClientFacts DEF AllAsked
  <2>1. CASE Connect(c)
    <3>1. Solo(c) /\ session'[c] = Entering /\ up'[c] = <<Step1(replica[c])>>
      BY <2>1, ConnectEffect
    <3>2. replica[c] \in Edits
      BY ClientFacts
    <3>3. Step1(replica[c]) \in FrameType /\ Step1(replica[c]).kind = "step1"
      BY <3>2, FrameTypes
    <3>4. HasStep1(up'[c])
      BY <3>1, <3>3, FramesOne
    <3> QED
      BY <1>0, <3>1, <3>4, NoSession DEF Asked
  <2>2. CASE Receive(c)
    <3>1. Solo(c) /\ session'[c] = session[c] /\ down[c] # <<>>
      BY <2>2, ReceiveEffect
    <3>2. session[c].at = "relay"
      BY <3>1 DEF WiresLinked, Linked
    <3> QED
      BY <1>0, <3>1, <3>2 DEF Asked
  <2>3. CASE \E u \in Updates : Edit(c, u)
    <3> PICK u \in Updates : Edit(c, u)
      BY <2>3
    <3> DEFINE frame == Update({u})
    <3>1. /\ Solo(c) /\ session'[c] = session[c]
          /\ up'[c] = up[c] \/ (up'[c] = Append(up[c], frame) /\ frame \in FrameType)
      BY EditEffect
    <3> HIDE DEF frame
    <3>2. HasStep1(up[c]) => HasStep1(up'[c])
      BY <2>0, <3>1, FramesAppend
    <3> QED
      BY <1>0, <2>0, <3>1, <3>2 DEF Asked
  <2>4. CASE Pause(c)
    <3>1. Solo(c) /\ session'[c] = Paused(session[c])
      BY <2>4, PauseEffect
    <3>2. session'[c].paused
      BY <3>1, SessionMoves
    <3> QED
      BY <1>0, <3>1, <3>2 DEF Asked
  <2>5. CASE Hold(c)
    <3>1. Solo(c) /\ session[c].at = "holding" /\ session'[c] = session[c]
      BY <2>5, HoldEffect
    <3> QED
      BY <1>0, <2>0, <3>1 DEF Asked
  <2>6. CASE Recheck(c)
    <3>1. Solo(c) /\ session[c].at = "holding" /\ session'[c] = Moved(session[c], "admitting")
      BY <2>6, RecheckEffect
    <3>2. session'[c].paused = session[c].paused /\ session'[c].at = "admitting"
      BY <3>1, SessionMoves
    <3> QED
      BY <1>0, <2>0, <3>1, <3>2 DEF Asked
  <2>7. CASE Join(c)
    <3>1. /\ Solo(c) /\ session[c].at = "admitting" /\ session'[c] = Joined(session[c], Registered)
          /\ up'[c] = up[c]
      BY <2>7, JoinEffect
    <3>2. session'[c].paused = session[c].paused /\ session'[c].at = "greet"
      BY <3>1, SessionMoves
    <3> QED
      BY <1>0, <2>0, <3>1, <3>2 DEF Asked
  <2>8. CASE Greet(c)
    <3>1. Solo(c) /\ session'[c] = Moved(session[c], "relay")
      BY <2>8, GreetEffect
    <3>2. session'[c].at = "relay"
      BY <3>1, SessionMoves
    <3> QED
      BY <1>0, <3>1, <3>2 DEF Asked
  <2>9. CASE Incoming(c)
    <3> DEFINE content == Head(up[c]).content
               r == session[c].room
    <3>1. /\ session[c].at = "relay" /\ r \in RoomIds /\ Taken(c)
          /\ (Solo(c) /\ session'[c] = session[c]) \/ Applied(c, r, content)
      BY <2>9, IncomingEffect
    <3>2. content \in Edits
      BY <3>1, TakenContent DEF WiresLinked
    <3> HIDE DEF content, r
    <3>3. CASE Solo(c) /\ session'[c] = session[c]
      BY <1>0, <3>1, <3>3 DEF Asked
    <3>4. CASE Applied(c, r, content)
      <4>1. \A d \in Clients : /\ session'[d].at = session[d].at
                               /\ session'[d].paused = session[d].paused
                               /\ d # c => up'[d] = up[d]
        BY <3>1, <3>2, <3>4, AppliedGrows DEF Heeds, Applied
      <4> QED
        BY <3>1, <4>1 DEF AllAsked, Asked
    <3> QED
      BY <3>1, <3>3, <3>4
  <2>10. ASSUME Solo(c), Ended(c) PROVE AllAsked'
    BY <1>0, <2>10, NoSession DEF Asked, Ended
  <2>11. CASE Outgoing(c)
    <3>1. /\ Solo(c) /\ session[c].at = "relay"
          /\ Ended(c) \/ session'[c] = Heard(session[c])
      BY <2>11, OutgoingEffect
    <3>2. CASE session'[c] = Heard(session[c])
      <4>1. session'[c].at = "relay"
        BY <3>1, <3>2, SessionMoves
      <4> QED
        BY <1>0, <3>1, <4>1 DEF Asked
    <3> QED
      BY <2>10, <3>1, <3>2
  <2>12. CASE Presence(c)
    <3>1. /\ UNCHANGED <<replica, up, down, rooms>>
          /\ \A d \in Clients : Hears(d, session[c].room, Message(c, {}))
          /\ Message(c, {}) \in MessageType
      BY <2>12, PresenceEffect
    <3>2. \A d \in Clients : session'[d].at = session[d].at /\ session'[d].paused = session[d].paused
      BY <3>1, ToldHeeds DEF Told, Heeds
    <3> QED
      BY <3>1, <3>2 DEF AllAsked, Asked
  <2>13. CASE Drop(c)
    BY <2>10, <2>13, DropEffect
  <2> QED
    BY <1>1, <2>1, <2>2, <2>3, <2>4, <2>5, <2>6, <2>7, <2>8, <2>9, <2>11, <2>12, <2>13 DEF Client, Serve
<1>2. CASE Evict
  BY <1>2, EvictEffect DEF AllAsked, Asked
<1>3. CASE Delete
  <2>1. /\ UNCHANGED <<replica, up, down>>
        /\ \A c \in Clients : Hears(c, Registered, Closed)
    BY <1>3, DeleteEffect
  <2>2. Closed \in MessageType
    BY FS_EmptySet DEF Closed, MessageType, Edits
  <2>3. \A d \in Clients : session'[d].at = session[d].at /\ session'[d].paused = session[d].paused
    BY <2>1, <2>2, ToldHeeds DEF Told, Heeds
  <2> QED
    BY <2>1, <2>3 DEF AllAsked, Asked
<1>4. CASE Restart
  BY <1>4, RestartEffect, NoSession DEF AllAsked, Asked, Ended
<1>5. CASE UNCHANGED vars
  BY <1>5 DEF vars, AllAsked, Asked
<1> QED
  BY <1>1, <1>2, <1>3, <1>4, <1>5 DEF Next

\* Each step keeps what clients are to be told.
LEMMA MissedStep ==
    ASSUME TypeInv, TypeInv', WiresLinked, AllAsked, OwnEdits, NothingMissed, [Next]_vars
    PROVE  NothingMissed'
<1>0. \A c \in Clients : Reached(c)
  BY ReachedMeans
<1>1. ASSUME NEW c \in Clients, Client(c) \/ Serve(c) PROVE NothingMissed'
  <2>0. Reached(c)
    BY <1>0
  <2>1. ASSUME Solo(c), session'[c].at \notin {"greet", "relay"} PROVE NothingMissed'
    BY <2>1, ReachedSolo DEF Reached, In
  <2>2. CASE Connect(c)
    BY <2>1, <2>2, ConnectEffect, NoSession
  <2>3. CASE Receive(c)
    BY <2>0, <2>3, ReachedReceive, ReachedSolo
  <2>4. CASE \E u \in Updates : Edit(c, u)
    BY <2>0, <2>4, ReachedEdit, ReachedSolo
  <2>5. CASE Pause(c)
    <3>1. Solo(c) /\ session'[c] = Paused(session[c])
      BY <2>5, PauseEffect
    <3> QED
      BY <2>1, <3>1, SessionMoves
  <2>6. CASE Hold(c)
    BY <2>1, <2>6, HoldEffect
  <2>7. CASE Recheck(c)
    <3>1. Solo(c) /\ session'[c] = Moved(session[c], "admitting")
      BY <2>7, RecheckEffect
    <3> QED
      BY <2>1, <3>1, SessionMoves
  <2>8. CASE Join(c)
    <3>1. /\ Solo(c) /\ session[c].at = "admitting" /\ session'[c] = Joined(session[c], Registered)
          /\ up'[c] = up[c]
      BY <2>8, JoinEffect
    <3>2. session'[c].at = "greet" /\ session'[c].paused = session[c].paused
      BY <3>1, SessionMoves
    <3>3. ~session[c].paused => HasStep1(up[c])
      BY <3>1 DEF AllAsked, Asked
    <3>4. Reached(c)'
      BY <3>1, <3>2, <3>3 DEF Reached
    <3> QED
      BY <3>1, <3>4, ReachedSolo
  <2>9. CASE Greet(c)
    <3>1. /\ Solo(c)
          /\ session[c].at = "greet" /\ session'[c] = Moved(session[c], "relay")
          /\ replica'[c] = replica[c] /\ up'[c] = up[c]
          /\ Wire(c) \subseteq Wire(c)'
          /\ session[c].paused => Doc(c) \subseteq Wire(c)'
      BY <2>9, GreetedHas
    <3>2. /\ session'[c].at = "relay" /\ session'[c].queue = session[c].queue
          /\ session'[c].lagged = session[c].lagged /\ session'[c].room = session[c].room
      BY <3>1, SessionMoves
    <3>3. Doc(c)' = Doc(c) /\ Passed(c)' = Passed(c)
      BY <3>1, <3>2 DEF Doc, Solo, Passed
    <3>4. ~session[c].paused => HasStep1(up[c])
      BY <3>1 DEF AllAsked, Asked
    <3>5. Reached(c)'
      BY <3>1, <3>2, <3>3, <3>4 DEF Reached
    <3> QED
      BY <3>1, <3>5, ReachedSolo
  <2>10. CASE Incoming(c)
    <3> DEFINE frame == Head(up[c])
               r == session[c].room
               answer == Update(rooms[r].doc \ frame.content)
               content == frame.content
    <3>1. /\ session[c].at = "relay" /\ r \in RoomIds /\ Taken(c)
          /\ \/ /\ Solo(c) /\ session'[c] = session[c] /\ answer \in FrameType
                /\ frame.kind = "step1"
                /\ down'[c] = Append(down[c], answer)
             \/ /\ Solo(c) /\ session'[c] = session[c] /\ down'[c] = down[c]
                /\ frame.kind = "update"
             \/ frame.kind = "update" /\ Applied(c, r, content)
      BY <2>10, IncomingEffect
    <3>2. /\ content \in Edits /\ content \subseteq replica[c] /\ replica'[c] = replica[c]
          /\ HasStep1(up[c]) <=> frame.kind = "step1" \/ HasStep1(up'[c])
      BY <3>1, TakenContent DEF WiresLinked, Taken
    <3>3. Doc(c) = rooms[r].doc /\ In(c)
      BY <3>1 DEF Doc, In
    <3>4. answer = Update(Doc(c) \ content)
      BY DEF Doc
    <3> HIDE DEF frame, r, answer, content
    <3>5. CASE /\ Solo(c) /\ session'[c] = session[c] /\ answer \in FrameType
               /\ down'[c] = Append(down[c], answer)
      <4>1. Doc(c) \subseteq Wire(c)'
        BY <3>2, <3>4, <3>5, AnsweredHas
      <4>2. Doc(c)' = Doc(c)
        BY <3>5 DEF Doc, Solo
      <4>3. Reached(c)'
        BY <4>1, <4>2 DEF Reached
      <4> QED
        BY <3>5, <4>3, ReachedSolo
    <3>6. CASE Solo(c) /\ session'[c] = session[c] /\ down'[c] = down[c] /\ frame.kind = "update"
      <4>1. Doc(c)' = Doc(c) /\ Wire(c)' = Wire(c) /\ Passed(c)' = Passed(c)
        BY <3>2, <3>6 DEF Doc, Solo, Wire, Passed
      <4>2. HasStep1(up'[c]) <=> HasStep1(up[c])
        BY <3>2, <3>6
      <4>3. Reached(c)'
        BY <2>0, <3>3, <3>6, <4>1, <4>2 DEF Reached
      <4> QED
        BY <3>6, <4>3, ReachedSolo
    <3>7. CASE frame.kind = "update" /\ Applied(c, r, content)
      <4> DEFINE m == Message(c, Delta(r, content))
      <4>1. /\ rooms'[r].doc = rooms[r].doc \cup Delta(r, content)
            /\ m \in MessageType /\ m.content = Delta(r, content) /\ m.from = c
            /\ \A d \in Clients : Heeds(d, r, m)
        BY <3>1, <3>2, <3>7, AppliedGrows
      <4>2. /\ \A s \in RoomIds \ {r} : rooms'[s] = rooms[s]
            /\ UNCHANGED <<replica, down>>
            /\ \A d \in Clients \ {c} : up'[d] = up[d]
        BY <3>7 DEF Applied
      <4>3. m.content \subseteq replica[c]
        BY <3>2, <3>3, <4>1 DEF OwnEdits, r
      <4> HIDE DEF m
      <4>4. ASSUME NEW d \in Clients PROVE Reached(d)'
        <5>1. /\ replica'[d] = replica[d] /\ down'[d] = down[d]
              /\ HasStep1(up[d]) => HasStep1(up'[d])
          BY <3>2, <3>7, <4>2
        <5>2. session'[d].room = session[d].room
          BY <4>1 DEF Heeds
        <5>3. In(d) /\ session[d].room = r => Doc(d)' \subseteq Doc(d) \cup m.content
          BY <4>1, <5>2 DEF Doc
        <5>4. In(d) /\ session[d].room # r => Doc(d)' \subseteq Doc(d)
          BY <4>2, <5>2, ClientFacts DEF Doc
        <5>5. m.from = d => m.content \subseteq replica[d]
          BY <4>1, <4>3
        <5>6. Heeds(d, r, m) /\ Reached(d) /\ m \in MessageType
          BY <1>0, <4>1
        <5> QED
          BY <5>1, <5>3, <5>4, <5>5, <5>6, ReachedHeeds
      <4> QED
        BY <4>4, ReachedLater
    <3> QED
      BY <3>1, <3>5, <3>6, <3>7
  <2>11. ASSUME Solo(c), Ended(c) PROVE NothingMissed'
    BY <2>1, <2>11, NoSession DEF Ended
  <2>12. CASE Outgoing(c)
    <3> DEFINE message == Head(session[c].queue)
               frame == Update(message.content)
    <3>1. /\ Solo(c) /\ session[c].at = "relay"
          /\ \/ Ended(c)
             \/ /\ session[c].queue # <<>>
                /\ session'[c] = Heard(session[c])
                /\ replica'[c] = replica[c] /\ up'[c] = up[c]
                /\ \/ message.from = c /\ down'[c] = down[c]
                   \/ message.from # c /\ frame \in FrameType /\ down'[c] = Append(down[c], frame)
      BY <2>12, OutgoingEffect
    <3>2. CASE /\ session[c].queue # <<>>
               /\ session'[c] = Heard(session[c])
               /\ replica'[c] = replica[c] /\ up'[c] = up[c]
               /\ \/ message.from = c /\ down'[c] = down[c]
                  \/ message.from # c /\ frame \in FrameType /\ down'[c] = Append(down[c], frame)
      <4>1. Wire(c)' \cup Passed(c)' = Wire(c) \cup Passed(c)
        BY <3>2, HeardPasses
      <4>2. session'[c].at = session[c].at /\ session'[c].room = session[c].room
            /\ session'[c].lagged = session[c].lagged /\ session'[c].paused = session[c].paused
        BY <3>2, SessionMoves
      <4>3. Doc(c)' = Doc(c) /\ In(c)
        BY <3>1, <4>2 DEF Doc, Solo, In
      <4> HIDE DEF message, frame
      <4>4. Reached(c)'
        BY <2>0, <3>2, <4>1, <4>2, <4>3 DEF Reached
      <4> QED
        BY <3>1, <4>4, ReachedSolo
    <3> QED
      BY <2>11, <3>1, <3>2
  <2>13. CASE Presence(c)
    <3> DEFINE m == Message(c, {})
               r == session[c].room
    <3>1. /\ UNCHANGED <<replica, up, down, rooms>>
          /\ \A d \in Clients : Hears(d, r, m)
          /\ m \in MessageType
      BY <2>13, PresenceEffect
    <3>2. m.content = {}
      BY DEF Message
    <3> HIDE DEF m, r
    <3>3. \A d \in Clients : Heeds(d, r, m)
      BY <3>1, ToldHeeds DEF Told
    <3>4. \A d \in Clients : Doc(d)' = Doc(d)
      BY <3>1, <3>3 DEF Doc, Heeds
    <3>5. \A d \in Clients : Reached(d)'
      BY <1>0, <3>1, <3>2, <3>3, <3>4, ReachedHeeds
    <3> QED
      BY <3>5, ReachedLater
  <2>14. CASE Drop(c)
    BY <2>11, <2>14, DropEffect
  <2> QED
    BY <1>1, <2>2, <2>3, <2>4, <2>5, <2>6, <2>7, <2>8, <2>9, <2>10, <2>12, <2>13, <2>14 DEF Client, Serve
<1>2. CASE Evict
  <2>1. /\ UNCHANGED <<replica, up, down, session>>
        /\ \A s \in RoomIds : rooms'[s].doc = rooms[s].doc
    BY <1>2, EvictEffect
  <2>2. \A d \in Clients : In(d) => Doc(d)' = Doc(d)
    BY <2>1, ClientFacts DEF Doc
  <2>3. \A d \in Clients : Reached(d)'
    BY <1>0, <2>1, <2>2 DEF Reached, In, Wire, Passed
  <2> QED
    BY <2>3, ReachedLater
<1>3. CASE Delete
  <2>1. /\ UNCHANGED <<replica, up, down>>
        /\ \A c \in Clients : Hears(c, Registered, Closed)
        /\ \A s \in RoomIds : rooms'[s] = rooms[s]
    BY <1>3, DeleteEffect
  <2>2. Closed \in MessageType /\ Closed.content = {}
    BY FS_EmptySet DEF Closed, MessageType, Edits
  <2>3. \A d \in Clients : Heeds(d, Registered, Closed)
    BY <2>1, <2>2, ToldHeeds DEF Told
  <2>4. \A d \in Clients : In(d) => Doc(d)' = Doc(d)
    BY <2>1, <2>3, ClientFacts DEF Doc, Heeds
  <2>5. \A d \in Clients : Reached(d)'
    BY <1>0, <2>1, <2>2, <2>3, <2>4, ReachedHeeds
  <2> QED
    BY <2>5, ReachedLater
<1>4. CASE Restart
  <2>1. \A c \in Clients : Ended(c)
    BY <1>4, RestartEffect
  <2>2. \A d \in Clients : Reached(d)'
    BY <2>1, NoSession DEF Reached, Ended, In
  <2> QED
    BY <2>2, ReachedLater
<1>5. CASE UNCHANGED vars
  <2>1. \A d \in Clients : Reached(d)'
    BY <1>0, <1>5 DEF vars, Reached, In, Doc, Wire, Passed
  <2> QED
    BY <2>1, ReachedLater
<1> QED
  BY <1>1, <1>2, <1>3, <1>4, <1>5 DEF Next

-----------------------------------------------------------------------------
(***************************************************************************)
(* Edits that build on no other: a room holds nothing back, so a payload   *)
(* makes nothing new but what it carries.                                  *)
(***************************************************************************)

Independent == \A u \in Updates : Requires[u] = {}

NoneHeld == \A r \in RoomIds : rooms[r].held = {}

LEMMA NoneHeldOwn ==
    ASSUME TypeInv, NoneHeld PROVE OwnEdits
<1> SUFFICES ASSUME NEW c \in Clients, In(c), NEW content \in Edits, content \subseteq replica[c]
             PROVE  Delta(session[c].room, content) \subseteq replica[c]
  BY DEF OwnEdits
<1>1. rooms[session[c].room].held = {}
  BY ClientFacts DEF NoneHeld
<1> QED
  BY <1>1 DEF Delta, Readied, Ready, Waiting

LEMMA NoneHeldInit == Init => NoneHeld
BY FirstRoom DEF NoneHeld, RoomIds

LEMMA NoneHeldStep ==
    ASSUME Independent, TypeInv, WiresLinked, NoneHeld, [Next]_vars PROVE NoneHeld'
<1>0. ASSUME UNCHANGED rooms PROVE NoneHeld'
  BY <1>0 DEF NoneHeld, RoomIds
<1>1. ASSUME NEW c \in Clients, Incoming(c) PROVE NoneHeld'
  <2> DEFINE content == Head(up[c]).content
             r == session[c].room
  <2>1. /\ r \in RoomIds /\ Taken(c)
        /\ Solo(c) \/ Applied(c, r, content)
    BY <1>1, IncomingEffect
  <2>2. content \in Edits
    BY <2>1, TakenContent DEF WiresLinked
  <2> HIDE DEF content, r
  <2>3. CASE Solo(c)
    BY <1>0, <2>3 DEF Solo
  <2>4. CASE Applied(c, r, content)
    <3>1. rooms'[r].held = Waiting(r, content) \ Readied(r, content)
      BY <2>1, <2>2, <2>4, AppliedGrows
    <3>2. Waiting(r, content) \subseteq Updates
      BY <2>1, <2>2, RoomFacts DEF TypeInv, Waiting, Edits
    <3>3. Readied(r, content) = Waiting(r, content)
      BY <3>2 DEF Readied, Ready, Independent
    <3>4. rooms'[r].held = {}
      BY <3>1, <3>3
    <3> QED
      BY <2>4, <3>4 DEF Applied, NoneHeld, RoomIds
  <2> QED
    BY <2>1, <2>3, <2>4
<1>2. ASSUME NEW c \in Clients, Client(c) \/ Serve(c), ~Incoming(c) PROVE UNCHANGED rooms
  BY <1>2 DEF Client, Serve, Connect, Receive, Edit, Pause, Hold, Recheck, Join, Greet, Outgoing, Presence, Drop
<1>3. CASE Evict
  <2>1. /\ DOMAIN rooms' = RoomIds
        /\ \A s \in RoomIds : s # Registered => rooms'[s] = rooms[s]
        /\ rooms'[Registered].held = {}
    BY <1>3, EvictEffect
  <2> QED
    BY <2>1 DEF NoneHeld, RoomIds
<1>4. CASE Delete
  <2>1. /\ DOMAIN rooms' = RoomIds \cup {Registered + 1}
        /\ \A s \in RoomIds : rooms'[s] = rooms[s]
        /\ rooms'[Registered + 1] = [doc |-> {}, held |-> {}]
    BY <1>4, DeleteEffect
  <2> QED
    BY <2>1 DEF NoneHeld, RoomIds
<1>5. CASE Restart
  <2>1. DOMAIN rooms' = {1} /\ rooms'[1].held = {}
    BY <1>5, RestartEffect
  <2> QED
    BY <2>1 DEF NoneHeld, RoomIds
<1>6. CASE UNCHANGED vars
  BY <1>0, <1>6 DEF vars
<1> QED
  BY <1>0, <1>1, <1>2, <1>3, <1>4, <1>5, <1>6 DEF Next

-----------------------------------------------------------------------------
(***************************************************************************)
(* A document that is neither deleted nor loaded again without what was    *)
(* not saved: it has one room, whose document lacks nothing it builds on.  *)
(***************************************************************************)

Calm == "crash" \notin Events /\ "delete" \notin Events

TheDoc == rooms[1].doc
TheBacklog == rooms[1].held

\* A set of edits that lacks nothing they build on.
Whole(S) == \A u \in S : Requires[u] \subseteq S

\* A client has what its edits build on, or has them from the document; an
\* edit of two clients is in the document.
Written ==
    /\ \A c \in Clients : \A u \in replica[c] : u \in TheDoc \/ Requires[u] \subseteq replica[c]
    /\ \A c, d \in Clients : c # d => replica[c] \cap replica[d] \subseteq TheDoc

\* What is held back waits for an edit of the client it is from.
Awaited ==
    \A u \in TheBacklog :
        /\ ~(Requires[u] \subseteq TheDoc \cup TheBacklog)
        /\ \E c \in Clients : u \in replica[c] /\ Requires[u] \ TheDoc \subseteq replica[c]

CalmInv ==
    /\ RoomIds = {1}
    /\ Whole(TheDoc)
    /\ Written
    /\ Awaited

\* Edits build on edits, and on all those build on.
LEMMA RequiresTransitive ==
    ASSUME NEW u \in Updates
    PROVE  /\ Requires[u] \subseteq Updates
           /\ \A v \in Requires[u] : Requires[v] \subseteq Requires[u]
BY YWebsocketAssumption

LEMMA TheRoom ==
    ASSUME TypeInv, RoomIds = {1}
    PROVE  TheDoc \in Edits /\ TheBacklog \in Edits /\ TheDoc \subseteq Updates /\ TheBacklog \subseteq Updates
BY RoomFacts DEF TypeInv, TheDoc, TheBacklog, Edits

\* What a client's payload releases is the client's.
LEMMA CalmOwn == ASSUME TypeInv, CalmInv PROVE OwnEdits
<1> SUFFICES ASSUME NEW c \in Clients, In(c), NEW content \in Edits, content \subseteq replica[c],
                    NEW u \in Delta(session[c].room, content)
             PROVE  u \in replica[c]
  BY DEF OwnEdits
<1>1. session[c].room = 1
  BY ClientFacts DEF CalmInv
<1>2. /\ u \in TheBacklog \cup content
      /\ Requires[u] \subseteq TheDoc \cup TheBacklog \cup content
      /\ u \notin TheDoc
  BY <1>1 DEF Delta, Readied, Ready, Waiting, TheDoc, TheBacklog
<1>3. CASE u \in TheBacklog
  <2>1. PICK v \in Requires[u] : v \notin TheDoc \cup TheBacklog
    BY <1>3 DEF CalmInv, Awaited
  <2>2. v \in replica[c]
    BY <1>2, <2>1
  <2>3. PICK d \in Clients : u \in replica[d] /\ Requires[u] \ TheDoc \subseteq replica[d]
    BY <1>3 DEF CalmInv, Awaited
  <2>4. v \in replica[d]
    BY <2>1, <2>3
  <2>5. d = c
    BY <2>1, <2>2, <2>4 DEF CalmInv, Written
  <2> QED
    BY <2>3, <2>5
<1> QED
  BY <1>2, <1>3

\* Room::apply keeps the document whole, and holds back what must wait.
LEMMA CalmApplied ==
    ASSUME TypeInv, CalmInv, NEW c \in Clients, NEW content \in Edits, content \subseteq replica[c],
           Applied(c, 1, content)
    PROVE  CalmInv'
<1> DEFINE w == Waiting(1, content)
           e == Readied(1, content)
<1>0. 1 \in RoomIds /\ RoomIds = {1}
  BY DEF CalmInv
<1>1. /\ TheDoc' = TheDoc \cup (e \ TheDoc)
      /\ TheBacklog' = w \ e
  BY <1>0, AppliedGrows DEF Delta, TheDoc, TheBacklog
<1>2. /\ w = TheBacklog \cup content
      /\ \A u : u \in e <=> u \in w /\ Requires[u] \subseteq TheDoc \cup w
  BY DEF Readied, Ready, Waiting, TheDoc, TheBacklog
<1>3. /\ TheDoc \subseteq Updates /\ TheBacklog \subseteq Updates /\ content \subseteq Updates
  BY <1>0, TheRoom DEF Edits
<1>4. replica' = replica /\ RoomIds' = RoomIds
  BY DEF Applied, RoomIds
<1> HIDE DEF w, e
<1>5. \A u : u \in TheDoc' <=> u \in TheDoc \/ u \in e
  BY <1>1
<1>6. Whole(TheDoc')
  <2> SUFFICES ASSUME NEW u \in TheDoc', NEW v \in Requires[u] PROVE v \in TheDoc'
    BY DEF Whole
  <2>1. CASE u \in TheDoc
    BY <1>5, <2>1 DEF CalmInv, Whole
  <2>2. CASE u \in e
    <3>1. u \in Updates /\ v \in TheDoc \cup w
      BY <1>2, <1>3, <2>2
    <3>2. Requires[v] \subseteq Requires[u] /\ Requires[u] \subseteq TheDoc \cup w
      BY <1>2, <2>2, <3>1, RequiresTransitive
    <3>3. v \in w => v \in e
      BY <1>2, <3>2
    <3> QED
      BY <1>5, <3>1, <3>3
  <2> QED
    BY <1>5, <2>1, <2>2
<1>7. TheDoc \subseteq TheDoc'
  BY <1>5
<1>8. Written'
  BY <1>4, <1>7 DEF CalmInv, Written
<1>9. Awaited'
  <2> SUFFICES ASSUME NEW u \in w, u \notin e
               PROVE  /\ ~(Requires[u] \subseteq TheDoc' \cup TheBacklog')
                      /\ \E d \in Clients : u \in replica[d] /\ Requires[u] \ TheDoc' \subseteq replica[d]
    BY <1>1, <1>4 DEF Awaited
  <2>1. ~(Requires[u] \subseteq TheDoc \cup w)
    BY <1>2
  <2>2. TheDoc' \cup TheBacklog' \subseteq TheDoc \cup w
    BY <1>1, <1>2
  <2>3. CASE u \in TheBacklog
    <3>1. PICK d \in Clients : u \in replica[d] /\ Requires[u] \ TheDoc \subseteq replica[d]
      BY <2>3 DEF CalmInv, Awaited
    <3> QED
      BY <1>7, <2>1, <2>2, <3>1
  <2>4. CASE u \in content
    <3>1. u \in replica[c] /\ (u \in TheDoc \/ Requires[u] \subseteq replica[c])
      BY <2>4 DEF CalmInv, Written
    <3>2. u \notin TheDoc
      BY <2>1 DEF CalmInv, Whole
    <3> QED
      BY <2>1, <2>2, <3>1, <3>2
  <2> QED
    BY <1>2, <2>3, <2>4
<1> QED
  BY <1>0, <1>4, <1>6, <1>8, <1>9 DEF CalmInv, Whole

\* An edit is new, and builds on what its client has.
LEMMA CalmEdit ==
    ASSUME TypeInv, CalmInv, NEW c \in Clients, NEW u \in Updates, Edit(c, u)
    PROVE  CalmInv'
<1>1. /\ Solo(c) /\ u \notin Made /\ Requires[u] \subseteq replica[c]
      /\ replica'[c] = replica[c] \cup {u}
  BY EditEffect
<1>2. /\ TheDoc' = TheDoc /\ TheBacklog' = TheBacklog /\ RoomIds' = RoomIds
      /\ \A d \in Clients \ {c} : replica'[d] = replica[d]
  BY <1>1 DEF Solo, TheDoc, TheBacklog, RoomIds
<1>3. \A d \in Clients : u \notin replica[d]
  BY <1>1 DEF Made
<1>4. \A d \in Clients : replica[d] \subseteq replica'[d]
  BY <1>1, <1>2
<1>5. Written'
  <2>1. \A d \in Clients : \A v \in replica'[d] : v \in TheDoc \/ Requires[v] \subseteq replica'[d]
    BY <1>1, <1>2 DEF CalmInv, Written
  <2>2. \A d, f \in Clients : d # f => replica'[d] \cap replica'[f] \subseteq TheDoc
    BY <1>1, <1>2, <1>3 DEF CalmInv, Written
  <2> QED
    BY <1>2, <2>1, <2>2 DEF Written
<1>6. Awaited'
  <2> SUFFICES ASSUME NEW v \in TheBacklog
               PROVE  /\ ~(Requires[v] \subseteq TheDoc \cup TheBacklog)
                      /\ \E d \in Clients : v \in replica'[d] /\ Requires[v] \ TheDoc \subseteq replica'[d]
    BY <1>2 DEF Awaited
  <2>1. ~(Requires[v] \subseteq TheDoc \cup TheBacklog)
    BY DEF CalmInv, Awaited
  <2>2. PICK d \in Clients : v \in replica[d] /\ Requires[v] \ TheDoc \subseteq replica[d]
    BY DEF CalmInv, Awaited
  <2> QED
    BY <1>4, <2>1, <2>2
<1> QED
  BY <1>2, <1>5, <1>6 DEF CalmInv, Whole

\* What a client receives is in the document.
LEMMA CalmReceive ==
    ASSUME TypeInv, WiresLinked, CalmInv, NEW c \in Clients, Receive(c)
    PROVE  CalmInv'
<1> DEFINE frame == Head(down[c])
<1>1. /\ Solo(c) /\ down[c] # <<>>
      /\ replica'[c] = replica[c] \/ replica'[c] = replica[c] \cup frame.content
  BY ReceiveEffect
<1>2. down[c] \in Seq(FrameType)
  BY ClientFacts
<1>3. frame.content \subseteq Carried(down[c])
  BY <1>1, <1>2, FramesTail
<1>4. In(c) /\ Carried(down[c]) \subseteq Doc(c)
  BY <1>1 DEF WiresLinked, Linked, In
<1>5. Doc(c) = TheDoc
  BY <1>4, ClientFacts DEF CalmInv, Doc, TheDoc
<1> HIDE DEF frame
<1>6. /\ replica[c] \subseteq replica'[c]
      /\ \A u \in replica'[c] : u \in replica[c] \/ u \in TheDoc
  BY <1>1, <1>3, <1>4, <1>5
<1>7. /\ TheDoc' = TheDoc /\ TheBacklog' = TheBacklog /\ RoomIds' = RoomIds
      /\ \A d \in Clients \ {c} : replica'[d] = replica[d]
  BY <1>1 DEF Solo, TheDoc, TheBacklog, RoomIds
<1>8. Written'
  <2>1. \A d \in Clients : \A v \in replica'[d] : v \in TheDoc \/ Requires[v] \subseteq replica'[d]
    BY <1>6, <1>7 DEF CalmInv, Written
  <2>2. \A d, f \in Clients : d # f => replica'[d] \cap replica'[f] \subseteq TheDoc
    BY <1>6, <1>7 DEF CalmInv, Written
  <2> QED
    BY <1>7, <2>1, <2>2 DEF Written
<1>9. \A d \in Clients : replica[d] \subseteq replica'[d]
  BY <1>6, <1>7
<1>10. Awaited'
  <2> SUFFICES ASSUME NEW v \in TheBacklog
               PROVE  /\ ~(Requires[v] \subseteq TheDoc \cup TheBacklog)
                      /\ \E d \in Clients : v \in replica'[d] /\ Requires[v] \ TheDoc \subseteq replica'[d]
    BY <1>7 DEF Awaited
  <2>1. ~(Requires[v] \subseteq TheDoc \cup TheBacklog)
    BY DEF CalmInv, Awaited
  <2>2. PICK d \in Clients : v \in replica[d] /\ Requires[v] \ TheDoc \subseteq replica[d]
    BY DEF CalmInv, Awaited
  <2> QED
    BY <1>9, <2>1, <2>2
<1> QED
  BY <1>7, <1>8, <1>10 DEF CalmInv, Whole

LEMMA CalmInit == Init => CalmInv
<1> SUFFICES ASSUME Init PROVE CalmInv
  OBVIOUS
<1>1. RoomIds = {1} /\ TheDoc = {} /\ TheBacklog = {}
  BY FirstRoom DEF RoomIds, TheDoc, TheBacklog
<1>2. \A c \in Clients : replica[c] = {}
  BY DEF Init
<1> QED
  BY <1>1, <1>2 DEF CalmInv, Whole, Written, Awaited

LEMMA CalmStep ==
    ASSUME Calm, TypeInv, WiresLinked, CalmInv, [Next]_vars PROVE CalmInv'
<1>0. ASSUME UNCHANGED <<rooms, replica>> PROVE CalmInv'
  BY <1>0 DEF CalmInv, RoomIds, TheDoc, TheBacklog, Whole, Written, Awaited
<1>1. ASSUME NEW c \in Clients, Incoming(c) PROVE CalmInv'
  <2> DEFINE content == Head(up[c]).content
             r == session[c].room
  <2>1. /\ r \in RoomIds /\ Taken(c)
        /\ Solo(c) \/ Applied(c, r, content)
    BY <1>1, IncomingEffect
  <2>2. content \in Edits /\ content \subseteq replica[c]
    BY <2>1, TakenContent DEF WiresLinked
  <2> HIDE DEF content, r
  <2>3. CASE Solo(c)
    <3>1. replica' = replica /\ UNCHANGED rooms
      BY <1>1, <2>3 DEF Incoming, Solo
    <3> QED
      BY <1>0, <3>1
  <2>4. CASE Applied(c, r, content)
    <3>1. r = 1
      BY <2>1 DEF CalmInv
    <3> QED
      BY <2>2, <2>4, <3>1, CalmApplied
  <2> QED
    BY <2>1, <2>3, <2>4
<1>2. ASSUME NEW c \in Clients, Client(c) \/ Serve(c), ~Incoming(c), ~Receive(c), ~\E u \in Updates : Edit(c, u)
      PROVE  UNCHANGED <<rooms, replica>>
  BY <1>2 DEF Client, Serve, Connect, Pause, Hold, Recheck, Join, Greet, Outgoing, Presence, Drop
<1>3. CASE Evict
  <2>1. /\ DOMAIN rooms' = RoomIds /\ UNCHANGED replica
        /\ \A s \in RoomIds : rooms'[s].doc = rooms[s].doc
        /\ rooms'[Registered].held = {}
    BY <1>3, EvictEffect
  <2>2. Registered = 1
    BY RoomFacts DEF TypeInv, CalmInv
  <2>3. TheDoc' = TheDoc /\ TheBacklog' = {} /\ RoomIds' = RoomIds
    BY <2>1, <2>2 DEF TheDoc, TheBacklog, CalmInv, RoomIds
  <2> QED
    BY <2>1, <2>3 DEF CalmInv, Whole, Written, Awaited
<1>4. ~Delete /\ ~Restart
  BY DeleteEffect, RestartEffect DEF Calm
<1>5. CASE UNCHANGED vars
  BY <1>0, <1>5 DEF vars
<1> QED
  BY <1>0, <1>1, <1>2, <1>3, <1>4, <1>5, CalmEdit, CalmReceive DEF Next

-----------------------------------------------------------------------------
(***************************************************************************)
(* Holes.  A broadcast may build on what a client lacks, but never on what *)
(* is behind it in the queue: whatever part of the queue a client has      *)
(* heard lacks nothing, unless it has yet to be answered.                  *)
(***************************************************************************)

Filled(c) ==
    (session[c].at = "relay" /\ ~session[c].lagged) =>
        \/ HasStep1(up[c])
        \/ \A i \in 0 .. Len(session[c].queue) : Whole(Wire(c) \cup FromOthers(c, session[c].queue, i))

AllFilled == \A c \in Clients : Filled(c)

\* Part of a queue.
LEMMA FromOthersCarried ==
    ASSUME NEW c, NEW q \in Seq(MessageType), NEW i \in 0 .. Len(q)
    PROVE  FromOthers(c, q, i) \subseteq Carried(q)
<1>1. DOMAIN q = 1 .. Len(q) /\ Len(q) \in Nat
  BY LenProperties
<1>2. \A k \in 1 .. i : k \in DOMAIN q
  BY <1>1
<1> QED
  BY <1>2 DEF FromOthers, Carried

\* What a client has with the whole document lacks nothing.
LEMMA WholeTogether ==
    ASSUME NEW doc, NEW mine, Whole(doc), \A u \in mine : u \in doc \/ Requires[u] \subseteq mine
    PROVE  Whole(doc \cup mine)
BY DEF Whole

LEMMA WholeWith ==
    ASSUME TypeInv, WiresLinked, CalmInv, NEW c \in Clients, session[c].at = "relay",
           NEW F, F \subseteq Doc(c), Doc(c) \subseteq Wire(c) \cup F
    PROVE  Whole(Wire(c) \cup F)
<1>1. In(c) /\ Doc(c) = TheDoc
  BY ClientFacts DEF In, CalmInv, Doc, TheDoc
<1>2. CarriedUpdates(down[c]) \subseteq Doc(c)
  BY <1>1, CarriedAll DEF WiresLinked, Linked
<1>3. Wire(c) \cup F = TheDoc \cup replica[c]
  BY <1>1, <1>2 DEF Wire
<1>4. Whole(TheDoc \cup replica[c])
  BY WholeTogether DEF CalmInv, Written
<1> QED
  BY <1>3, <1>4

\* A client that has the whole document at hand lacks nothing whatever it
\* hears.
LEMMA FilledWhole ==
    ASSUME TypeInv, WiresLinked, CalmInv, NEW c \in Clients, session[c].at = "relay", Doc(c) \subseteq Wire(c)
    PROVE  Filled(c)
<1> DEFINE q == session[c].queue
<1>1. q \in Seq(MessageType) /\ Carried(q) \subseteq Doc(c)
  BY ClientFacts DEF WiresLinked, Linked, In
<1>2. ASSUME NEW i \in 0 .. Len(q) PROVE Whole(Wire(c) \cup FromOthers(c, q, i))
  <2> DEFINE F == FromOthers(c, q, i)
  <2>1. F \subseteq Carried(q)
    BY <1>1, FromOthersCarried
  <2> HIDE DEF F
  <2>2. F \subseteq Doc(c)
    BY <1>1, <2>1
  <2>3. Whole(Wire(c) \cup F)
    BY <2>2, WholeWith
  <2> QED
    BY <2>3 DEF F
<1> QED
  BY <1>2 DEF Filled

\* The same of the next state.
LEMMA FilledWholeNext ==
    (\A c \in Clients :
        (TypeInv /\ WiresLinked /\ CalmInv /\ session[c].at = "relay" /\ Doc(c) \subseteq Wire(c)) => Filled(c))'
<1>1. \A c \in Clients :
        (TypeInv /\ WiresLinked /\ CalmInv /\ session[c].at = "relay" /\ Doc(c) \subseteq Wire(c)) => Filled(c)
  BY FilledWhole
<1> QED
  BY <1>1, PTL

LEMMA WholePassedNext ==
    (\A c \in Clients :
        (TypeInv /\ WiresLinked /\ CalmInv /\ session[c].at = "relay" /\ Doc(c) \subseteq Wire(c) \cup Passed(c))
            => Whole(Wire(c) \cup Passed(c)))'
<1>1. ASSUME NEW c \in Clients, TypeInv, WiresLinked, CalmInv, session[c].at = "relay",
             Doc(c) \subseteq Wire(c) \cup Passed(c)
      PROVE  Whole(Wire(c) \cup Passed(c))
  <2> DEFINE q == session[c].queue
  <2>1. q \in Seq(MessageType) /\ Carried(q) \subseteq Doc(c)
    BY <1>1, ClientFacts DEF WiresLinked, Linked, In
  <2>2. Len(q) \in 0 .. Len(q)
    BY <2>1, LenProperties
  <2>3. Passed(c) \subseteq Carried(q)
    BY <2>1, <2>2, FromOthersCarried DEF Passed
  <2> HIDE DEF q
  <2> QED
    BY <1>1, <2>1, <2>3, WholeWith
<1>2. \A c \in Clients :
        (TypeInv /\ WiresLinked /\ CalmInv /\ session[c].at = "relay" /\ Doc(c) \subseteq Wire(c) \cup Passed(c))
            => Whole(Wire(c) \cup Passed(c))
  BY <1>1
<1> QED
  BY <1>2, PTL

\* Reached, of the next state.
LEMMA ReachedNext == (TypeInv /\ NothingMissed => \A c \in Clients : Reached(c))'
<1>1. TypeInv /\ NothingMissed => \A c \in Clients : Reached(c)
  BY ReachedMeans
<1> QED
  BY <1>1, PTL

\* A client that keeps what it has, and may be told of something more.
LEMMA FilledHeeds ==
    ASSUME TypeInv, TypeInv', WiresLinked', CalmInv', NothingMissed', NEW c \in Clients, Filled(c),
           replica'[c] = replica[c], down'[c] = down[c], HasStep1(up[c]) => HasStep1(up'[c]),
           NEW r, NEW m \in MessageType, Heeds(c, r, m)
    PROVE  Filled(c)'
<1> DEFINE q == session[c].queue
           new == session'[c].queue
<1> SUFFICES ASSUME session'[c].at = "relay", ~session'[c].lagged, ~HasStep1(up'[c]), NEW i \in 0 .. Len(new)
             PROVE  Whole(Wire(c)' \cup FromOthers(c, new, i))
  BY DEF Filled
<1>1. q \in Seq(MessageType) /\ Len(q) \in Nat
  BY ClientFacts, LenProperties
<1>2. Wire(c)' = Wire(c) /\ session[c].at = "relay"
  BY DEF Wire, Heeds
<1>3. CASE session'[c] = session[c]
  BY <1>2, <1>3 DEF Filled
<1>4. CASE session'[c].lagged = session[c].lagged /\ new = Append(q, m)
  <2>1. Len(new) = Len(q) + 1
    BY <1>1, <1>4, AppendProperties
  <2>2. CASE i \in 0 .. Len(q)
    <3>1. Whole(Wire(c) \cup FromOthers(c, q, i))
      BY <1>2, <1>4, <2>2 DEF Filled
    <3> HIDE DEF q, new
    <3>2. q \in Seq(MessageType) /\ new = Append(q, m) /\ i \in 0 .. Len(q)
      BY <1>1, <1>4, <2>2
    <3>3. FromOthers(c, new, i) = FromOthers(c, q, i)
      BY <3>2, FromOthersBefore, Zenon
    <3> QED
      BY <1>2, <3>1, <3>3
  <2>3. CASE i = Len(new)
    <3>1. Reached(c)'
      BY ReachedNext
    <3>2. Doc(c)' \subseteq Wire(c)' \cup Passed(c)'
      BY <3>1 DEF Reached, In
    <3>3. Whole(Wire(c)' \cup Passed(c)')
      BY <3>2, WholePassedNext
    <3> QED
      BY <2>3, <3>3 DEF Passed
  <2> QED
    BY <1>1, <2>1, <2>2, <2>3
<1> QED
  BY <1>3, <1>4 DEF Heeds

LEMMA FilledSame ==
    ASSUME NEW c \in Clients, Filled(c),
           replica'[c] = replica[c], down'[c] = down[c], up'[c] = up[c], session'[c] = session[c]
    PROVE  Filled(c)'
BY DEF Filled, Wire

LEMMA FilledSolo ==
    ASSUME AllFilled, NEW c \in Clients, Solo(c), Filled(c)' PROVE AllFilled'
<1>1. \A d \in Clients \ {c} : Filled(d)'
  BY FilledSame DEF Solo, AllFilled
<1> QED
  BY <1>1 DEF AllFilled

\* Each step leaves no client with a hole.
LEMMA FilledStep ==
    ASSUME Calm, TypeInv, TypeInv', WiresLinked, WiresLinked', AllAsked, NothingMissed, NothingMissed',
           CalmInv, CalmInv', AllFilled, [Next]_vars
    PROVE  AllFilled'
<1>1. ASSUME NEW c \in Clients, Client(c) \/ Serve(c) PROVE AllFilled'
  <2>0. Filled(c) /\ Reached(c)
    BY ReachedMeans DEF AllFilled
  <2>1. ASSUME Solo(c), session'[c].at # "relay" PROVE AllFilled'
    BY <2>1, FilledSolo DEF Filled
  <2>2. CASE Connect(c)
    BY <2>1, <2>2, ConnectEffect, NoSession
  <2>3. CASE Receive(c)
    <3>1. /\ Solo(c) /\ Wire(c)' = Wire(c) /\ session'[c] = session[c]
          /\ HasStep1(up[c]) => HasStep1(up'[c])
      BY <2>0, <2>3, ReachedReceive
    <3>2. Filled(c)'
      BY <2>0, <3>1 DEF Filled
    <3> QED
      BY <3>1, <3>2, FilledSolo
  <2>4. CASE \E u \in Updates : Edit(c, u)
    <3> PICK u \in Updates : Edit(c, u)
      BY <2>4
    <3>1. /\ Solo(c) /\ Requires[u] \subseteq replica[c] /\ replica'[c] = replica[c] \cup {u}
          /\ session'[c] = session[c] /\ down'[c] = down[c]
      BY EditEffect
    <3>2. HasStep1(up[c]) => HasStep1(up'[c])
      BY <2>0, ReachedEdit
    <3>3. Wire(c)' = Wire(c) \cup {u} /\ Requires[u] \subseteq Wire(c)
      BY <3>1 DEF Wire
    <3>4. ASSUME NEW F, Whole(Wire(c) \cup F) PROVE Whole(Wire(c)' \cup F)
      BY <3>3, <3>4 DEF Whole
    <3>5. Filled(c)'
      BY <2>0, <3>1, <3>2, <3>4 DEF Filled
    <3> QED
      BY <3>1, <3>5, FilledSolo
  <2>5. CASE Pause(c)
    <3>1. Solo(c) /\ session'[c] = Paused(session[c])
      BY <2>5, PauseEffect
    <3> QED
      BY <2>1, <3>1, SessionMoves
  <2>6. CASE Hold(c)
    BY <2>1, <2>6, HoldEffect
  <2>7. CASE Recheck(c)
    <3>1. Solo(c) /\ session'[c] = Moved(session[c], "admitting")
      BY <2>7, RecheckEffect
    <3> QED
      BY <2>1, <3>1, SessionMoves
  <2>8. CASE Join(c)
    <3>1. Solo(c) /\ session'[c] = Joined(session[c], Registered)
      BY <2>8, JoinEffect
    <3> QED
      BY <2>1, <3>1, SessionMoves
  <2>9. CASE Greet(c)
    <3>1. /\ Solo(c)
          /\ session[c].at = "greet" /\ session'[c] = Moved(session[c], "relay")
          /\ replica'[c] = replica[c] /\ up'[c] = up[c]
          /\ session[c].paused => Doc(c) \subseteq Wire(c)'
      BY <2>9, GreetedHas
    <3>2. session'[c].at = "relay" /\ session'[c].room = session[c].room
      BY <3>1, SessionMoves
    <3>3. CASE session[c].paused
      <4>1. Doc(c)' = Doc(c)
        BY <3>1, <3>2 DEF Doc, Solo
      <4>2. Filled(c)'
        BY <3>1, <3>2, <3>3, <4>1, FilledWholeNext
      <4> QED
        BY <3>1, <4>2, FilledSolo
    <3>4. CASE ~session[c].paused
      <4>1. HasStep1(up'[c])
        BY <3>1, <3>4 DEF AllAsked, Asked
      <4>2. Filled(c)'
        BY <4>1 DEF Filled
      <4> QED
        BY <3>1, <4>2, FilledSolo
    <3> QED
      BY <3>3, <3>4
  <2>10. CASE Incoming(c)
    <3> DEFINE frame == Head(up[c])
               r == session[c].room
               answer == Update(rooms[r].doc \ frame.content)
               content == frame.content
    <3>1. /\ session[c].at = "relay" /\ r \in RoomIds /\ Taken(c)
          /\ \/ /\ Solo(c) /\ session'[c] = session[c] /\ answer \in FrameType
                /\ down'[c] = Append(down[c], answer)
             \/ /\ Solo(c) /\ session'[c] = session[c] /\ down'[c] = down[c]
                /\ frame.kind = "update"
             \/ frame.kind = "update" /\ Applied(c, r, content)
      BY <2>10, IncomingEffect
    <3>2. /\ content \in Edits /\ content \subseteq replica[c] /\ replica'[c] = replica[c]
          /\ HasStep1(up[c]) <=> frame.kind = "step1" \/ HasStep1(up'[c])
      BY <3>1, TakenContent DEF WiresLinked, Taken
    <3>3. answer = Update(Doc(c) \ content)
      BY DEF Doc
    <3> HIDE DEF frame, r, answer, content
    <3>4. CASE /\ Solo(c) /\ session'[c] = session[c] /\ answer \in FrameType
               /\ down'[c] = Append(down[c], answer)
      <4>1. Doc(c) \subseteq Wire(c)'
        BY <3>2, <3>3, <3>4, AnsweredHas
      <4>2. Doc(c)' = Doc(c) /\ session'[c].at = "relay"
        BY <3>1, <3>4 DEF Doc, Solo
      <4>3. Filled(c)'
        BY <4>1, <4>2, FilledWholeNext
      <4> QED
        BY <3>4, <4>3, FilledSolo
    <3>5. frame.kind = "update" => (HasStep1(up[c]) => HasStep1(up'[c]))
      BY <3>2
    <3>6. CASE Solo(c) /\ session'[c] = session[c] /\ down'[c] = down[c] /\ frame.kind = "update"
      <4>1. Wire(c)' = Wire(c)
        BY <3>2, <3>6 DEF Wire
      <4>2. Filled(c)'
        BY <2>0, <3>5, <3>6, <4>1 DEF Filled
      <4> QED
        BY <3>6, <4>2, FilledSolo
    <3>7. CASE frame.kind = "update" /\ Applied(c, r, content)
      <4> DEFINE m == Message(c, Delta(r, content))
      <4>1. m \in MessageType /\ \A d \in Clients : Heeds(d, r, m)
        BY <3>1, <3>2, <3>7, AppliedGrows
      <4>2. /\ UNCHANGED <<replica, down>>
            /\ \A d \in Clients \ {c} : up'[d] = up[d]
        BY <3>7 DEF Applied
      <4> HIDE DEF m
      <4>3. ASSUME NEW d \in Clients PROVE Filled(d)'
        <5>1. /\ replica'[d] = replica[d] /\ down'[d] = down[d]
              /\ HasStep1(up[d]) => HasStep1(up'[d])
          BY <3>5, <3>7, <4>2
        <5>2. Heeds(d, r, m) /\ Filled(d) /\ m \in MessageType
          BY <4>1 DEF AllFilled
        <5> QED
          BY <5>1, <5>2, FilledHeeds
      <4> QED
        BY <4>3 DEF AllFilled
    <3> QED
      BY <3>1, <3>4, <3>6, <3>7
  <2>11. ASSUME Solo(c), Ended(c) PROVE AllFilled'
    BY <2>1, <2>11, NoSession DEF Ended
  <2>12. CASE Outgoing(c)
    <3> DEFINE message == Head(session[c].queue)
               frame == Update(message.content)
               q == session[c].queue
               rest == session'[c].queue
    <3>1. /\ Solo(c) /\ session[c].at = "relay"
          /\ \/ Ended(c)
             \/ /\ session[c].queue # <<>>
                /\ session'[c] = Heard(session[c])
                /\ replica'[c] = replica[c] /\ up'[c] = up[c]
                /\ \/ message.from = c /\ down'[c] = down[c]
                   \/ message.from # c /\ frame \in FrameType /\ down'[c] = Append(down[c], frame)
      BY <2>12, OutgoingEffect
    <3>2. CASE /\ session[c].queue # <<>>
               /\ session'[c] = Heard(session[c])
               /\ replica'[c] = replica[c] /\ up'[c] = up[c]
               /\ \/ message.from = c /\ down'[c] = down[c]
                  \/ message.from # c /\ frame \in FrameType /\ down'[c] = Append(down[c], frame)
      <4>1. \A i \in 0 .. Len(rest) :
              /\ i + 1 \in 0 .. Len(q)
              /\ Wire(c)' \cup FromOthers(c, rest, i) = Wire(c) \cup FromOthers(c, q, i + 1)
        BY <3>2, HeardPasses
      <4>2. session'[c].lagged = session[c].lagged
        BY <3>2, SessionMoves
      <4>3. up'[c] = up[c] /\ (session[c].lagged \/ HasStep1(up[c])
                               \/ \A i \in 0 .. Len(q) : Whole(Wire(c) \cup FromOthers(c, q, i)))
        BY <2>0, <3>1, <3>2 DEF Filled
      <4>4. (\A i \in 0 .. Len(q) : Whole(Wire(c) \cup FromOthers(c, q, i)))
              => \A i \in 0 .. Len(rest) : Whole(Wire(c)' \cup FromOthers(c, rest, i))
        <5> HIDE DEF q, rest
        <5> SUFFICES ASSUME \A i \in 0 .. Len(q) : Whole(Wire(c) \cup FromOthers(c, q, i)),
                            NEW j \in 0 .. Len(rest)
                     PROVE  Whole(Wire(c)' \cup FromOthers(c, rest, j))
          OBVIOUS
        <5>1. Whole(Wire(c) \cup FromOthers(c, q, j + 1))
          BY <4>1
        <5>2. Wire(c)' \cup FromOthers(c, rest, j) = Wire(c) \cup FromOthers(c, q, j + 1)
          BY <4>1
        <5> QED
          BY <5>1, <5>2
      <4>5. Filled(c)'
        BY <4>2, <4>3, <4>4 DEF Filled
      <4> QED
        BY <3>1, <4>5, FilledSolo
    <3> QED
      BY <2>11, <3>1, <3>2
  <2>13. CASE Presence(c)
    <3> DEFINE m == Message(c, {})
               r == session[c].room
    <3>1. /\ UNCHANGED <<replica, up, down, rooms>>
          /\ \A d \in Clients : Hears(d, r, m)
          /\ m \in MessageType
      BY <2>13, PresenceEffect
    <3> HIDE DEF m, r
    <3>2. \A d \in Clients : Heeds(d, r, m)
      BY <3>1, ToldHeeds DEF Told
    <3>3. \A d \in Clients : Filled(d)'
      BY <3>1, <3>2, FilledHeeds DEF AllFilled
    <3> QED
      BY <3>3 DEF AllFilled
  <2>14. CASE Drop(c)
    BY <2>11, <2>14, DropEffect
  <2> QED
    BY <1>1, <2>2, <2>3, <2>4, <2>5, <2>6, <2>7, <2>8, <2>9, <2>10, <2>12, <2>13, <2>14 DEF Client, Serve
<1>2. CASE Evict
  <2>1. UNCHANGED <<replica, up, down, session>>
    BY <1>2, EvictEffect
  <2> QED
    BY <2>1, FilledSame DEF AllFilled
<1>3. ~Delete /\ ~Restart
  BY DeleteEffect, RestartEffect DEF Calm
<1>4. CASE UNCHANGED vars
  BY <1>4, FilledSame DEF AllFilled, vars
<1> QED
  BY <1>1, <1>2, <1>3, <1>4 DEF Next

-----------------------------------------------------------------------------
(***************************************************************************)
(* The theorems.  Both need that what a payload makes new is its sender's, *)
(* which a session relies on when it skips its own messages.  It is when   *)
(* no edit builds on another, whatever happens; and when edits build on    *)
(* others, as long as the document is not deleted and no server process    *)
(* dies with edits unsaved.  Without either, one client's payload may      *)
(* release what the room held back for another, and that client be told    *)
(* of it by nobody.                                                        *)
(***************************************************************************)

SharedInv == TypeInv /\ WiresLinked /\ AllAsked /\ NothingMissed
CalmAlways == SharedInv /\ CalmInv /\ AllFilled
IndependentAlways == SharedInv /\ NoneHeld

LEMMA SharedInit == Init => SharedInv
<1>1. Init => NothingMissed
  BY NoSession DEF Init, NothingMissed, In
<1> QED
  BY <1>1, TypeInit, LinkedInit, AskedInit DEF SharedInv

LEMMA CalmInvariant == ASSUME Calm PROVE Spec => []CalmAlways
<1>1. Init => CalmAlways
  <2>1. Init => AllFilled
    BY NoSession DEF Init, AllFilled, Filled
  <2> QED
    BY <2>1, SharedInit, CalmInit DEF CalmAlways
<1>2. ASSUME CalmAlways, [Next]_vars PROVE CalmAlways'
  <2>1. TypeInv /\ WiresLinked /\ AllAsked /\ NothingMissed /\ CalmInv /\ AllFilled
    BY <1>2 DEF CalmAlways, SharedInv
  <2>2. TypeInv' /\ WiresLinked' /\ AllAsked'
    BY <1>2, <2>1, TypeStep, LinkedStep, AskedStep
  <2>3. OwnEdits
    BY <2>1, CalmOwn
  <2>4. NothingMissed'
    BY <1>2, <2>1, <2>2, <2>3, MissedStep
  <2>5. CalmInv'
    BY <1>2, <2>1, CalmStep
  <2>6. AllFilled'
    BY <1>2, <2>1, <2>2, <2>4, <2>5, FilledStep
  <2> QED
    BY <2>2, <2>4, <2>5, <2>6 DEF CalmAlways, SharedInv
<1> QED
  BY <1>1, <1>2, PTL DEF Spec

LEMMA IndependentInvariant == ASSUME Independent PROVE Spec => []IndependentAlways
<1>1. Init => IndependentAlways
  BY SharedInit, NoneHeldInit DEF IndependentAlways
<1>2. ASSUME IndependentAlways, [Next]_vars PROVE IndependentAlways'
  <2>1. TypeInv /\ WiresLinked /\ AllAsked /\ NothingMissed /\ NoneHeld
    BY <1>2 DEF IndependentAlways, SharedInv
  <2>2. TypeInv' /\ WiresLinked' /\ AllAsked' /\ NoneHeld'
    BY <1>2, <2>1, TypeStep, LinkedStep, AskedStep, NoneHeldStep
  <2>3. OwnEdits
    BY <2>1, NoneHeldOwn
  <2>4. NothingMissed'
    BY <1>2, <2>1, <2>2, <2>3, MissedStep
  <2> QED
    BY <2>2, <2>4 DEF IndependentAlways, SharedInv
<1> QED
  BY <1>1, <1>2, PTL DEF Spec

\* Every update of the room has reached a client that is relayed, or is on
\* the way to it, or will be in the answer to its step 1 or in its greeting,
\* or the client is about to be told to reconnect: joins, frames dropped
\* while paused, overwritten broadcasts and skipped messages leave no gap.
THEOREM NothingMissedTheorem ==
    ASSUME Calm \/ Independent
    PROVE  Spec => []NothingMissed
<1>1. CASE Calm
  <2>1. CalmAlways => NothingMissed
    BY DEF CalmAlways, SharedInv
  <2>2. Spec => []CalmAlways
    BY <1>1, CalmInvariant
  <2> QED
    BY <2>1, <2>2, PTL
<1>2. CASE Independent
  <2>1. IndependentAlways => NothingMissed
    BY DEF IndependentAlways, SharedInv
  <2>2. Spec => []IndependentAlways
    BY <1>2, IndependentInvariant
  <2> QED
    BY <2>1, <2>2, PTL
<1> QED
  BY <1>1, <1>2

\* A client that is relayed and has been answered has, or has on the way,
\* everything that its edits build on: it never waits for what only a
\* reconnection would bring.
THEOREM NoHolesTheorem ==
    ASSUME Calm \/ Independent
    PROVE  Spec => []NoHoles
<1>1. CASE Calm
  <2>1. ASSUME CalmAlways PROVE NoHoles
    <3>1. ASSUME NEW c \in Clients, session[c].at = "relay", ~session[c].lagged, ~HasStep1(up[c]),
                 NEW u \in replica[c]
          PROVE  Requires[u] \subseteq replica[c] \cup CarriedUpdates(down[c])
      <4>1. Filled(c) /\ session[c].queue \in Seq(MessageType)
        BY <2>1, <3>1, ClientFacts DEF CalmAlways, SharedInv, AllFilled
      <4>2. 0 \in 0 .. Len(session[c].queue)
        BY <4>1, LenProperties
      <4>3. Whole(Wire(c) \cup FromOthers(c, session[c].queue, 0))
        BY <3>1, <4>1, <4>2 DEF Filled
      <4>4. FromOthers(c, session[c].queue, 0) = {}
        BY DEF FromOthers
      <4>5. Whole(Wire(c))
        BY <4>3, <4>4
      <4> QED
        BY <3>1, <4>5 DEF Whole, Wire
    <3> QED
      BY <3>1 DEF NoHoles
  <2>2. Spec => []CalmAlways
    BY <1>1, CalmInvariant
  <2> QED
    BY <2>1, <2>2, PTL
<1>2. CASE Independent
  <2>1. ASSUME IndependentAlways PROVE NoHoles
    <3>1. ASSUME NEW c \in Clients, NEW u \in replica[c] PROVE Requires[u] = {}
      <4>1. replica[c] \in Edits
        BY <2>1, <3>1, ClientFacts DEF IndependentAlways, SharedInv
      <4> QED
        BY <1>2, <3>1, <4>1 DEF Edits, Independent
    <3> QED
      BY <3>1 DEF NoHoles
  <2>2. Spec => []IndependentAlways
    BY <1>2, IndependentInvariant
  <2> QED
    BY <2>1, <2>2, PTL
<1> QED
  BY <1>1, <1>2
=============================================================================
