----------------------------- MODULE Hocuspocus -----------------------------
(***************************************************************************)
(* The Hocuspocus transport of canvist Sync: one socket that carries many  *)
(* documents, each authenticated, paused, opened and closed on its own     *)
(* (hocuspocus.rs, session.rs).  A forwarder per open document copies the  *)
(* room's broadcasts into the socket's bounded outbox; the connection's    *)
(* task reads the socket, the outbox and its timers.                       *)
(*                                                                         *)
(* Data: an update is an element of Updates, a replica, a room's document  *)
(* and a payload are sets of updates; updates build on nothing here, what  *)
(* Reorder does is the subject of YWebsocket.  Sizes are counted in        *)
(* updates: a full document refuses more.  Frames that carry neither       *)
(* updates nor a state vector (awareness, keepalives, SyncStatus) are left *)
(* out; what a SyncStatus says was not saved is kept as `refused`.  Each   *)
(* action is one turn of the task's `select!`, which does not begin while  *)
(* the socket has no room to write to, or one turn of a forwarder's loop.  *)
(***************************************************************************)
EXTENDS Integers, FiniteSets, Sequences

CONSTANTS
    Documents,       \* documents the client may open on its socket
    Readable,        \* those its tokens may only read
    Updates,         \* the edits there are
    Edits,           \* [Documents -> SUBSET Updates]: those somebody may make in each
    MaxDocuments,    \* hocuspocus.rs MAX_DOCUMENTS
    FanoutCapacity,  \* room.rs FANOUT_CAPACITY
    OutboxCapacity,  \* hocuspocus.rs OUTBOX
    SocketBuffer,    \* frames the socket takes before the server has to wait
    MaxDocument,     \* SyncConfig.max_document_bytes, in updates
    MaxInFlight,     \* bound: the client acts only while fewer frames are on the way
    Events,          \* the kinds of trouble that may happen: see EventKinds
    MaxEvents        \* bound: how many of them

EventKinds == {"pause",   \* a document is over the plan's limit
               "deny",    \* a token is refused, or admit or the load fails
               "detach",  \* the client closes a document
               "drop",    \* the connection breaks, is found dead, or the server restarts
               "noise",   \* somebody publishes awareness
               "delete"}  \* DELETE /v1/documents/{name}

ASSUME HocuspocusAssumption ==
    /\ IsFiniteSet(Documents) /\ IsFiniteSet(Updates)
    /\ Readable \subseteq Documents
    /\ Edits \in [Documents -> SUBSET Updates]
    /\ MaxDocuments \in Nat
    /\ FanoutCapacity \in Nat \ {0}
    /\ OutboxCapacity \in Nat
    /\ SocketBuffer \in Nat
    /\ MaxDocument \in Nat
    /\ MaxInFlight \in Nat
    /\ Events \subseteq EventKinds
    /\ MaxEvents \in Nat

VARIABLES
    connected,  \* whether the client's socket is open
    wanted,     \* the documents the client has attached to it
    replica,    \* what the client's Y.Doc of each document holds
    up,         \* frames the client sent and the server has not read
    down,       \* frames the server sent and the client has not read
    session,    \* what the connection holds of each document
    outbox,     \* what forwarders queued for the socket
    rooms,      \* per document, its rooms so far; the last one is registered
    events      \* troubles so far (bounded by MaxEvents)

vars == <<connected, wanted, replica, up, down, session, outbox, rooms, events>>

-----------------------------------------------------------------------------
(* Frames, broadcasts, sessions, rooms. *)

\* hocuspocus.rs `kind`: AUTH with a token, or its answer; SYNC; CLOSE.
Frame == [doc: Documents, content: SUBSET Updates,
          kind: {"token", "step1", "update", "close", "denied", "lagged"}]
Token(d) == [doc |-> d, kind |-> "token", content |-> {}]
Step1(d, have) == [doc |-> d, kind |-> "step1", content |-> have]
Update(d, delta) == [doc |-> d, kind |-> "update", content |-> delta]
Close(d) == [doc |-> d, kind |-> "close", content |-> {}]
Denied(d) == [doc |-> d, kind |-> "denied", content |-> {}]

\* room.rs Fanout: a message, from this connection's session or not, or Closed.
Fanout == [kind: {"own", "other", "closed"}, content: SUBSET Updates]

\* hocuspocus.rs Outbox: a frame, or Lagged.
Lagged(d) == [doc |-> d, kind |-> "lagged", content |-> {}]

\* An entry of `documents` (at = "open"), of `paused`, or none; with the
\* forwarder's receiver and what the forwarder does: "retry" after a refused
\* try_send, "done" when it has returned.  `refused` is a history variable:
\* the updates of which the session told the client that they were not saved,
\* because the document was full.
SessionState ==
    [at: {"closed", "paused", "open"}, room: Nat, queue: Seq(Fanout), lagged: BOOLEAN,
     forward: {"recv", "retry", "done"}, refused: SUBSET Updates]
None == [at |-> "closed", room |-> 0, queue |-> <<>>, lagged |-> FALSE, forward |-> "done",
         refused |-> {}]
Opened(r) == [at |-> "open", room |-> r, queue |-> <<>>, lagged |-> FALSE, forward |-> "recv",
              refused |-> {}]

\* `peers` counts this connection's memberships only.
RoomState == [doc: SUBSET Updates, peers: Nat]

Registered(d) == Len(rooms[d])
Open(d) == session[d].at = "open"
InRoom(d) == rooms[d][session[d].room]

\* documents.len() + paused.len()
Seats == Cardinality({d \in Documents : session[d].at # "closed"})

Happens(kind) ==
    /\ kind \in Events
    /\ events < MaxEvents
    /\ events' = events + 1

-----------------------------------------------------------------------------
Init ==
    /\ connected = FALSE
    /\ wanted = {}
    /\ replica = [d \in Documents |-> {}]
    /\ up = <<>>
    /\ down = <<>>
    /\ session = [d \in Documents |-> None]
    /\ outbox = <<>>
    /\ rooms = [d \in Documents |-> <<[doc |-> {}, peers |-> 0]>>]
    /\ events = 0

(***************************************************************************)
(* The client (external: HocuspocusProvider on one HocuspocusProvider-     *)
(* Websocket).                                                             *)
(***************************************************************************)

\* A provider sends its token and then its step 1, without waiting.
Hello(d) == <<Token(d), Step1(d, replica[d])>>

\* Providers attach one by one, and all those attached greet on a reconnection.
Attach(d) ==
    /\ d \notin wanted
    /\ connected => Len(up) < MaxInFlight
    /\ wanted' = wanted \cup {d}
    /\ up' = IF connected THEN up \o Hello(d) ELSE up
    /\ UNCHANGED <<connected, replica, down, session, outbox, rooms, events>>

Detach(d) ==
    /\ Happens("detach")
    /\ d \in wanted
    /\ wanted' = wanted \ {d}
    /\ up' = IF connected THEN Append(up, Close(d)) ELSE up
    /\ UNCHANGED <<connected, replica, down, session, outbox, rooms>>

\* All hellos of the attached documents, one after the other.
Hellos(order) == [i \in 1..2 * Len(order) |-> Hello(order[(i + 1) \div 2])[2 - (i % 2)]]

Connect ==
    /\ ~connected
    /\ wanted # {}
    /\ connected' = TRUE
    /\ \E order \in [1..Cardinality(wanted) -> wanted] :
        /\ \A d \in wanted : \E i \in DOMAIN order : order[i] = d
        /\ up' = Hellos(order)
    /\ UNCHANGED <<wanted, replica, down, session, outbox, rooms, events>>

Made(d) == replica[d] \cup UNION {rooms[d][r].doc : r \in DOMAIN rooms[d]}

Edit(d, u) ==
    /\ d \in wanted
    /\ u \in Edits[d] \ Made(d)
    /\ connected => Len(up) < MaxInFlight
    /\ replica' = [replica EXCEPT ![d] = @ \cup {u}]
    /\ up' = IF connected THEN Append(up, Update(d, {u})) ELSE up
    /\ UNCHANGED <<connected, wanted, down, session, outbox, rooms, events>>

\* A step 1 is answered with what the other side lacks; frames of a document
\* that is not attached are ignored.
Receive ==
    /\ down # <<>>
    /\ LET frame == Head(down)
           d == frame.doc
       IN /\ replica' = IF d \in wanted /\ frame.kind = "update"
                        THEN [replica EXCEPT ![d] = @ \cup frame.content] ELSE replica
          /\ up' = IF d \in wanted /\ frame.kind = "step1"
                   THEN Append(up, Update(d, replica[d] \ frame.content)) ELSE up
    /\ down' = Tail(down)
    /\ UNCHANGED <<connected, wanted, session, outbox, rooms, events>>

(***************************************************************************)
(* Rooms and their other peers.                                            *)
(***************************************************************************)

\* tokio's broadcast channel, for this connection's receiver: when full it
\* loses its oldest message, and the receiver learns that it lagged.
Enqueue(s, message) ==
    IF Len(s.queue) < FanoutCapacity
    THEN [s EXCEPT !.queue = Append(@, message)]
    ELSE [s EXCEPT !.queue = Append(Tail(@), message), !.lagged = TRUE]

\* Room::send, Room::close to room r of d, if this connection still listens.
Broadcast(d, r, message) ==
    IF Open(d) /\ session[d].room = r /\ session[d].forward # "done"
    THEN [session EXCEPT ![d] = Enqueue(@, message)]
    ELSE session

\* Room::apply: no update is accepted that takes the document past its limit.
Full(doc, content) == Cardinality(doc) + Cardinality(content) > MaxDocument

\* Another peer of the registered room edits it.
Others(d, u) ==
    /\ u \in Edits[d] \ Made(d)
    /\ ~Full(rooms[d][Registered(d)].doc, {u})
    /\ rooms' = [rooms EXCEPT ![d][Registered(d)].doc = @ \cup {u}]
    /\ session' = Broadcast(d, Registered(d), [kind |-> "other", content |-> {u}])
    /\ UNCHANGED <<connected, wanted, replica, up, down, outbox, events>>

Noise(d) ==
    /\ Happens("noise")
    /\ session' = Broadcast(d, Registered(d), [kind |-> "other", content |-> {}])
    /\ UNCHANGED <<connected, wanted, replica, up, down, outbox, rooms>>

\* rooms.rs discard: the room is forgotten and closed, the document is gone.
Delete(d) ==
    /\ Happens("delete")
    /\ session' = Broadcast(d, Registered(d), [kind |-> "closed", content |-> {}])
    /\ rooms' = [rooms EXCEPT ![d] = Append(@, [doc |-> {}, peers |-> 0])]
    /\ UNCHANGED <<connected, wanted, replica, up, down, outbox>>

(***************************************************************************)
(* The connection's task: frames from the socket.                          *)
(***************************************************************************)

\* The task waits for its sink before it can read on.
Writable == Len(down) < SocketBuffer

\* A frame of d is taken from the socket.
Reads(d, kind) ==
    /\ up # <<>>
    /\ Head(up).doc = d
    /\ Head(up).kind = kind
    /\ Writable
    /\ up' = Tail(up)

\* Connection::join: Rooms::join, a new session and its forwarder.  Inserting
\* it drops an entry that was there, without Room::leave.
JoinedSession(d) == [session EXCEPT ![d] = Opened(Registered(d))]
JoinedRooms(d) == [rooms EXCEPT ![d][Registered(d)].peers = @ + 1]

\* Session::leave and the end of the forwarder.
LeftRooms(closing) ==
    [d \in Documents |->
        IF d \in closing /\ Open(d)
        THEN [rooms[d] EXCEPT ![session[d].room].peers = @ - 1]
        ELSE rooms[d]]

\* Mutant of Authenticate: paused documents take no seat.
AuthenticateUnpaused(d) ==
    /\ Reads(d, "token")
    /\ session[d].at = "closed"
    /\ Cardinality({e \in Documents : Open(e)}) < MaxDocuments
    /\ session' = JoinedSession(d)
    /\ rooms' = JoinedRooms(d)
    /\ UNCHANGED <<connected, wanted, replica, down, outbox, events>>

\* Connection::authenticate, open: a document that is open or paused already
\* stays so; a new one is admitted if the socket has a seat left.
Authenticate(d) ==
    /\ Reads(d, "token")
    /\ IF session[d].at # "closed"
       THEN UNCHANGED <<session, rooms, down>>
       ELSE IF Seats >= MaxDocuments
       THEN /\ down' = Append(down, Denied(d))
            /\ UNCHANGED <<session, rooms>>
       ELSE /\ session' = JoinedSession(d)
            /\ rooms' = JoinedRooms(d)
            /\ UNCHANGED down
    /\ UNCHANGED <<connected, wanted, replica, outbox, events>>

\* The same, when the token is refused, or admit or the load fails.
Deny(d) ==
    /\ Happens("deny")
    /\ Reads(d, "token")
    /\ session[d].at = "closed"
    /\ down' = Append(down, Denied(d))
    /\ UNCHANGED <<connected, wanted, replica, session, outbox, rooms>>

\* The same, when the document is over the plan's limit.
Pause(d) ==
    /\ Happens("pause")
    /\ Reads(d, "token")
    /\ session[d].at = "closed"
    /\ Seats < MaxDocuments
    /\ session' = [session EXCEPT ![d].at = "paused"]
    /\ UNCHANGED <<connected, wanted, replica, down, outbox, rooms>>

\* Connection::relay of a step 1: the answer, and the room's own step 1.
\* Messages for a document that is not open are dropped.
AnswerStep1(d) ==
    /\ Reads(d, "step1")
    /\ down' = IF Open(d)
               THEN down \o <<Update(d, InRoom(d).doc \ Head(up).content),
                              Step1(d, InRoom(d).doc)>>
               ELSE down
    /\ UNCHANGED <<connected, wanted, replica, session, outbox, rooms, events>>

\* Connection::relay of an update, Session::apply, Room::apply: what does not
\* fit the document or its reader is dropped, and the session goes on; what
\* is new to the room is broadcast.
ApplyUpdate(d) ==
    /\ Reads(d, "update")
    /\ LET content == Head(up).content
           delta == content \ InRoom(d).doc
       IN IF ~Open(d) \/ d \in Readable
          THEN UNCHANGED <<session, rooms>>
          ELSE IF Full(InRoom(d).doc, content)
          THEN /\ session' = [session EXCEPT ![d].refused = @ \cup content]
               /\ UNCHANGED rooms
          ELSE IF delta = {}
          THEN UNCHANGED <<session, rooms>>
          ELSE /\ rooms' = [rooms EXCEPT ![d][session[d].room].doc = @ \cup delta]
               /\ session' = Broadcast(d, session[d].room, [kind |-> "own", content |-> delta])
    /\ UNCHANGED <<connected, wanted, replica, down, outbox, events>>

\* Mutant of CloseDocument: the session is dropped without leaving.
CloseWithoutLeaving(d) ==
    /\ Reads(d, "close")
    /\ session' = IF Open(d) THEN [session EXCEPT ![d] = None] ELSE session
    /\ UNCHANGED <<connected, wanted, replica, down, outbox, rooms, events>>

\* Connection::close_document: only an open document is closed.
CloseDocument(d) ==
    /\ Reads(d, "close")
    /\ session' = IF Open(d) THEN [session EXCEPT ![d] = None] ELSE session
    /\ rooms' = LeftRooms({d})
    /\ UNCHANGED <<connected, wanted, replica, down, outbox, events>>

(***************************************************************************)
(* Its timers and its outbox.                                              *)
(***************************************************************************)

\* Mutants of Recheck: the document is joined without a step 1, or without
\* the whole document.
RecheckWithoutStep1(d) ==
    /\ session[d].at = "paused"
    /\ Writable
    /\ session' = JoinedSession(d)
    /\ rooms' = JoinedRooms(d)
    /\ down' = Append(down, Update(d, rooms[d][Registered(d)].doc))
    /\ UNCHANGED <<connected, wanted, replica, up, outbox, events>>

RecheckWithoutDocument(d) ==
    /\ session[d].at = "paused"
    /\ Writable
    /\ session' = JoinedSession(d)
    /\ rooms' = JoinedRooms(d)
    /\ down' = Append(down, Step1(d, rooms[d][Registered(d)].doc))
    /\ UNCHANGED <<connected, wanted, replica, up, outbox, events>>

\* Connection::recheck of a paused document that is admitted now: join it and
\* send the step 1 and the whole document that were dropped.  One that is
\* still paused stays as it is.
Recheck(d) ==
    /\ session[d].at = "paused"
    /\ Writable
    /\ session' = JoinedSession(d)
    /\ rooms' = JoinedRooms(d)
    /\ LET doc == rooms[d][Registered(d)].doc
       IN down' = down \o <<Step1(d, doc), Update(d, doc)>>
    /\ UNCHANGED <<connected, wanted, replica, up, outbox, events>>

\* The end of `run`: every session leaves, the socket closes.
End ==
    /\ connected' = FALSE
    /\ up' = <<>>
    /\ down' = <<>>
    /\ outbox' = <<>>
    /\ session' = [d \in Documents |-> None]
    /\ rooms' = LeftRooms(Documents)

\* Connection::outgoing: a frame, or the end of a socket that lagged.
Outgoing ==
    /\ outbox # <<>>
    /\ Writable
    /\ IF Head(outbox).kind = "lagged"
       THEN End
       ELSE /\ down' = Append(down, Head(outbox))
            /\ outbox' = Tail(outbox)
            /\ UNCHANGED <<connected, up, session, rooms>>
    /\ UNCHANGED <<wanted, replica, events>>

\* Connection::ping: a socket without documents is closed.
Ping ==
    /\ connected
    /\ Seats = 0
    /\ End
    /\ UNCHANGED <<wanted, replica, events>>

\* The peer is gone or dead, a frame is malformed, a document that was paused
\* does not load, or the server shuts down.
Drop ==
    /\ Happens("drop")
    /\ connected
    /\ End
    /\ UNCHANGED <<wanted, replica>>

(***************************************************************************)
(* The forwarders.                                                         *)
(***************************************************************************)

\* recv reports the lag, once.
ForwardLag(d) ==
    /\ session[d].forward = "recv"
    /\ session[d].lagged
    /\ IF Len(outbox) < OutboxCapacity
       THEN /\ outbox' = Append(outbox, Lagged(d))
            /\ session' = [session EXCEPT ![d].lagged = FALSE]
       ELSE /\ session' = [session EXCEPT ![d].lagged = FALSE, ![d].forward = "retry"]
            /\ UNCHANGED outbox
    /\ UNCHANGED <<connected, wanted, replica, up, down, rooms, events>>

\* Mutant of Forward: a full outbox drops the frame.
ForwardDrops(d) ==
    /\ session[d].forward = "recv"
    /\ ~session[d].lagged
    /\ session[d].queue # <<>>
    /\ LET message == Head(session[d].queue)
       IN outbox' = IF message.kind = "other" /\ Len(outbox) < OutboxCapacity
                    THEN Append(outbox, Update(d, message.content)) ELSE outbox
    /\ session' = [session EXCEPT ![d].queue = Tail(@)]
    /\ UNCHANGED <<connected, wanted, replica, up, down, rooms, events>>

\* `forward`: own messages are skipped, others become frames, Closed becomes
\* a refusal; the frame goes to the outbox or the forwarder tries to say that
\* it lagged.
Forward(d) ==
    /\ session[d].forward = "recv"
    /\ ~session[d].lagged
    /\ session[d].queue # <<>>
    /\ LET message == Head(session[d].queue)
           out == IF message.kind = "closed" THEN Denied(d) ELSE Update(d, message.content)
           full == Len(outbox) >= OutboxCapacity
           sends == message.kind # "own"
       IN /\ outbox' = IF sends /\ ~full THEN Append(outbox, out) ELSE outbox
          /\ session' = [session EXCEPT ![d].queue = Tail(@),
                            ![d].forward = IF sends /\ full THEN "retry" ELSE "recv"]
    /\ UNCHANGED <<connected, wanted, replica, up, down, rooms, events>>

\* The forwarder of a full outbox: Lagged if it fits by now, and return, which
\* drops its receiver.
Retry(d) ==
    /\ session[d].forward = "retry"
    /\ outbox' = IF Len(outbox) < OutboxCapacity THEN Append(outbox, Lagged(d)) ELSE outbox
    /\ session' = [session EXCEPT ![d].forward = "done", ![d].queue = <<>>,
                                  ![d].lagged = FALSE]
    /\ UNCHANGED <<connected, wanted, replica, up, down, rooms, events>>

-----------------------------------------------------------------------------
Client ==
    \/ \E d \in Documents : Attach(d) \/ Detach(d) \/ \E u \in Updates : Edit(d, u)
    \/ Connect \/ Receive

Elsewhere ==
    \E d \in Documents : Noise(d) \/ Delete(d) \/ \E u \in Updates : Others(d, u)

Task ==
    \/ \E d \in Documents :
         \/ Authenticate(d) \/ Deny(d) \/ Pause(d) \/ AnswerStep1(d)
         \/ ApplyUpdate(d) \/ CloseDocument(d) \/ Recheck(d)
    \/ Outgoing \/ Ping \/ Drop

Forwarder(d) == ForwardLag(d) \/ Forward(d) \/ Retry(d)

Next == Client \/ Elsewhere \/ Task \/ \E d \in Documents : Forwarder(d)

Spec == Init /\ [][Next]_vars

-----------------------------------------------------------------------------
TypeOK ==
    /\ connected \in BOOLEAN
    /\ wanted \subseteq Documents
    /\ replica \in [Documents -> SUBSET Updates]
    /\ up \in Seq(Frame)
    /\ down \in Seq(Frame)
    /\ session \in [Documents -> SessionState]
    /\ outbox \in Seq(Frame)
    /\ Len(outbox) <= OutboxCapacity
    /\ rooms \in [Documents -> Seq(RoomState)]
    /\ \A d \in Documents : /\ rooms[d] # <<>>
                            /\ Open(d) => session[d].room \in DOMAIN rooms[d]
                            /\ Len(session[d].queue) <= FanoutCapacity
    /\ Seats <= MaxDocuments
    /\ events \in 0..MaxEvents

\* A room counts this connection as a peer exactly while it has the document
\* open there, whatever order tokens, closes, pauses, rechecks, deletions and
\* disconnections come in: a miscount would keep the room loaded for ever, or
\* unload it under the session (hocuspocus.rs open, join, close_document,
\* recheck, run; room.rs join, leave).
PeersAreOpen ==
    \A d \in Documents : \A r \in DOMAIN rooms[d] :
        rooms[d][r].peers = IF Open(d) /\ session[d].room = r THEN 1 ELSE 0

\* Updates of d that frames carry.
Carried(d, frames) ==
    UNION {frames[i].content : i \in {j \in DOMAIN frames :
                                        frames[j].doc = d /\ frames[j].kind = "update"}}
Says(d, kind, frames) == \E i \in DOMAIN frames : frames[i].doc = d /\ frames[i].kind = kind
ToldToReconnect == \E i \in DOMAIN outbox : outbox[i].kind = "lagged"

\* What the client will get of d without asking again.
Coming(d) ==
    replica[d] \cup Carried(d, down) \cup Carried(d, outbox)
        \cup UNION {session[d].queue[i].content :
                      i \in {j \in DOMAIN session[d].queue : session[d].queue[j].kind # "own"}}

\* An attached document that is open and whose forwarder still runs misses
\* nothing: every update of its room is at the client, or on its way through
\* the receiver, the outbox and the socket, or will be in the answer to its
\* step 1; or the socket is about to be closed because it lagged.  A document
\* closed and opened again, paused and resumed, or paused and closed loses
\* nothing either (hocuspocus.rs forward, recheck, outgoing, close_document).
NothingMissed ==
    \A d \in wanted : (Open(d) /\ session[d].forward = "recv") =>
        \/ session[d].lagged \/ ToldToReconnect
        \/ Says(d, "step1", up)
        \/ InRoom(d).doc \subseteq Coming(d)

\* Until somebody deletes it, what the client wrote in a document that is open
\* is in its room or on its way there, or will be in its answer to the room's
\* step 1; also what it wrote while the document was paused or the socket was
\* closed.  The client was told of the rest, since the session began, that the
\* document is full (hocuspocus.rs relay, recheck; session.rs apply; room.rs
\* apply).
NothingForgotten ==
    \A d \in wanted \ Readable : (Open(d) /\ Registered(d) = 1) =>
        \/ Says(d, "step1", down) \/ Says(d, "step1", up)
        \/ replica[d] \subseteq InRoom(d).doc \cup Carried(d, up) \cup session[d].refused

-----------------------------------------------------------------------------
(***************************************************************************)
(* Liveness.  The client reconnects and reads what it is sent; the task's  *)
(* select! and the forwarders keep running; a paused document is rechecked *)
(* and, events being finite, admitted.  Nobody owes edits.                 *)
(***************************************************************************)
Fairness ==
    /\ WF_vars(Connect)
    /\ WF_vars(Receive)
    /\ WF_vars(Outgoing)
    /\ \A d \in Documents :
        /\ WF_vars(Authenticate(d))
        /\ WF_vars(AnswerStep1(d))
        /\ WF_vars(ApplyUpdate(d))
        /\ WF_vars(CloseDocument(d))
        /\ SF_vars(Recheck(d))
        /\ WF_vars(Forwarder(d))

FairSpec == Spec /\ Fairness

\* An attached document is refused, its forwarder has stopped, or in the end
\* the client holds all its room does and, unless somebody deleted it, the
\* room all the client does but for what the client was told does not fit.
Refused(d) == session[d].at = "closed"
Converges ==
    \A d \in Documents \ Readable :
        <>[](\/ d \notin wanted
             \/ Refused(d)
             \/ session[d].forward = "done"
             \/ /\ Open(d)
                /\ InRoom(d).doc \subseteq replica[d]
                /\ Registered(d) = 1 => replica[d] \subseteq InRoom(d).doc \cup session[d].refused)

-----------------------------------------------------------------------------
(* What a comment says and the code does not do.                           *)

\* A socket whose outbox is full "is disconnected as too slow" (OUTBOX).
NoSilentGap ==
    \A d \in wanted : Open(d) =>
        \/ session[d].lagged \/ session[d].forward = "retry" \/ ToldToReconnect
        \/ Says(d, "step1", up)
        \/ InRoom(d).doc \subseteq Coming(d)

\* A deleted document's room disconnects its peers (room.rs close): once told,
\* a client's session is out of it.
DeletionDisconnects ==
    \A d \in Documents : (Open(d) /\ session[d].room # Registered(d)) ~>
                         ~(Open(d) /\ session[d].room # Registered(d))

\* A socket's documents are those its client has opened and not closed: it is
\* told "too many documents" only if it has that many (MAX_DOCUMENTS).
SeatsAreWanted ==
    \A d \in Documents : session[d].at # "closed" =>
        d \in wanted \/ Says(d, "close", up)
=============================================================================
