------------------------------ MODULE EventHub ------------------------------
(***************************************************************************)
(* EventHub and SSESession of src/sovereign/eventhub.py, with one room and *)
(* one user.  Senders are the threads that broadcast, or that take         *)
(* sessions out of the hub; every stream and every WebSocket has the       *)
(* worker thread that serves it.  hub.lock covers the indexes only: a step *)
(* is one locked section, or one operation on a session between them.      *)
(*                                                                         *)
(* A WebSocket is its closed flag and its send queue: WebSocketSession     *)
(* closes under a lock of its own, in one step here.                       *)
(***************************************************************************)
EXTENDS Naturals, Sequences

CONSTANTS
  Senders,   \* application threads
  Streams,   \* SSESession objects, and their workers
  Sockets,   \* WebSocketConnection objects, and their workers
  MaxQueue,  \* max_queue, websocket_queue_size
  Event,
  None,      \* the None that ends a queue
  Nobody

ASSUME HubAssumption ==
  /\ MaxQueue \in Nat \ {0}
  /\ Senders \cap (Streams \cup Sockets) = {} /\ Streams \cap Sockets = {}
  /\ Nobody \notin Streams \cup Sockets
  /\ Event # None

Conns == Streams \cup Sockets
Threads == Senders \cup Conns

VARIABLES
  room, sessions, users,  \* the connections in each index of the hub
  closed, queue,          \* of each connection
  pc,                     \* where each thread is
  at,                     \* the connection it sends to, closes or unregisters
  back,                   \* where it goes on after close()
  todo, dead,             \* targets and dead of _send_many
  dropped                 \* history: <<c, b>> when an event of b missed c

indexes == <<room, sessions, users>>
conns == <<closed, queue>>
loops == <<todo, dead>>
threads == <<pc, at, back>>
vars == <<indexes, conns, threads, loops, dropped>>

Init ==
  /\ room = {} /\ sessions = {} /\ users = {}
  /\ closed = [c \in Conns |-> FALSE]
  /\ queue = [c \in Conns |-> <<>>]
  /\ pc = [t \in Threads |-> IF t \in Senders THEN "idle" ELSE "new"]
  /\ at = [t \in Threads |-> IF t \in Senders THEN Nobody ELSE t]
  /\ back = [t \in Threads |-> IF t \in Senders THEN "visit" ELSE "ended"]
  /\ todo = [b \in Senders |-> {}]
  /\ dead = [b \in Senders |-> {}]
  /\ dropped = {}

Goto(t, p) == pc' = [pc EXCEPT ![t] = p] /\ UNCHANGED <<at, back>>

(* Thread t turns to connection c at p, and afterwards goes on at q.       *)
Turn(t, c, p, q) ==
  /\ pc' = [pc EXCEPT ![t] = p]
  /\ at' = [at EXCEPT ![t] = c]
  /\ back' = [back EXCEPT ![t] = q]

(* The sender is done with a connection and goes on with its loop.         *)
Resume(b) == Turn(b, Nobody, "visit", "visit")

Full(c) == Len(queue[c]) = MaxQueue

-----------------------------------------------------------------------------
(* The worker of a connection: sse(), or a handler that joins its socket.  *)

(* register() in join().                                                   *)
Register(c) ==
  /\ pc[c] = "new"
  /\ sessions' = sessions \cup {c}
  /\ users' = users \cup {c}
  /\ Goto(c, "join")
  /\ UNCHANGED <<room, conns, loops, dropped>>

(* The second locked section of join().                                    *)
Join(c) ==
  /\ pc[c] = "join"
  /\ room' = room \cup {c}
  /\ Goto(c, IF c \in Streams THEN "again" ELSE "open")
  /\ UNCHANGED <<sessions, users, conns, loops, dropped>>

(* sse() registers its session once more, with the presence.               *)
RegisterAgain(s) ==
  /\ pc[s] = "again"
  /\ sessions' = sessions \cup {s}
  /\ users' = users \cup {s}
  /\ Goto(s, "response")
  /\ UNCHANGED <<room, conns, loops, dropped>>

(* The first chunk is asked for, or the headers could not be sent: then    *)
(* the generator never began and its finally clause never runs.            *)
StartStream(s) ==
  /\ pc[s] = "response"
  /\ Goto(s, "loop") \/ Goto(s, "abandoned")
  /\ UNCHANGED <<indexes, conns, loops, dropped>>

(* Mutant: only None ends the stream.                                      *)
LoopCheckForever(s) ==
  /\ pc[s] = "loop"
  /\ Goto(s, "get")
  /\ UNCHANGED <<indexes, conns, loops, dropped>>

LoopCheck(s) ==
  /\ pc[s] = "loop"
  /\ Goto(s, IF closed[s] THEN "unregister" ELSE "get")
  /\ UNCHANGED <<indexes, conns, loops, dropped>>

(* queue.get(): an item, None, or a heartbeat after the timeout.           *)
Get(s) ==
  /\ pc[s] = "get"
  /\ \/ /\ queue[s] # <<>>
        /\ queue' = [queue EXCEPT ![s] = Tail(@)]
        /\ Goto(s, IF Head(queue[s]) = None THEN "unregister" ELSE "write")
     \/ queue[s] = <<>> /\ Goto(s, "write") /\ UNCHANGED queue
  /\ UNCHANGED <<indexes, closed, loops, dropped>>

(* The chunk is sent, or sendall raises and the generator is closed.       *)
Write(s) ==
  /\ pc[s] = "write"
  /\ Goto(s, "loop") \/ Goto(s, "unregister")
  /\ UNCHANGED <<indexes, conns, loops, dropped>>

(* A WebSocket handler returns, with an unregister() or without.           *)
HandlerEnds(c) ==
  /\ pc[c] = "open"
  /\ Goto(c, "unregister") \/ Goto(c, "abandoned")
  /\ UNCHANGED <<indexes, conns, loops, dropped>>

(* _writer_loop sends a frame.                                             *)
WriterSends(c) ==
  /\ ~closed[c] /\ queue[c] # <<>>
  /\ queue' = [queue EXCEPT ![c] = Tail(@)]
  /\ UNCHANGED <<indexes, closed, threads, loops, dropped>>

(* recv, the heartbeat, the handler or the writer finds the socket gone.   *)
SocketCloses(c) ==
  /\ ~closed[c] /\ pc[c] # "new"
  /\ closed' = [closed EXCEPT ![c] = TRUE]
  /\ UNCHANGED <<indexes, queue, threads, loops, dropped>>

-----------------------------------------------------------------------------
(* Senders.                                                                *)

(* The snapshot of broadcast_event, or of send_user.                       *)
Broadcast(b) ==
  /\ pc[b] = "idle"
  /\ \E targets \in {room, users} : todo' = [todo EXCEPT ![b] = targets]
  /\ Goto(b, "visit")
  /\ UNCHANGED <<indexes, conns, dead, dropped>>

(* The application ends a session: unregister() on one of user_sessions(). *)
Kick(b) ==
  /\ pc[b] = "idle"
  /\ \E c \in users : dead' = [dead EXCEPT ![b] = {c}]
  /\ Goto(b, "collect")
  /\ UNCHANGED <<indexes, conns, todo, dropped>>

Leave(b) ==
  /\ pc[b] = "idle"
  /\ \E c \in room : room' = room \ {c}
  /\ UNCHANGED <<sessions, users, conns, threads, loops, dropped>>

(* Mutant: a closed connection is passed over, and stays.                  *)
VisitOnlyOpen(b) ==
  /\ pc[b] = "visit"
  /\ \/ \E c \in todo[b] :
          /\ todo' = [todo EXCEPT ![b] = @ \ {c}]
          /\ IF closed[c] THEN UNCHANGED threads ELSE Turn(b, c, "send", "visit")
     \/ todo[b] = {} /\ Goto(b, "collect") /\ UNCHANGED todo
  /\ UNCHANGED <<indexes, conns, dead, dropped>>

(* The loop of _send_many.  The closed flag of a WebSocketConnection is a  *)
(* copy made when it was still open.                                       *)
Visit(b) ==
  /\ pc[b] = "visit"
  /\ \/ \E c \in todo[b] :
          /\ todo' = [todo EXCEPT ![b] = @ \ {c}]
          /\ IF c \in Streams /\ closed[c]
             THEN dead' = [dead EXCEPT ![b] = @ \cup {c}] /\ UNCHANGED threads
             ELSE Turn(b, c, "send", "visit") /\ UNCHANGED dead
     \/ todo[b] = {} /\ Goto(b, "collect") /\ UNCHANGED loops
  /\ UNCHANGED <<indexes, conns, dropped>>

(* send_event did not queue: a socket raises, a stream returns.            *)
Miss(b) ==
  /\ dropped' = dropped \cup {<<at[b], b>>}
  /\ dead' = IF at[b] \in Sockets THEN [dead EXCEPT ![b] = @ \cup {at[b]}] ELSE dead
  /\ UNCHANGED <<indexes, queue, todo>>

SendCheck(b) ==
  /\ pc[b] = "send"
  /\ IF closed[at[b]]
     THEN Miss(b) /\ Resume(b) /\ UNCHANGED closed
     ELSE Goto(b, "put") /\ UNCHANGED <<indexes, conns, loops, dropped>>

Put(b) ==
  /\ pc[b] = "put" /\ ~Full(at[b])
  /\ queue' = [queue EXCEPT ![at[b]] = Append(@, Event)]
  /\ Resume(b)
  /\ UNCHANGED <<indexes, closed, loops, dropped>>

(* Mutant: a full queue loses the event and nothing else.                  *)
PutFullIgnored(b) ==
  /\ pc[b] = "put" /\ Full(at[b])
  /\ Miss(b)
  /\ Resume(b) /\ UNCHANGED closed

(* Too slow a client: the session is closed.                               *)
PutFull(b) ==
  /\ pc[b] = "put" /\ Full(at[b])
  /\ Miss(b)
  /\ IF at[b] \in Streams
     THEN Goto(b, "close") /\ UNCHANGED closed
     ELSE Resume(b) /\ closed' = [closed EXCEPT ![at[b]] = TRUE]

(* The connections found dead are unregistered one by one.                 *)
Collect(b) ==
  /\ pc[b] = "collect"
  /\ \/ \E c \in dead[b] :
          /\ dead' = [dead EXCEPT ![b] = @ \ {c}]
          /\ Turn(b, c, "unregister", "collect")
     \/ dead[b] = {} /\ Turn(b, Nobody, "idle", "visit") /\ UNCHANGED dead
  /\ UNCHANGED <<indexes, conns, todo, dropped>>

-----------------------------------------------------------------------------
(* unregister() and SSESession.close(), in whatever thread calls them.     *)

(* Mutant: the connection is closed only if it was still registered.       *)
UnregisterOnce(t) ==
  /\ pc[t] = "unregister"
  /\ room' = room \ {at[t]}
  /\ sessions' = sessions \ {at[t]}
  /\ users' = users \ {at[t]}
  /\ Goto(t, IF at[t] \in room THEN "close" ELSE back[t])
  /\ UNCHANGED <<conns, loops, dropped>>

Unregister(t) ==
  /\ pc[t] = "unregister"
  /\ room' = room \ {at[t]}
  /\ sessions' = sessions \ {at[t]}
  /\ users' = users \ {at[t]}
  /\ Goto(t, "close")
  /\ UNCHANGED <<conns, loops, dropped>>

CloseCheck(t) ==
  /\ pc[t] = "close"
  /\ Goto(t, IF closed[at[t]] THEN back[t] ELSE "close_set")
  /\ UNCHANGED <<indexes, conns, loops, dropped>>

CloseSet(t) ==
  /\ pc[t] = "close_set"
  /\ closed' = [closed EXCEPT ![at[t]] = TRUE]
  /\ Goto(t, IF at[t] \in Streams THEN "close_put" ELSE back[t])
  /\ UNCHANGED <<indexes, queue, loops, dropped>>

(* A full queue swallows the None.                                         *)
ClosePut(t) ==
  /\ pc[t] = "close_put"
  /\ queue' = IF Full(at[t]) THEN queue ELSE [queue EXCEPT ![at[t]] = Append(@, None)]
  /\ Goto(t, back[t])
  /\ UNCHANGED <<indexes, closed, loops, dropped>>

-----------------------------------------------------------------------------
Ending(t) == Unregister(t) \/ CloseCheck(t) \/ CloseSet(t) \/ ClosePut(t)

Serve(s) ==
  \/ Register(s) \/ Join(s) \/ RegisterAgain(s) \/ StartStream(s)
  \/ LoopCheck(s) \/ Get(s) \/ Write(s)

Send(b) == Visit(b) \/ SendCheck(b) \/ Put(b) \/ PutFull(b) \/ Collect(b)

Next ==
  \/ \E s \in Streams : Serve(s)
  \/ \E c \in Sockets :
       Register(c) \/ Join(c) \/ HandlerEnds(c) \/ WriterSends(c) \/ SocketCloses(c)
  \/ \E b \in Senders : Broadcast(b) \/ Kick(b) \/ Leave(b) \/ Send(b)
  \/ \E t \in Threads : Ending(t)

Spec == Init /\ [][Next]_vars

(* Every thread that is not waiting for something to happen is scheduled;  *)
(* get() has a timeout and so has the client's socket.                     *)
FairSpec ==
  /\ Spec
  /\ \A s \in Streams : WF_vars(Serve(s))
  /\ \A b \in Senders : WF_vars(Send(b))
  /\ \A t \in Threads : WF_vars(Ending(t))

-----------------------------------------------------------------------------
(* Properties.                                                             *)

(* The hub holds connections, a queue never outgrows its maxsize, and the  *)
(* loops of _send_many and unregister stay where their code is.            *)
TypeOK ==
  /\ {room, sessions, users} \subseteq SUBSET Conns
  /\ closed \in [Conns -> BOOLEAN]
  /\ queue \in [Conns -> Seq({Event, None})] /\ \A c \in Conns : Len(queue[c]) <= MaxQueue
  /\ \A b \in Senders :
       /\ pc[b] \in {"idle", "visit", "send", "put", "collect",
                     "unregister", "close", "close_set", "close_put"}
       /\ at[b] \in Conns \cup {Nobody} /\ back[b] \in {"visit", "collect"}
       /\ at[b] = Nobody => pc[b] \in {"idle", "visit", "collect"}
  /\ \A c \in Conns :
       /\ pc[c] \in {"new", "join", "again", "open", "response", "loop", "get", "write",
                     "abandoned", "unregister", "close", "close_set", "close_put", "ended"}
       /\ at[c] = c /\ back[c] = "ended"
  /\ todo \in [Senders -> SUBSET Conns] /\ dead \in [Senders -> SUBSET Conns]
  /\ dropped \subseteq Conns \X Senders

(* Some thread has yet to reach the assignment closed = True for c.        *)
Closing(c) == \E t \in Threads : at[t] = c /\ pc[t] \in {"close", "close_set"}

(* send_event drops an event only when the connection is closed for it: a  *)
(* subscriber that lost one does not silently stay subscribed.             *)
LossClosesConnection ==
  \A c \in Conns, b \in Senders : <<c, b>> \in dropped => closed[c] \/ Closing(c)

(* Once an event of a sender missed a connection, no later event of that   *)
(* sender is queued for it: per sender a subscriber sees a prefix of what  *)
(* was sent.                                                               *)
NoGapPerSender ==
  [][\A b \in Senders : pc[b] = "put" /\ queue' # queue /\ pc'[b] = "visit"
                          => <<at[b], b>> \notin dropped]_vars

(* close() never leaves the stream's reader in get() on an empty queue:    *)
(* the None is there, or on its way, or the put failed on a full queue.    *)
ReaderIsWoken ==
  \A s \in Streams :
    closed[s] /\ pc[s] = "get" /\ queue[s] = <<>>
      => \E t \in Threads : at[t] = s /\ pc[t] = "close_put"

(* When the worker has unregistered its connection, no index holds it:     *)
(* none of the threads that met it meanwhile puts it back.                 *)
EndedIsForgotten ==
  \A c \in Conns : pc[c] = "ended" => c \notin room \cup sessions \cup users

(* A connection that was unregistered between the two sections of join()   *)
(* comes into the room without being registered: it is then closed, or     *)
(* about to be, so that the next broadcast takes it out.                   *)
MembersAccounted ==
  /\ users \subseteq sessions
  /\ \A c \in room \ sessions : closed[c] \/ Closing(c)

(* A broadcast that has a closed connection among its targets takes it out *)
(* of the room, whatever the copied closed flag says.                      *)
ClosedIsCollected ==
  \A b \in Senders, c \in Conns : c \in todo[b] /\ closed[c] ~> c \notin room

(* A stream that was closed comes to its end and leaves the hub.           *)
ClosedStreamEnds ==
  \A s \in Streams :
    closed[s] /\ pc[s] \in {"loop", "get", "write"} ~> pc[s] = "ended"
=============================================================================
