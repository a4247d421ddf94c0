-------------------------- MODULE WebSocketSession --------------------------
(***************************************************************************)
(* One WebSocketSession of src/sovereign/websocket.py: the handler that    *)
(* receives and sends, the heartbeat, the writer behind the bounded send   *)
(* queue, and the client.  A recv() may time out at any moment, and a      *)
(* sendall() too: the length of their timeouts is left open.               *)
(*                                                                         *)
(* Frames are their kinds.  A ping payload is random, so that a pong is    *)
(* either for the newest ping ("pong") or for one before it ("oldpong").   *)
(***************************************************************************)
EXTENDS Naturals, Sequences

CONSTANTS
  Interval,     \* heartbeat_interval
  Timeout,      \* heartbeat_timeout
  QueueSize,    \* websocket_queue_size
  MaxInbox      \* bound: frames the client has sent and nobody has read

ASSUME SessionAssumption ==
  /\ Interval \in Nat \ {0} /\ Timeout \in Nat
  /\ QueueSize \in Nat \ {0} /\ MaxInbox \in Nat \ {0}

VARIABLES
  closed, send_queue,
  pending,      \* _pending_ping is not None
  last_pong,    \* its age, counted up to Timeout + 1
  lock,         \* the holder of _close_lock
  pc, frame,    \* of each thread that sends: where it is, and its frame
  writer, item, \* the writer thread and the frame it has taken
  sleep,        \* seconds until the heartbeat wakes
  shut,         \* the socket has been shut down or closed
  peer, owed, inbox, \* the client: alive, the ping it has seen, what it has sent
  answered,     \* history: recv() has taken a pong for the newest ping
  late,         \* history: frames a thread has queued after closed was set
  lost          \* history: close() found no room for its None

Threads == {"handler", "heartbeat"}
Nobody == "nobody"
Alive == peer = "here" /\ ~shut
Older(f) == CASE f = "ping" -> "oldping" [] f = "pong" -> "oldpong" [] OTHER -> f

shared == <<closed, send_queue, pending, last_pong, lock>>
client == <<peer, owed, inbox>>
history == <<answered, late, lost>>
sessionVars == <<shared, sleep, client, history, pc, frame, writer, item, shut>>

SessionInit ==
  /\ closed = FALSE /\ send_queue = <<>> /\ pending = FALSE /\ last_pong = 0
  /\ lock = Nobody
  /\ pc = [handler |-> "app", heartbeat |-> "sleep"]
  /\ frame = [t \in Threads |-> "data"]
  /\ writer = "get" /\ item = "data" /\ sleep = Interval
  /\ shut = FALSE
  /\ peer = "here" /\ owed = "none" /\ inbox = <<>>
  /\ answered = FALSE
  /\ late = [t \in Threads |-> 0] /\ lost = FALSE

Goto(t, p) == pc' = [pc EXCEPT ![t] = p]
NoFrame(t) == frame' = [frame EXCEPT ![t] = "data"]

(* The handler is done: the server shuts the socket down and closes it.    *)
Leave == Goto("handler", "left") /\ shut' = TRUE

(* WebSocketClosed reaches a thread.                                       *)
Raised(t) ==
  CASE t = "handler"   -> Leave
    [] t = "heartbeat" -> Goto(t, "lock") /\ UNCHANGED shut

(* A thread goes to _send_frame, or calls ping(), which remembers a new    *)
(* payload first: every ping and pong under way is then an old one.        *)
SendFrame(t, f) ==
  /\ Goto(t, "check") /\ frame' = [frame EXCEPT ![t] = f]
  /\ UNCHANGED <<send_queue, pending, item, owed, inbox, answered>>

Ping(t) ==
  /\ Goto(t, "check")
  /\ frame' = [u \in Threads |-> IF u = t THEN "ping" ELSE Older(frame[u])]
  /\ pending' = TRUE
  /\ send_queue' = [i \in DOMAIN send_queue |-> Older(send_queue[i])]
  /\ inbox' = [i \in DOMAIN inbox |-> Older(inbox[i])]
  /\ item' = Older(item) /\ owed' = Older(owed)
  /\ answered' = FALSE

-----------------------------------------------------------------------------
(* _enqueue_frame: the test of closed and the put are two steps.           *)

(* What becomes of a thread whose frame is in the queue.                   *)
Sent(t) ==
  CASE t = "handler"   -> Goto(t, IF frame[t] = "reply" THEN "recv" ELSE "app")
                            /\ UNCHANGED sleep
    [] t = "heartbeat" -> IF closed THEN Goto(t, "done") /\ UNCHANGED sleep
                          ELSE Goto(t, "sleep") /\ sleep' = Interval

(* Mutant: the socket is asked instead of the session.                     *)
CheckSocket(t) ==
  /\ pc[t] = "check"
  /\ IF shut THEN Raised(t) /\ NoFrame(t) ELSE Goto(t, "put") /\ UNCHANGED <<shut, frame>>
  /\ UNCHANGED <<shared, sleep, client, history, writer, item>>

Check(t) ==
  /\ pc[t] = "check"
  /\ IF closed THEN Raised(t) /\ NoFrame(t) ELSE Goto(t, "put") /\ UNCHANGED <<shut, frame>>
  /\ UNCHANGED <<shared, sleep, client, history, writer, item>>

Put(t) ==
  /\ pc[t] = "put" /\ Len(send_queue) < QueueSize
  /\ send_queue' = Append(send_queue, IF frame[t] = "reply" THEN "data" ELSE frame[t])
  /\ late' = IF closed THEN [late EXCEPT ![t] = @ + 1] ELSE late
  /\ Sent(t) /\ NoFrame(t)
  /\ UNCHANGED <<closed, pending, last_pong, lock, client, answered, lost, writer, item, shut>>

(* queue.Full: close(1008) and raise.                                      *)
PutFull(t) ==
  /\ pc[t] = "put" /\ Len(send_queue) = QueueSize
  /\ Goto(t, "lock") /\ NoFrame(t)
  /\ UNCHANGED <<shared, sleep, client, history, writer, item, shut>>

-----------------------------------------------------------------------------
(* close(), under _close_lock.                                             *)

(* The caller goes on; every caller of close() in this module then ends    *)
(* what it was doing.                                                      *)
AfterClose(t) ==
  CASE t = "handler"   -> Leave
    [] t = "heartbeat" -> Goto(t, "done") /\ UNCHANGED shut

Close(t) ==
  /\ pc[t] = "lock" /\ lock = Nobody
  /\ IF closed
     THEN AfterClose(t) /\ UNCHANGED <<closed, lock>>
     ELSE closed' = TRUE /\ lock' = t /\ Goto(t, "frame") /\ UNCHANGED shut
  /\ UNCHANGED <<send_queue, pending, last_pong, sleep, client, history, frame,
                 writer, item>>

PutClose(t) ==
  /\ pc[t] = "frame"
  /\ send_queue' = IF Len(send_queue) < QueueSize THEN Append(send_queue, "close")
                                                  ELSE send_queue
  /\ Goto(t, "none")
  /\ UNCHANGED <<closed, pending, last_pong, lock, sleep, client, history, frame,
                 writer, item, shut>>

PutNone(t) ==
  /\ pc[t] = "none"
  /\ send_queue' = IF Len(send_queue) < QueueSize THEN Append(send_queue, "None")
                                                  ELSE send_queue
  /\ lost' = (Len(send_queue) = QueueSize)
  /\ Goto(t, "shutdown")
  /\ UNCHANGED <<closed, pending, last_pong, lock, sleep, client, answered, late, frame, writer, item, shut>>

Shutdown(t) ==
  /\ pc[t] = "shutdown"
  /\ shut' = TRUE /\ lock' = Nobody
  /\ Goto(t, IF t = "handler" THEN "left" ELSE "done")
  /\ UNCHANGED <<closed, send_queue, pending, last_pong, sleep, client, history,
                 frame, writer, item>>

-----------------------------------------------------------------------------
(* The handler: recv() and what the application does between two of them.  *)

App ==
  /\ pc["handler"] = "app"
  /\ \/ Goto("handler", "recv") /\ UNCHANGED <<shut, frame, send_queue, pending, item, owed, inbox, answered>>
     \/ Goto("handler", "lock") /\ UNCHANGED <<shut, frame, send_queue, pending, item, owed, inbox, answered>>
     \/ Leave /\ UNCHANGED <<frame, send_queue, pending, item, owed, inbox, answered>>
     \/ SendFrame("handler", "data") /\ UNCHANGED shut
     \/ Ping("handler") /\ UNCHANGED shut
  /\ UNCHANGED <<closed, last_pong, lock, sleep, peer, late, lost, writer>>

(* A frame has been read.  Close frames (unmasked and oversized ones are   *)
(* the same) close the session; a ping is answered; a pong counts when no  *)
(* ping is pending or when it carries the payload of the newest.           *)
TakeFrame ==
  /\ pc["handler"] = "recv" /\ inbox # <<>>
  /\ inbox' = Tail(inbox)
  /\ frame' = [frame EXCEPT !["handler"] = IF Head(inbox) = "ask" THEN "reply" ELSE "data"]
  /\ answered' = (answered \/ Head(inbox) = "pong")
  /\ Goto("handler", CASE Head(inbox) = "data" -> "app"
                       [] Head(inbox) = "ask" -> "check"
                       [] Head(inbox) = "close" -> "lock"
                       [] Head(inbox) \in {"pong", "oldpong"} ->
                            IF pending => Head(inbox) = "pong" THEN "pong" ELSE "recv")
  /\ UNCHANGED <<shared, sleep, peer, owed, late, lost, writer, item, shut>>

(* The pong is recorded in two assignments.                                *)
TakePong ==
  /\ pc["handler"] = "pong"
  /\ last_pong' = 0
  /\ Goto("handler", "clear")
  /\ UNCHANGED <<closed, send_queue, pending, lock, sleep, client, history, frame,
                 writer, item, shut>>

(* Mutant: the ping stays pending.                                         *)
PongNotCleared ==
  /\ pc["handler"] = "clear"
  /\ Goto("handler", "recv")
  /\ UNCHANGED <<shared, sleep, client, history, frame, writer, item, shut>>

(* It is whatever ping is pending by now that is forgotten.                *)
ClearPending ==
  /\ pc["handler"] = "clear"
  /\ pending' = FALSE
  /\ Goto("handler", "recv")
  /\ UNCHANGED <<closed, send_queue, last_pong, lock, sleep, client, history, frame, writer, item, shut>>

(* The end of the stream, or after a time the timeout of the socket.       *)
RecvEnds ==
  /\ pc["handler"] = "recv" /\ inbox = <<>>
  /\ Leave
  /\ UNCHANGED <<shared, sleep, client, history, frame, writer, item>>

-----------------------------------------------------------------------------
(* heartbeat() and the thread of the hub.                                  *)

(* Mutant: a ping is sent and nobody looks for its pong.                   *)
BeatPingOnly ==
  /\ pc["heartbeat"] = "sleep" /\ sleep = 0
  /\ IF closed THEN /\ Goto("heartbeat", "done")
                    /\ UNCHANGED <<frame, send_queue, pending, item, owed, inbox, answered>>
               ELSE Ping("heartbeat")
  /\ UNCHANGED <<closed, last_pong, lock, sleep, peer, late, lost, writer, shut>>

Beat ==
  /\ pc["heartbeat"] = "sleep" /\ sleep = 0
  /\ IF closed \/ (pending /\ last_pong > Timeout)
     THEN /\ Goto("heartbeat", IF closed THEN "done" ELSE "lock")
          /\ UNCHANGED <<frame, send_queue, pending, item, owed, inbox, answered>>
     ELSE Ping("heartbeat")
  /\ UNCHANGED <<closed, last_pong, lock, sleep, peer, late, lost, writer, shut>>

-----------------------------------------------------------------------------
(* _writer_loop().                                                         *)

WriterGets ==
  /\ writer = "get" /\ send_queue # <<>>
  /\ send_queue' = Tail(send_queue)
  /\ IF Head(send_queue) = "None"
     THEN writer' = "done" /\ UNCHANGED item
     ELSE writer' = "send" /\ item' = Head(send_queue)
  /\ UNCHANGED <<closed, pending, last_pong, lock, sleep, client, answered, late, lost, pc,
                 frame, shut>>

(* sendall() ends well, into the socket buffer at least.                   *)
WriterSends ==
  /\ writer = "send" /\ ~shut
  /\ writer' = "get" /\ item' = "data"
  /\ owed' = IF peer = "here" /\ item \in {"ping", "oldping"} THEN item ELSE owed
  /\ UNCHANGED <<shared, sleep, peer, inbox, history, pc, frame, shut>>

(* It times out, or the connection is gone: the session closes without a   *)
(* word.                                                                   *)
WriterFails ==
  /\ writer = "send"
  /\ writer' = "done" /\ closed' = TRUE
  /\ UNCHANGED <<send_queue, pending, last_pong, lock, sleep, client, history, pc, frame,
                 item, shut>>

-----------------------------------------------------------------------------
(* The client, and time.                                                   *)

PeerSends ==
  /\ Alive /\ Len(inbox) < MaxInbox
  /\ \E f \in {"data", "ask", "close"} : inbox' = Append(inbox, f)
  /\ UNCHANGED <<shared, sleep, peer, owed, history, pc, frame, writer, item, shut>>

PeerAnswers ==
  /\ Alive /\ Len(inbox) < MaxInbox /\ owed # "none"
  /\ inbox' = Append(inbox, IF owed = "ping" THEN "pong" ELSE "oldpong")
  /\ owed' = "none"
  /\ UNCHANGED <<shared, sleep, peer, history, pc, frame, writer, item, shut>>

PeerStops ==
  /\ peer = "here" /\ peer' = "silent" /\ owed' = "none"
  /\ UNCHANGED <<shared, sleep, inbox, history, pc, frame, writer, item, shut>>

Tick ==
  /\ sleep' = IF sleep > 0 THEN sleep - 1 ELSE 0
  /\ last_pong' = IF last_pong <= Timeout THEN last_pong + 1 ELSE last_pong
  /\ UNCHANGED <<closed, send_queue, pending, lock, client, history,
                 pc, frame, writer, item, shut>>

Sends(t) == Check(t) \/ Put(t) \/ PutFull(t)
Closes(t) == Close(t) \/ PutClose(t) \/ PutNone(t) \/ Shutdown(t)
Recv == TakeFrame \/ TakePong \/ ClearPending \/ RecvEnds
Write == WriterGets \/ WriterSends \/ WriterFails

SessionNext ==
  \/ \E t \in Threads : Sends(t) \/ Closes(t)
  \/ App \/ Recv \/ Beat \/ Write
  \/ PeerSends \/ PeerAnswers \/ PeerStops \/ Tick

SessionSpec == SessionInit /\ [][SessionNext]_sessionVars

(* Threads are scheduled, a send ends or times out, and time passes.  The  *)
(* application, the hub and the client need not do anything.               *)
FairSessionSpec ==
  /\ SessionSpec /\ WF_sessionVars(Recv) /\ WF_sessionVars(Beat) /\ WF_sessionVars(Write) /\ WF_sessionVars(Tick)
  /\ \A t \in Threads : WF_sessionVars(Sends(t)) /\ WF_sessionVars(Closes(t))

-----------------------------------------------------------------------------
(* Properties.                                                             *)

(* The heartbeat gives a client up only when recv() has taken no pong for  *)
(* the newest ping, whichever thread sent that and whatever has been sent  *)
(* and received since - or is just then recording one, which the beat does *)
(* not see yet.                                                            *)
HeartbeatJustified ==
  [][pc["heartbeat"] = "sleep" /\ pc'["heartbeat"] = "lock" =>
       ~answered \/ pc["handler"] \in {"pong", "clear"}]_sessionVars

(* Two threads may call close(): one close frame and one None are queued.  *)
(* Behind the close a thread can queue one frame, which it had begun to    *)
(* send before (websocket.py: _enqueue_frame tests closed, then puts).     *)
OneFrameAfterClose ==
  /\ \A t \in Threads : late[t] <= 1
  /\ \A i, j \in DOMAIN send_queue :
       send_queue[i] \in {"close", "None"} /\ send_queue[i] = send_queue[j] => i = j
  /\ \A i \in DOMAIN send_queue : ~ (send_queue[i] = "close" /\ item = "close")

(* When the client falls silent, or the handler returns, without another   *)
(* word both threads of the session end.  Only a writer whose None found   *)
(* the queue full, and that then drained it in time, waits for ever.       *)
SessionEnds ==
  peer = "silent" \/ pc["handler"] = "left" ~>
    closed /\ pc["heartbeat"] = "done" /\ (writer = "done" \/ lost)
=============================================================================
