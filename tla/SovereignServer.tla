--------------------------- MODULE SovereignServer ---------------------------
(***************************************************************************)
(* The threaded HTTP server of src/sovereign/server.py: the accept loop of *)
(* the main thread, the admission semaphore, the thread pool, the life of  *)
(* one connection in its worker, and shutdown() called by the main thread  *)
(* and by an application thread.                                           *)
(*                                                                         *)
(* A connection is one accepted socket.  Requests, responses and payloads  *)
(* are abstracted to how many of each the socket has carried; what parsing *)
(* or a handler decides is a choice.  The names are those of the source.   *)
(***************************************************************************)
EXTENDS Naturals, Sequences, FiniteSets

CONSTANTS
  Conns,           \* the sockets that may connect
  Workers,         \* the threads of the pool (config.workers)
  MaxConnections,  \* config.max_concurrent_connections
  MaxKeepAlive,    \* config.max_keepalive_requests
  TaskLists,       \* the background task lists a handler may leave behind
  TaskJob,         \* a transient background task, as a job of the pool
  Idle             \* a worker without a job

ASSUME ServerAssumption ==
  /\ IsFiniteSet(Conns) /\ IsFiniteSet(Workers) /\ Workers # {}
  /\ MaxConnections \in Nat \ {0}
  /\ MaxKeepAlive \in Nat \ {0}
  /\ TaskLists \subseteq Seq({"persistent", "transient"})
  /\ TaskJob \notin Conns /\ Idle \notin Conns /\ TaskJob # Idle

VARIABLES
  stop_event,         \* threading.Event
  listening,          \* listen_sock is open
  mainPc,             \* where serve_forever is
  shutPc,             \* where each caller of shutdown() is
  executor_shutdown,  \* the pool refuses new jobs
  connection_sem,     \* free permits of the BoundedSemaphore
  workq,              \* the pool's job queue
  doing,              \* the job of each worker
  phase,              \* where each connection is
  requests_seen,      \* requests parsed on the connection
  keep_alive,         \* decision taken for the current request
  todo,               \* background tasks of the current request not yet handed over
  heads,              \* response heads written to the socket
  bodies,             \* responses written to their last byte
  late                \* requests parsed after stop_event was set (history)

mainVars == <<listening, mainPc>>
shutVars == <<stop_event, shutPc, executor_shutdown>>
poolVars == <<workq, doing>>
reqVars  == <<requests_seen, keep_alive, todo, heads, bodies, late>>
vars == <<mainVars, shutVars, connection_sem, poolVars, phase, reqVars>>

Callers == {"main", "app"}

(* The permit is taken before submit() and given back by the worker.       *)
HoldingPhases == {"permit", "queued", "tls", "top", "reading", "dispatch",
                  "ws", "respond", "tasks", "error", "closing"}
Phases == HoldingPhases \cup {"away", "accepted", "closed", "refused", "dropped"}

Init ==
  /\ stop_event = FALSE
  /\ listening = TRUE
  /\ mainPc = "loop"
  /\ shutPc = [t \in Callers |-> "idle"]
  /\ executor_shutdown = FALSE
  /\ connection_sem = MaxConnections
  /\ workq = <<>>
  /\ doing = [w \in Workers |-> Idle]
  /\ phase = [c \in Conns |-> "away"]
  /\ requests_seen = [c \in Conns |-> 0]
  /\ keep_alive = [c \in Conns |-> FALSE]
  /\ todo = [c \in Conns |-> <<>>]
  /\ heads = [c \in Conns |-> 0]
  /\ bodies = [c \in Conns |-> 0]
  /\ late = [c \in Conns |-> 0]

Goto(c, p) == phase' = [phase EXCEPT ![c] = p]

-----------------------------------------------------------------------------
(* The main thread: serve_forever.                                         *)

(* Mutant: `while True`, leaving the exit to an error of accept().         *)
LoopCheckForever ==
  /\ mainPc = "loop"
  /\ mainPc' = "accept"
  /\ UNCHANGED <<listening, shutVars, connection_sem, poolVars, phase, reqVars>>

LoopCheck ==
  /\ mainPc = "loop"
  /\ mainPc' = IF stop_event THEN "finally" ELSE "accept"
  /\ UNCHANGED <<listening, shutVars, connection_sem, poolVars, phase, reqVars>>

Accept(c) ==
  /\ mainPc = "accept" /\ listening
  /\ phase[c] = "away"
  /\ Goto(c, "accepted")
  /\ mainPc' = "acquire"
  /\ UNCHANGED <<listening, shutVars, connection_sem, poolVars, reqVars>>

(* The listening socket has a timeout of one second.                       *)
AcceptTimeout ==
  /\ mainPc = "accept"
  /\ mainPc' = "loop"
  /\ UNCHANGED <<listening, shutVars, connection_sem, poolVars, phase, reqVars>>

(* Any OSError of accept() - the socket was closed, no descriptors left -  *)
(* breaks the loop, and a KeyboardInterrupt leaves it through the finally. *)
AcceptFails ==
  /\ mainPc = "accept"
  /\ mainPc' = "finally"
  /\ UNCHANGED <<listening, shutVars, connection_sem, poolVars, phase, reqVars>>

AcquirePermit(c) ==
  /\ mainPc = "acquire" /\ phase[c] = "accepted"
  /\ connection_sem > 0
  /\ connection_sem' = connection_sem - 1
  /\ Goto(c, "permit")
  /\ mainPc' = "submit"
  /\ UNCHANGED <<listening, shutVars, poolVars, reqVars>>

RefuseClient(c) ==
  /\ mainPc = "acquire" /\ phase[c] = "accepted"
  /\ connection_sem = 0
  /\ Goto(c, "refused")
  /\ mainPc' = "loop"
  /\ UNCHANGED <<listening, shutVars, connection_sem, poolVars, reqVars>>

Submit(c) ==
  /\ mainPc = "submit" /\ phase[c] = "permit"
  /\ ~executor_shutdown
  /\ workq' = Append(workq, c)
  /\ Goto(c, "queued")
  /\ mainPc' = "loop"
  /\ UNCHANGED <<listening, shutVars, connection_sem, doing, reqVars>>

(* Mutant: the rejection is caught inside the loop.                        *)
SubmitRejectedCaught(c) ==
  /\ mainPc = "submit" /\ phase[c] = "permit"
  /\ executor_shutdown
  /\ Goto(c, "dropped")
  /\ mainPc' = "loop"
  /\ UNCHANGED <<listening, shutVars, connection_sem, poolVars, reqVars>>

(* submit() raises RuntimeError once another thread has shut the pool      *)
(* down: the loop is left, and nobody closes the client or gives back its  *)
(* permit.                                                                 *)
SubmitRejected(c) ==
  /\ mainPc = "submit" /\ phase[c] = "permit"
  /\ executor_shutdown
  /\ Goto(c, "dropped")
  /\ mainPc' = "finally"
  /\ UNCHANGED <<listening, shutVars, connection_sem, poolVars, reqVars>>

Main ==
  \/ LoopCheck \/ AcceptTimeout \/ AcceptFails
  \/ \E c \in Conns : \/ Accept(c) \/ AcquirePermit(c) \/ RefuseClient(c)
                      \/ Submit(c) \/ SubmitRejected(c)

-----------------------------------------------------------------------------
(* shutdown(): by the main thread from the finally, by another thread at   *)
(* any time, possibly by both.                                             *)

StopEventSet(t) ==
  /\ shutPc[t] = "idle"
  /\ t = "main" => mainPc = "finally"
  /\ stop_event' = TRUE
  /\ shutPc' = [shutPc EXCEPT ![t] = "stopping"]
  /\ UNCHANGED <<mainVars, executor_shutdown, connection_sem, poolVars, phase, reqVars>>

CloseListener(t) ==
  /\ shutPc[t] = "stopping"
  /\ listening' = FALSE
  /\ shutPc' = [shutPc EXCEPT ![t] = "hooks"]
  /\ UNCHANGED <<mainPc, stop_event, executor_shutdown, connection_sem, poolVars, phase, reqVars>>

(* The hooks, each in its own try, then task_queue.stop(): they touch      *)
(* nothing the server keeps, but other threads run meanwhile.              *)
RunHooks(t) ==
  /\ shutPc[t] = "hooks"
  /\ shutPc' = [shutPc EXCEPT ![t] = "executor"]
  /\ UNCHANGED <<mainVars, stop_event, executor_shutdown, connection_sem, poolVars, phase, reqVars>>

(* Mutant: cancel_futures=True.                                            *)
ShutdownExecutorCancel(t) ==
  /\ shutPc[t] = "executor"
  /\ executor_shutdown' = TRUE
  /\ workq' = <<>>
  /\ shutPc' = [shutPc EXCEPT ![t] = "joining"]
  /\ UNCHANGED <<mainVars, stop_event, connection_sem, doing, phase, reqVars>>

ShutdownExecutor(t) ==
  /\ shutPc[t] = "executor"
  /\ executor_shutdown' = TRUE
  /\ shutPc' = [shutPc EXCEPT ![t] = "joining"]
  /\ UNCHANGED <<mainVars, stop_event, connection_sem, poolVars, phase, reqVars>>

(* Mutant: wait=False.                                                     *)
JoinWorkersNoWait(t) ==
  /\ shutPc[t] = "joining"
  /\ shutPc' = [shutPc EXCEPT ![t] = "done"]
  /\ UNCHANGED <<mainVars, stop_event, executor_shutdown, connection_sem, poolVars, phase, reqVars>>

(* wait=True, cancel_futures=False: the workers drain the queue, then end. *)
JoinWorkers(t) ==
  /\ shutPc[t] = "joining"
  /\ workq = <<>> /\ \A w \in Workers : doing[w] = Idle
  /\ shutPc' = [shutPc EXCEPT ![t] = "done"]
  /\ UNCHANGED <<mainVars, stop_event, executor_shutdown, connection_sem, poolVars, phase, reqVars>>

Shutdown(t) ==
  \/ StopEventSet(t) \/ CloseListener(t) \/ RunHooks(t)
  \/ ShutdownExecutor(t) \/ JoinWorkers(t)

-----------------------------------------------------------------------------
(* The pool and its workers.                                               *)

TakeJob(w) ==
  /\ doing[w] = Idle /\ workq # <<>>
  /\ doing' = [doing EXCEPT ![w] = Head(workq)]
  /\ workq' = Tail(workq)
  /\ phase' = [c \in Conns |-> IF c = Head(workq) THEN "tls" ELSE phase[c]]
  /\ UNCHANGED <<mainVars, shutVars, connection_sem, reqVars>>

(* A transient task returns or raises: its Future swallows either.         *)
FinishTask(w) ==
  /\ doing[w] = TaskJob
  /\ doing' = [doing EXCEPT ![w] = Idle]
  /\ UNCHANGED <<mainVars, shutVars, connection_sem, workq, phase, reqVars>>

(* handle_connection_safe: the TLS handshake succeeds, or raises.          *)
Handshake(w, c) ==
  /\ doing[w] = c /\ phase[c] = "tls"
  /\ \/ Goto(c, "top")
     \/ Goto(c, "closing")
  /\ UNCHANGED <<mainVars, shutVars, connection_sem, poolVars, reqVars>>

(* Mutant: the loop of a kept-alive connection does not look at stop_event.*)
LoopTopIgnoringStop(w, c) ==
  /\ doing[w] = c /\ phase[c] = "top"
  /\ Goto(c, IF requests_seen[c] < MaxKeepAlive THEN "reading" ELSE "closing")
  /\ UNCHANGED <<mainVars, shutVars, connection_sem, poolVars, reqVars>>

(* The guard of the keep-alive loop.                                       *)
LoopTop(w, c) ==
  /\ doing[w] = c /\ phase[c] = "top"
  /\ Goto(c, IF requests_seen[c] < MaxKeepAlive /\ ~stop_event
             THEN "reading" ELSE "closing")
  /\ UNCHANGED <<mainVars, shutVars, connection_sem, poolVars, reqVars>>

(* parse_request returns; the client may ask for the connection to close.  *)
ParseRequest(w, c) ==
  /\ doing[w] = c /\ phase[c] = "reading"
  /\ requests_seen' = [requests_seen EXCEPT ![c] = @ + 1]
  /\ \E wants \in BOOLEAN :
       keep_alive' = [keep_alive EXCEPT
                        ![c] = wants /\ requests_seen[c] + 1 < MaxKeepAlive]
  /\ late' = [late EXCEPT ![c] = IF stop_event THEN @ + 1 ELSE @]
  /\ Goto(c, "dispatch")
  /\ UNCHANGED <<mainVars, shutVars, connection_sem, poolVars, todo, heads, bodies>>

(* The client is gone (return), or the request is bad, late or too large.  *)
ParseFails(w, c) ==
  /\ doing[w] = c /\ phase[c] = "reading"
  /\ \/ Goto(c, "closing")
     \/ Goto(c, "error")
  /\ UNCHANGED <<mainVars, shutVars, connection_sem, poolVars, reqVars>>

(* handshake() has sent its 101, and the application's handler runs.       *)
UpgradeWebSocket(w, c) ==
  /\ doing[w] = c /\ phase[c] = "dispatch"
  /\ heads' = [heads EXCEPT ![c] = @ + 1]
  /\ Goto(c, "ws")
  /\ UNCHANGED <<mainVars, shutVars, connection_sem, poolVars,
                 requests_seen, keep_alive, todo, bodies, late>>

(* The WebSocket handler returns; or raises, into the same except clauses  *)
(* as an HTTP handler.                                                     *)
WebSocketEnds(w, c) ==
  /\ doing[w] = c /\ phase[c] = "ws"
  /\ \/ Goto(c, "closing")
     \/ Goto(c, "error")
  /\ UNCHANGED <<mainVars, shutVars, connection_sem, poolVars, reqVars>>

(* The route, its middleware and its handler produce a response, and leave *)
(* background tasks behind.                                                *)
Respond(w, c) ==
  /\ doing[w] = c /\ phase[c] = "dispatch"
  /\ \E tasks \in TaskLists : todo' = [todo EXCEPT ![c] = tasks]
  /\ Goto(c, "respond")
  /\ UNCHANGED <<mainVars, shutVars, connection_sem, poolVars,
                 requests_seen, keep_alive, heads, bodies, late>>

(* No route, no method, a refused upgrade, or the handler raised.          *)
HandlerRaises(w, c) ==
  /\ doing[w] = c /\ phase[c] = "dispatch"
  /\ Goto(c, "error")
  /\ UNCHANGED <<mainVars, shutVars, connection_sem, poolVars, reqVars>>

WriteResponse(w, c) ==
  /\ doing[w] = c /\ phase[c] = "respond"
  /\ heads' = [heads EXCEPT ![c] = @ + 1]
  /\ bodies' = [bodies EXCEPT ![c] = @ + 1]
  /\ Goto(c, "tasks")
  /\ UNCHANGED <<mainVars, shutVars, connection_sem, poolVars,
                 requests_seen, keep_alive, todo, late>>

(* write_response raises: before a byte is sent (CR/LF in a header), or    *)
(* with the head on the wire (the stream's iterator, a dead socket).       *)
WriteFails(w, c) ==
  /\ doing[w] = c /\ phase[c] = "respond"
  /\ \/ UNCHANGED heads
     \/ heads' = [heads EXCEPT ![c] = @ + 1]
  /\ Goto(c, "error")
  /\ UNCHANGED <<mainVars, shutVars, connection_sem, poolVars,
                 requests_seen, keep_alive, todo, bodies, late>>

(* _run_background_tasks, one task: the persistent ones go to the task     *)
(* queue's database, the others to the pool.                               *)
HandOverPersistent(w, c) ==
  /\ doing[w] = c /\ phase[c] = "tasks"
  /\ todo[c] # <<>> /\ Head(todo[c]) = "persistent"
  /\ todo' = [todo EXCEPT ![c] = Tail(@)]
  /\ UNCHANGED <<mainVars, shutVars, connection_sem, poolVars, phase,
                 requests_seen, keep_alive, heads, bodies, late>>

HandOverTransient(w, c) ==
  /\ doing[w] = c /\ phase[c] = "tasks"
  /\ todo[c] # <<>> /\ Head(todo[c]) = "transient"
  /\ ~executor_shutdown
  /\ workq' = Append(workq, TaskJob)
  /\ todo' = [todo EXCEPT ![c] = Tail(@)]
  /\ UNCHANGED <<mainVars, shutVars, connection_sem, doing, phase,
                 requests_seen, keep_alive, heads, bodies, late>>

(* enqueue() raises on a full disk or on arguments json cannot write, and  *)
(* submit() on a pool that was shut down: the rest of the list is lost.    *)
HandOverFails(w, c) ==
  /\ doing[w] = c /\ phase[c] = "tasks"
  /\ todo[c] # <<>>
  /\ Head(todo[c]) = "transient" => executor_shutdown
  /\ Goto(c, "error")
  /\ UNCHANGED <<mainVars, shutVars, connection_sem, poolVars, reqVars>>

EndOfRequest(w, c) ==
  /\ doing[w] = c /\ phase[c] = "tasks"
  /\ todo[c] = <<>>
  /\ Goto(c, IF keep_alive[c] THEN "top" ELSE "closing")
  /\ UNCHANGED <<mainVars, shutVars, connection_sem, poolVars, reqVars>>

(* Mutant: the connection is kept alive after an error page.               *)
WriteErrorPageKeepAlive(w, c) ==
  /\ doing[w] = c /\ phase[c] = "error"
  /\ heads' = [heads EXCEPT ![c] = @ + 1]
  /\ bodies' = [bodies EXCEPT ![c] = @ + 1]
  /\ Goto(c, IF keep_alive[c] THEN "top" ELSE "closing")
  /\ UNCHANGED <<mainVars, shutVars, connection_sem, poolVars,
                 requests_seen, keep_alive, todo, late>>

(* The except clauses write an error page with Connection: close.  This    *)
(* write may fail as well, before its head or after it.                    *)
WriteErrorPage(w, c) ==
  /\ doing[w] = c /\ phase[c] = "error"
  /\ \/ UNCHANGED <<heads, bodies>>
     \/ heads' = [heads EXCEPT ![c] = @ + 1] /\ UNCHANGED bodies
     \/ /\ heads' = [heads EXCEPT ![c] = @ + 1]
        /\ bodies' = [bodies EXCEPT ![c] = @ + 1]
  /\ Goto(c, "closing")
  /\ UNCHANGED <<mainVars, shutVars, connection_sem, poolVars,
                 requests_seen, keep_alive, todo, late>>

(* Mutant: the permit is not given back.                                   *)
CloseClientKeepPermit(w, c) ==
  /\ doing[w] = c /\ phase[c] = "closing"
  /\ Goto(c, "closed")
  /\ doing' = [doing EXCEPT ![w] = Idle]
  /\ UNCHANGED <<mainVars, shutVars, connection_sem, workq, reqVars>>

(* The finally of handle_connection_safe.  The locals of handle_connection *)
(* are gone with its frame, and what the socket carried with the socket.   *)
CloseClient(w, c) ==
  /\ doing[w] = c /\ phase[c] = "closing"
  /\ Goto(c, "closed")
  /\ connection_sem' = connection_sem + 1
  /\ doing' = [doing EXCEPT ![w] = Idle]
  /\ requests_seen' = [requests_seen EXCEPT ![c] = 0]
  /\ keep_alive' = [keep_alive EXCEPT ![c] = FALSE]
  /\ todo' = [todo EXCEPT ![c] = <<>>]
  /\ heads' = [heads EXCEPT ![c] = 0]
  /\ bodies' = [bodies EXCEPT ![c] = 0]
  /\ late' = [late EXCEPT ![c] = 0]
  /\ UNCHANGED <<mainVars, shutVars, workq>>

Serve(w, c) ==
  \/ Handshake(w, c) \/ LoopTop(w, c) \/ ParseRequest(w, c) \/ ParseFails(w, c)
  \/ UpgradeWebSocket(w, c) \/ WebSocketEnds(w, c)
  \/ Respond(w, c) \/ HandlerRaises(w, c) \/ WriteResponse(w, c) \/ WriteFails(w, c)
  \/ HandOverPersistent(w, c) \/ HandOverTransient(w, c) \/ HandOverFails(w, c)
  \/ EndOfRequest(w, c) \/ WriteErrorPage(w, c) \/ CloseClient(w, c)

Worker(w) == TakeJob(w) \/ FinishTask(w) \/ \E c \in Conns : Serve(w, c)

(* serve_forever has returned, and so has every other call of shutdown().  *)
Terminated == (\A t \in Callers : shutPc[t] = "done") /\ UNCHANGED vars

Next ==
  \/ Main
  \/ \E t \in Callers : Shutdown(t)
  \/ \E w \in Workers : Worker(w)
  \/ Terminated

(* The operating system runs every thread; sockets time out; handlers,     *)
(* hooks and background tasks return.  The application need not call       *)
(* shutdown(), but a call once made is executed.                           *)
Fairness ==
  /\ WF_vars(Main)
  /\ \A t \in Callers : WF_vars((t = "main" \/ shutPc[t] # "idle") /\ Shutdown(t))
  /\ \A w \in Workers : WF_vars(Worker(w))

Spec == Init /\ [][Next]_vars
FairSpec == Spec /\ Fairness

-----------------------------------------------------------------------------
(* Properties.                                                             *)

(* Every variable keeps its type; a worker's job is one of the sockets, a  *)
(* transient task or nothing (server.py, __init__ and the pool).           *)
TypeOK ==
  /\ stop_event \in BOOLEAN /\ listening \in BOOLEAN /\ executor_shutdown \in BOOLEAN
  /\ mainPc \in {"loop", "accept", "acquire", "submit", "finally"}
  /\ shutPc \in [Callers -> {"idle", "stopping", "hooks", "executor", "joining", "done"}]
  /\ connection_sem \in 0..MaxConnections
  /\ workq \in Seq(Conns \cup {TaskJob})
  /\ doing \in [Workers -> Conns \cup {TaskJob, Idle}]
  /\ phase \in [Conns -> Phases]
  /\ requests_seen \in [Conns -> 0..MaxKeepAlive]
  /\ keep_alive \in [Conns -> BOOLEAN]
  /\ todo \in [Conns -> Seq({"persistent", "transient"})]
  /\ heads \in [Conns -> Nat] /\ bodies \in [Conns -> Nat] /\ late \in [Conns -> Nat]

(* The connections a permit was taken for and not given back.              *)
Holders == {c \in Conns : phase[c] \in HoldingPhases \cup {"dropped"}}

(* Each permit of the BoundedSemaphore is free, or held on behalf of one   *)
(* connection the server still has, or lost to a client whose submit() was *)
(* refused; release() can then never exceed the initial value.             *)
PermitConservation == connection_sem + Cardinality(Holders) = MaxConnections

(* At most one permit is ever lost, and only by a server that has left its *)
(* accept loop: the semaphore of a serving server cannot erode.            *)
LostPermitOnlyAtExit ==
  LET Lost == {c \in Conns : phase[c] = "dropped"} IN
  Lost # {} => /\ mainPc = "finally" /\ stop_event
               /\ \A c, d \in Lost : c = d

(* Responses on a kept-alive connection stay in step with its requests:    *)
(* when the next request is read, every earlier one has had exactly one    *)
(* head and one complete response and its background tasks are all handed  *)
(* over; a connection with half a response, or with a response too many,   *)
(* is only ever on its way to being closed.                                *)
KeepAliveFraming ==
  \A c \in Conns :
    /\ phase[c] \in {"top", "reading"} =>
         heads[c] = requests_seen[c] /\ bodies[c] = requests_seen[c] /\ todo[c] = <<>>
    /\ (heads[c] # bodies[c] \/ heads[c] > requests_seen[c]) =>
         phase[c] \in {"ws", "error", "closing"}
    /\ heads[c] <= requests_seen[c] + 1

(* A background task leaves the request's list only after the response to  *)
(* that request has been written to its last byte (write_response precedes *)
(* _run_background_tasks on every path).                                   *)
TasksAfterResponse ==
  [][\A c \in Conns :
       Len(todo'[c]) < Len(todo[c]) /\ phase'[c] # "closed" =>
         heads[c] = requests_seen[c] /\ bodies[c] = requests_seen[c]]_vars

(* When serve_forever returns from shutdown(), the pool is empty, and no   *)
(* accepted socket is left open except one whose submit() was refused.     *)
ShutdownQuiescence ==
  shutPc["main"] = "done" =>
    /\ stop_event /\ ~listening /\ workq = <<>>
    /\ \A w \in Workers : doing[w] = Idle
    /\ \A c \in Conns : phase[c] \in {"away", "closed", "refused", "dropped"}

(* After stop_event is set, a connection is served at most the one request *)
(* its worker was already committed to read.                               *)
OneLateRequest == \A c \in Conns : late[c] <= 1

(* A connection that got a permit and reached the pool is closed.          *)
QueuedIsClosed == \A c \in Conns : phase[c] = "queued" ~> phase[c] = "closed"

(* Once anyone has set stop_event, serve_forever returns: the main thread  *)
(* leaves its loop, and no thread of the shutdown waits for ever.          *)
StopLeadsToExit == stop_event ~> shutPc["main"] = "done"
=============================================================================
