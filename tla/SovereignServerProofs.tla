------------------------ MODULE SovereignServerProofs ------------------------
(***************************************************************************)
(* What the server keeps for every number of clients, workers and permits. *)
(*                                                                         *)
(* The inductive invariant is Inv: TypeInv is TypeOK without its bounds,   *)
(* Ownership says where the pool holds each connection, Stages orders the  *)
(* main thread and the callers of shutdown(), and Framing relates requests *)
(* and responses.  The bounds of TypeOK follow from them.                  *)
(***************************************************************************)
EXTENDS SovereignServer, FiniteSetTheorems, TLAPS

TypeInv ==
  /\ stop_event \in BOOLEAN /\ listening \in BOOLEAN /\ executor_shutdown \in BOOLEAN
  /\ mainPc \in {"loop", "accept", "acquire", "submit", "finally"}
  /\ shutPc \in [Callers -> {"idle", "stopping", "hooks", "executor", "joining", "done"}]
  /\ connection_sem \in Nat
  /\ workq \in Seq(Conns \cup {TaskJob})
  /\ doing \in [Workers -> Conns \cup {TaskJob, Idle}]
  /\ phase \in [Conns -> Phases]
  /\ requests_seen \in [Conns -> Nat]
  /\ keep_alive \in [Conns -> BOOLEAN]
  /\ todo \in [Conns -> Seq({"persistent", "transient"})]
  /\ heads \in [Conns -> Nat] /\ bodies \in [Conns -> Nat] /\ late \in [Conns -> Nat]

ServedPhases == {"tls", "top", "reading", "dispatch", "ws", "respond", "tasks",
                 "error", "closing"}

(* What a worker takes from the queue is a connection waiting there.       *)
QueuedOnly ==
  \A i \in 1..Len(workq) : workq[i] \in Conns => phase[workq[i]] = "queued"

(* A queued connection is in the queue, once, and nothing else of Conns    *)
(* is; a connection being served is some worker's job.                     *)
Ownership ==
  /\ \A c \in Conns : phase[c] = "queued" => \E i \in 1..Len(workq) : workq[i] = c
  /\ QueuedOnly
  /\ \A i, j \in 1..Len(workq) : workq[i] \in Conns /\ workq[i] = workq[j] => i = j
  /\ \A c \in Conns : phase[c] \in ServedPhases => \E w \in Workers : doing[w] = c

(* What has happened when the main thread, or a caller of shutdown(), is   *)
(* where it is.                                                            *)
Stages ==
  /\ \A c \in Conns : phase[c] = "accepted" => mainPc = "acquire"
  /\ \A c \in Conns : phase[c] = "permit" => mainPc = "submit"
  /\ \A c \in Conns : phase[c] = "dropped" => mainPc = "finally" /\ executor_shutdown
  /\ \A c, d \in Conns :
       /\ phase[c] \in {"accepted", "permit"} /\ phase[d] \in {"accepted", "permit"} => c = d
       /\ phase[c] = "dropped" /\ phase[d] = "dropped" => c = d
  /\ \A t \in Callers : shutPc[t] # "idle" => stop_event
  /\ \A t \in Callers : shutPc[t] \notin {"idle", "stopping"} => ~listening
  /\ \A t \in Callers : shutPc[t] \in {"joining", "done"} => executor_shutdown
  /\ executor_shutdown => stop_event
  /\ shutPc["main"] # "idle" => mainPc = "finally"

(* Once the main thread has joined the pool nothing is left in it.         *)
Drained ==
  shutPc["main"] = "done" => workq = <<>> /\ \A w \in Workers : doing[w] = Idle

(* KeepAliveFraming, phase by phase.                                       *)
Framing ==
  \A c \in Conns :
    /\ requests_seen[c] <= MaxKeepAlive
    /\ phase[c] = "reading" => requests_seen[c] < MaxKeepAlive
    /\ phase[c] \in {"away", "accepted", "permit", "queued", "tls", "closed",
                     "refused", "dropped"} =>
         requests_seen[c] = 0 /\ heads[c] = 0 /\ bodies[c] = 0 /\ todo[c] = <<>>
    /\ phase[c] \in {"top", "reading"} =>
         heads[c] = requests_seen[c] /\ bodies[c] = requests_seen[c] /\ todo[c] = <<>>
    /\ phase[c] \in {"dispatch", "respond"} =>
         heads[c] + 1 = requests_seen[c] /\ bodies[c] + 1 = requests_seen[c]
    /\ phase[c] = "dispatch" => todo[c] = <<>>
    /\ phase[c] = "tasks" =>
         heads[c] = requests_seen[c] /\ bodies[c] = requests_seen[c]
    /\ phase[c] = "ws" => heads[c] = requests_seen[c]
    /\ phase[c] = "error" => heads[c] <= requests_seen[c]
    /\ phase[c] = "closing" => heads[c] <= requests_seen[c] + 1

(* The history variable counts nothing before the event is set, and a      *)
(* worker that has found it clear has nothing on its account.              *)
Late ==
  \A c \in Conns : /\ late[c] <= 1
                   /\ ~stop_event => late[c] = 0
                   /\ phase[c] = "reading" => late[c] = 0

-----------------------------------------------------------------------------
(* Every step of the server keeps the type of every variable.              *)
LEMMA TypeStep == TypeInv /\ [Next]_vars => TypeInv'
<1> SUFFICES ASSUME TypeInv, [Next]_vars PROVE TypeInv'
  OBVIOUS
<1> USE DEF TypeInv, Phases, HoldingPhases, Goto, Callers,
        mainVars, shutVars, poolVars, reqVars
<1>1. CASE Main
  <2>1. CASE LoopCheck BY <2>1 DEF LoopCheck
  <2>2. CASE AcceptTimeout BY <2>2 DEF AcceptTimeout
  <2>3. CASE AcceptFails BY <2>3 DEF AcceptFails
  <2>4. ASSUME NEW c \in Conns, Accept(c) PROVE TypeInv'
    BY <2>4 DEF Accept
  <2>5. ASSUME NEW c \in Conns, AcquirePermit(c) PROVE TypeInv'
    BY <2>5 DEF AcquirePermit
  <2>6. ASSUME NEW c \in Conns, RefuseClient(c) PROVE TypeInv'
    BY <2>6 DEF RefuseClient
  <2>7. ASSUME NEW c \in Conns, Submit(c) PROVE TypeInv'
    BY <2>7 DEF Submit
  <2>8. ASSUME NEW c \in Conns, SubmitRejected(c) PROVE TypeInv'
    BY <2>8 DEF SubmitRejected
  <2>9. QED
    BY <1>1, <2>1, <2>2, <2>3, <2>4, <2>5, <2>6, <2>7, <2>8 DEF Main
<1>2. ASSUME NEW t \in Callers, Shutdown(t) PROVE TypeInv'
  <2>1. CASE StopEventSet(t) BY <2>1 DEF StopEventSet
  <2>2. CASE CloseListener(t) BY <2>2 DEF CloseListener
  <2>3. CASE RunHooks(t) BY <2>3 DEF RunHooks
  <2>4. CASE ShutdownExecutor(t) BY <2>4 DEF ShutdownExecutor
  <2>5. CASE JoinWorkers(t) BY <2>5 DEF JoinWorkers
  <2>6. QED
    BY <1>2, <2>1, <2>2, <2>3, <2>4, <2>5 DEF Shutdown
<1>3. ASSUME NEW w \in Workers, TakeJob(w) PROVE TypeInv'
  <2>1. workq' \in Seq(Conns \cup {TaskJob}) BY <1>3 DEF TakeJob
  <2>2. Head(workq) \in Conns \cup {TaskJob} BY <1>3 DEF TakeJob
  <2>3. doing' \in [Workers -> Conns \cup {TaskJob, Idle}] BY <1>3, <2>2 DEF TakeJob
  <2>4. phase' \in [Conns -> Phases] BY <1>3 DEF TakeJob
  <2>5. QED BY <1>3, <2>1, <2>3, <2>4 DEF TakeJob
<1>4. ASSUME NEW w \in Workers, FinishTask(w) PROVE TypeInv'
  BY <1>4 DEF FinishTask
<1>5. ASSUME NEW w \in Workers, NEW c \in Conns, Serve(w, c) PROVE TypeInv'
  <2>1. CASE Handshake(w, c) BY <2>1 DEF Handshake
  <2>2. CASE LoopTop(w, c) BY <2>2 DEF LoopTop
  <2>3. CASE ParseRequest(w, c)
    <3>1. keep_alive' \in [Conns -> BOOLEAN]
      <4>1. PICK wants \in BOOLEAN :
              keep_alive' = [keep_alive EXCEPT
                ![c] = wants /\ requests_seen[c] + 1 < MaxKeepAlive]
        BY <2>3 DEF ParseRequest
      <4>2. (wants /\ requests_seen[c] + 1 < MaxKeepAlive) \in BOOLEAN
        OBVIOUS
      <4>3. QED BY <4>1, <4>2
    <3>2. requests_seen' \in [Conns -> Nat] BY <2>3 DEF ParseRequest
    <3>3. late' \in [Conns -> Nat] BY <2>3 DEF ParseRequest
    <3>4. phase' \in [Conns -> Phases] BY <2>3 DEF ParseRequest
    <3>5. QED BY <2>3, <3>1, <3>2, <3>3, <3>4 DEF ParseRequest
  <2>4. CASE ParseFails(w, c) BY <2>4 DEF ParseFails
  <2>5. CASE UpgradeWebSocket(w, c) BY SMTT(30), <2>5 DEF UpgradeWebSocket
  <2>6. CASE WebSocketEnds(w, c) BY <2>6 DEF WebSocketEnds
  <2>7. CASE Respond(w, c)
    <3>1. todo' \in [Conns -> Seq({"persistent", "transient"})]
      BY <2>7, ServerAssumption DEF Respond
    <3>2. phase' \in [Conns -> Phases] BY <2>7 DEF Respond
    <3>3. QED BY <2>7, <3>1, <3>2 DEF Respond
  <2>8. CASE HandlerRaises(w, c) BY <2>8 DEF HandlerRaises
  <2>9. CASE WriteResponse(w, c) BY SMTT(30), <2>9 DEF WriteResponse
  <2>10. CASE WriteFails(w, c) BY SMTT(30), <2>10 DEF WriteFails
  <2>11. CASE HandOverPersistent(w, c)
    <3>1. Tail(todo[c]) \in Seq({"persistent", "transient"})
      BY <2>11 DEF HandOverPersistent
    <3>2. QED BY <2>11, <3>1 DEF HandOverPersistent
  <2>12. CASE HandOverTransient(w, c)
    <3>1. Tail(todo[c]) \in Seq({"persistent", "transient"})
      BY <2>12 DEF HandOverTransient
    <3>2. workq' \in Seq(Conns \cup {TaskJob}) BY <2>12 DEF HandOverTransient
    <3>3. QED BY <2>12, <3>1, <3>2 DEF HandOverTransient
  <2>13. CASE HandOverFails(w, c) BY <2>13 DEF HandOverFails
  <2>14. CASE EndOfRequest(w, c) BY <2>14 DEF EndOfRequest
  <2>15. CASE WriteErrorPage(w, c)
    <3>1. phase' \in [Conns -> Phases] BY <2>15 DEF WriteErrorPage
    <3>2. heads' \in [Conns -> Nat] BY SMTT(30), <2>15 DEF WriteErrorPage
    <3>3. bodies' \in [Conns -> Nat] BY SMTT(30), <2>15 DEF WriteErrorPage
    <3>4. QED BY <2>15, <3>1, <3>2, <3>3 DEF WriteErrorPage
  <2>16. CASE CloseClient(w, c) BY <2>16 DEF CloseClient
  <2>17. QED
    BY <1>5, <2>1, <2>2, <2>3, <2>4, <2>5, <2>6, <2>7, <2>8, <2>9, <2>10,
       <2>11, <2>12, <2>13, <2>14, <2>15, <2>16 DEF Serve
<1>6. CASE Terminated \/ UNCHANGED vars
  BY <1>6 DEF Terminated, vars
<1>7. QED
  BY <1>1, <1>2, <1>3, <1>4, <1>5, <1>6 DEF Next, Worker

(* Requests and responses stay in step, whatever the thread does next.     *)
LEMMA FramingStep == TypeInv /\ QueuedOnly /\ Framing /\ [Next]_vars => Framing'
<1> SUFFICES ASSUME TypeInv /\ QueuedOnly /\ Framing, [Next]_vars PROVE Framing'
  OBVIOUS
<1> USE DEF Framing, TypeInv, QueuedOnly, Goto, Callers,
        mainVars, shutVars, poolVars, reqVars
<1>1. CASE Main
  <2>1. CASE LoopCheck BY <2>1 DEF LoopCheck
  <2>2. CASE AcceptTimeout BY <2>2 DEF AcceptTimeout
  <2>3. CASE AcceptFails BY <2>3 DEF AcceptFails
  <2>4. ASSUME NEW c \in Conns, Accept(c) PROVE Framing'
    BY <2>4 DEF Accept
  <2>5. ASSUME NEW c \in Conns, AcquirePermit(c) PROVE Framing'
    BY <2>5 DEF AcquirePermit
  <2>6. ASSUME NEW c \in Conns, RefuseClient(c) PROVE Framing'
    BY <2>6 DEF RefuseClient
  <2>7. ASSUME NEW c \in Conns, Submit(c) PROVE Framing'
    BY <2>7 DEF Submit
  <2>8. ASSUME NEW c \in Conns, SubmitRejected(c) PROVE Framing'
    BY <2>8 DEF SubmitRejected
  <2>9. QED
    BY <1>1, <2>1, <2>2, <2>3, <2>4, <2>5, <2>6, <2>7, <2>8 DEF Main
<1>2. ASSUME NEW t \in Callers, Shutdown(t) PROVE Framing'
  <2>1. CASE StopEventSet(t) BY <2>1 DEF StopEventSet
  <2>2. CASE CloseListener(t) BY <2>2 DEF CloseListener
  <2>3. CASE RunHooks(t) BY <2>3 DEF RunHooks
  <2>4. CASE ShutdownExecutor(t) BY <2>4 DEF ShutdownExecutor
  <2>5. CASE JoinWorkers(t) BY <2>5 DEF JoinWorkers
  <2>6. QED
    BY <1>2, <2>1, <2>2, <2>3, <2>4, <2>5 DEF Shutdown
<1>3. ASSUME NEW w \in Workers, TakeJob(w) PROVE Framing'
  BY <1>3 DEF TakeJob
<1>4. ASSUME NEW w \in Workers, FinishTask(w) PROVE Framing'
  BY <1>4 DEF FinishTask
<1>5. ASSUME NEW w \in Workers, NEW c \in Conns, Serve(w, c) PROVE Framing'
  <2>1. CASE Handshake(w, c) BY <2>1 DEF Handshake
  <2>2. CASE LoopTop(w, c) BY <2>2 DEF LoopTop
  <2>3. CASE ParseRequest(w, c)
    <3>1. /\ requests_seen' = [requests_seen EXCEPT ![c] = @ + 1]
          /\ phase' = [phase EXCEPT ![c] = "dispatch"]
          /\ phase[c] = "reading"
          /\ UNCHANGED <<heads, bodies, todo>>
      BY <2>3 DEF ParseRequest
    <3>2. QED BY <3>1, ServerAssumption
  <2>4. CASE ParseFails(w, c) BY <2>4 DEF ParseFails
  <2>5. CASE UpgradeWebSocket(w, c) BY <2>5 DEF UpgradeWebSocket
  <2>6. CASE WebSocketEnds(w, c) BY SMTT(30), <2>6 DEF WebSocketEnds
  <2>7. CASE Respond(w, c) BY <2>7 DEF Respond
  <2>8. CASE HandlerRaises(w, c) BY <2>8 DEF HandlerRaises
  <2>9. CASE WriteResponse(w, c) BY <2>9 DEF WriteResponse
  <2>10. CASE WriteFails(w, c) BY SMTT(30), <2>10 DEF WriteFails
  <2>11. CASE HandOverPersistent(w, c) BY SMTT(30), <2>11 DEF HandOverPersistent
  <2>12. CASE HandOverTransient(w, c) BY SMTT(30), <2>12 DEF HandOverTransient
  <2>13. CASE HandOverFails(w, c) BY <2>13 DEF HandOverFails
  <2>14. CASE EndOfRequest(w, c) BY <2>14 DEF EndOfRequest
  <2>15. CASE WriteErrorPage(w, c) BY SMTT(40), <2>15 DEF WriteErrorPage
  <2>16. CASE CloseClient(w, c)
    <3>1. /\ requests_seen' = [requests_seen EXCEPT ![c] = 0]
          /\ phase' = [phase EXCEPT ![c] = "closed"]
          /\ heads' = [heads EXCEPT ![c] = 0]
          /\ bodies' = [bodies EXCEPT ![c] = 0]
          /\ todo' = [todo EXCEPT ![c] = <<>>]
      BY <2>16 DEF CloseClient
    <3>2. QED BY <3>1, ServerAssumption
  <2>17. QED
    BY <1>5, <2>1, <2>2, <2>3, <2>4, <2>5, <2>6, <2>7, <2>8, <2>9, <2>10,
       <2>11, <2>12, <2>13, <2>14, <2>15, <2>16 DEF Serve
<1>6. CASE Terminated \/ UNCHANGED vars
  BY <1>6 DEF Terminated, vars
<1>7. QED
  BY <1>1, <1>2, <1>3, <1>4, <1>5, <1>6 DEF Next, Worker


(* A worker reads at most one request after the event was set.             *)
LEMMA LateStep == TypeInv /\ QueuedOnly /\ Late /\ [Next]_vars => Late'
<1> SUFFICES ASSUME TypeInv /\ QueuedOnly /\ Late, [Next]_vars PROVE Late'
  OBVIOUS
<1> USE DEF Late, TypeInv, QueuedOnly, Goto, Callers,
        mainVars, shutVars, poolVars, reqVars
<1>1. CASE Main
  <2>1. CASE LoopCheck BY <2>1 DEF LoopCheck
  <2>2. CASE AcceptTimeout BY <2>2 DEF AcceptTimeout
  <2>3. CASE AcceptFails BY <2>3 DEF AcceptFails
  <2>4. ASSUME NEW c \in Conns, Accept(c) PROVE Late'
    BY <2>4 DEF Accept
  <2>5. ASSUME NEW c \in Conns, AcquirePermit(c) PROVE Late'
    BY <2>5 DEF AcquirePermit
  <2>6. ASSUME NEW c \in Conns, RefuseClient(c) PROVE Late'
    BY <2>6 DEF RefuseClient
  <2>7. ASSUME NEW c \in Conns, Submit(c) PROVE Late'
    BY <2>7 DEF Submit
  <2>8. ASSUME NEW c \in Conns, SubmitRejected(c) PROVE Late'
    BY <2>8 DEF SubmitRejected
  <2>9. QED
    BY <1>1, <2>1, <2>2, <2>3, <2>4, <2>5, <2>6, <2>7, <2>8 DEF Main
<1>2. ASSUME NEW t \in Callers, Shutdown(t) PROVE Late'
  <2>1. CASE StopEventSet(t) BY <2>1 DEF StopEventSet
  <2>2. CASE CloseListener(t) BY <2>2 DEF CloseListener
  <2>3. CASE RunHooks(t) BY <2>3 DEF RunHooks
  <2>4. CASE ShutdownExecutor(t) BY <2>4 DEF ShutdownExecutor
  <2>5. CASE JoinWorkers(t) BY <2>5 DEF JoinWorkers
  <2>6. QED
    BY <1>2, <2>1, <2>2, <2>3, <2>4, <2>5 DEF Shutdown
<1>3. ASSUME NEW w \in Workers, TakeJob(w) PROVE Late'
  BY <1>3 DEF TakeJob
<1>4. ASSUME NEW w \in Workers, FinishTask(w) PROVE Late'
  BY <1>4 DEF FinishTask
<1>5. ASSUME NEW w \in Workers, NEW c \in Conns, Serve(w, c) PROVE Late'
  <2>1. CASE Handshake(w, c) BY <2>1 DEF Handshake
  <2>2. CASE LoopTop(w, c) BY <2>2 DEF LoopTop
  <2>3. CASE ParseRequest(w, c) BY <2>3 DEF ParseRequest
  <2>4. CASE ParseFails(w, c) BY <2>4 DEF ParseFails
  <2>5. CASE UpgradeWebSocket(w, c) BY <2>5 DEF UpgradeWebSocket
  <2>6. CASE WebSocketEnds(w, c) BY <2>6 DEF WebSocketEnds
  <2>7. CASE Respond(w, c) BY <2>7 DEF Respond
  <2>8. CASE HandlerRaises(w, c) BY <2>8 DEF HandlerRaises
  <2>9. CASE WriteResponse(w, c) BY <2>9 DEF WriteResponse
  <2>10. CASE WriteFails(w, c) BY <2>10 DEF WriteFails
  <2>11. CASE HandOverPersistent(w, c) BY <2>11 DEF HandOverPersistent
  <2>12. CASE HandOverTransient(w, c) BY <2>12 DEF HandOverTransient
  <2>13. CASE HandOverFails(w, c) BY <2>13 DEF HandOverFails
  <2>14. CASE EndOfRequest(w, c) BY <2>14 DEF EndOfRequest
  <2>15. CASE WriteErrorPage(w, c) BY <2>15 DEF WriteErrorPage
  <2>16. CASE CloseClient(w, c) BY <2>16 DEF CloseClient
  <2>17. QED
    BY <1>5, <2>1, <2>2, <2>3, <2>4, <2>5, <2>6, <2>7, <2>8, <2>9, <2>10,
       <2>11, <2>12, <2>13, <2>14, <2>15, <2>16 DEF Serve
<1>6. CASE Terminated \/ UNCHANGED vars
  BY <1>6 DEF Terminated, vars
<1>7. QED
  BY <1>1, <1>2, <1>3, <1>4, <1>5, <1>6 DEF Next, Worker


(* No step takes the main thread or a shutdown out of its order.           *)
LEMMA StagesStep == TypeInv /\ QueuedOnly /\ Stages /\ [Next]_vars => Stages'
<1> SUFFICES ASSUME TypeInv /\ QueuedOnly /\ Stages, [Next]_vars PROVE Stages'
  OBVIOUS
<1> USE DEF Stages, TypeInv, QueuedOnly, Goto, Callers,
        mainVars, shutVars, poolVars, reqVars
<1>1. CASE Main
  <2>1. CASE LoopCheck BY <2>1 DEF LoopCheck
  <2>2. CASE AcceptTimeout BY <2>2 DEF AcceptTimeout
  <2>3. CASE AcceptFails BY <2>3 DEF AcceptFails
  <2>4. ASSUME NEW c \in Conns, Accept(c) PROVE Stages'
    BY <2>4 DEF Accept
  <2>5. ASSUME NEW c \in Conns, AcquirePermit(c) PROVE Stages'
    BY <2>5 DEF AcquirePermit
  <2>6. ASSUME NEW c \in Conns, RefuseClient(c) PROVE Stages'
    BY <2>6 DEF RefuseClient
  <2>7. ASSUME NEW c \in Conns, Submit(c) PROVE Stages'
    BY <2>7 DEF Submit
  <2>8. ASSUME NEW c \in Conns, SubmitRejected(c) PROVE Stages'
    BY <2>8 DEF SubmitRejected
  <2>9. QED
    BY <1>1, <2>1, <2>2, <2>3, <2>4, <2>5, <2>6, <2>7, <2>8 DEF Main
<1>2. ASSUME NEW t \in Callers, Shutdown(t) PROVE Stages'
  <2>1. CASE StopEventSet(t) BY <2>1 DEF StopEventSet
  <2>2. CASE CloseListener(t) BY <2>2 DEF CloseListener
  <2>3. CASE RunHooks(t) BY <2>3 DEF RunHooks
  <2>4. CASE ShutdownExecutor(t) BY <2>4 DEF ShutdownExecutor
  <2>5. CASE JoinWorkers(t) BY <2>5 DEF JoinWorkers
  <2>6. QED
    BY <1>2, <2>1, <2>2, <2>3, <2>4, <2>5 DEF Shutdown
<1>3. ASSUME NEW w \in Workers, TakeJob(w) PROVE Stages'
  BY <1>3 DEF TakeJob
<1>4. ASSUME NEW w \in Workers, FinishTask(w) PROVE Stages'
  BY <1>4 DEF FinishTask
<1>5. ASSUME NEW w \in Workers, NEW c \in Conns, Serve(w, c) PROVE Stages'
  <2>1. CASE Handshake(w, c)
    <3>1. PICK p \in {"top", "closing"} : phase' = [phase EXCEPT ![c] = p]
      BY <2>1 DEF Handshake
    <3>2. QED BY ZenonT(60), <2>1, <3>1 DEF Handshake
  <2>2. CASE LoopTop(w, c) BY <2>2 DEF LoopTop
  <2>3. CASE ParseRequest(w, c) BY <2>3 DEF ParseRequest
  <2>4. CASE ParseFails(w, c)
    <3>1. PICK p \in {"closing", "error"} : phase' = [phase EXCEPT ![c] = p]
      BY <2>4 DEF ParseFails
    <3>2. QED BY ZenonT(60), <2>4, <3>1 DEF ParseFails
  <2>5. CASE UpgradeWebSocket(w, c) BY <2>5 DEF UpgradeWebSocket
  <2>6. CASE WebSocketEnds(w, c)
    <3>1. PICK p \in {"closing", "error"} : phase' = [phase EXCEPT ![c] = p]
      BY <2>6 DEF WebSocketEnds
    <3>2. QED BY ZenonT(60), <2>6, <3>1 DEF WebSocketEnds
  <2>7. CASE Respond(w, c) BY <2>7 DEF Respond
  <2>8. CASE HandlerRaises(w, c) BY <2>8 DEF HandlerRaises
  <2>9. CASE WriteResponse(w, c) BY <2>9 DEF WriteResponse
  <2>10. CASE WriteFails(w, c) BY <2>10 DEF WriteFails
  <2>11. CASE HandOverPersistent(w, c) BY <2>11 DEF HandOverPersistent
  <2>12. CASE HandOverTransient(w, c) BY <2>12 DEF HandOverTransient
  <2>13. CASE HandOverFails(w, c) BY <2>13 DEF HandOverFails
  <2>14. CASE EndOfRequest(w, c) BY <2>14 DEF EndOfRequest
  <2>15. CASE WriteErrorPage(w, c) BY <2>15 DEF WriteErrorPage
  <2>16. CASE CloseClient(w, c) BY <2>16 DEF CloseClient
  <2>17. QED
    BY <1>5, <2>1, <2>2, <2>3, <2>4, <2>5, <2>6, <2>7, <2>8, <2>9, <2>10,
       <2>11, <2>12, <2>13, <2>14, <2>15, <2>16 DEF Serve
<1>6. CASE Terminated \/ UNCHANGED vars
  BY SMTT(30), <1>6 DEF Terminated, vars
<1>7. QED
  BY <1>1, <1>2, <1>3, <1>4, <1>5, <1>6 DEF Next, Worker

(* What appending to the pool's queue and taking from it do, by index.     *)
LEMMA AppendByIndex ==
  ASSUME NEW S, NEW q \in Seq(S), NEW x \in S
  PROVE  /\ Len(Append(q, x)) = Len(q) + 1
         /\ \A i \in 1..Len(q) : Append(q, x)[i] = q[i]
         /\ Append(q, x)[Len(q) + 1] = x
  OBVIOUS

LEMMA TailByIndex ==
  ASSUME NEW S, NEW q \in Seq(S), q # <<>>
  PROVE  /\ Len(q) \in Nat \ {0}
         /\ Len(Tail(q)) = Len(q) - 1
         /\ \A i \in 1..Len(Tail(q)) : i + 1 \in 1..Len(q) /\ Tail(q)[i] = q[i + 1]
         /\ Head(q) = q[1]
  OBVIOUS

(* A connection is in the queue or with a worker, where its phase says.     *)
LEMMA OwnershipStep == TypeInv /\ Ownership /\ [Next]_vars => Ownership'
<1> SUFFICES ASSUME TypeInv /\ Ownership, [Next]_vars PROVE Ownership'
  OBVIOUS
<1> USE ServerAssumption DEF Ownership, QueuedOnly, TypeInv, ServedPhases, Goto, Callers,
        mainVars, shutVars, poolVars, reqVars
<1>1. CASE Main
  <2>1. CASE LoopCheck BY <2>1 DEF LoopCheck
  <2>2. CASE AcceptTimeout BY <2>2 DEF AcceptTimeout
  <2>3. CASE AcceptFails BY <2>3 DEF AcceptFails
  <2>4. ASSUME NEW c \in Conns, Accept(c) PROVE Ownership'
    BY <2>4 DEF Accept
  <2>5. ASSUME NEW c \in Conns, AcquirePermit(c) PROVE Ownership'
    BY <2>5 DEF AcquirePermit
  <2>6. ASSUME NEW c \in Conns, RefuseClient(c) PROVE Ownership'
    BY SMTT(40), <2>6 DEF RefuseClient
  <2>7. ASSUME NEW c \in Conns, Submit(c) PROVE Ownership'
    <3>1. /\ workq' = Append(workq, c) /\ doing' = doing
          /\ phase[c] = "permit" /\ phase' = [phase EXCEPT ![c] = "queued"]
      BY <2>7 DEF Submit
    <3>2. /\ Len(workq') = Len(workq) + 1 /\ workq'[Len(workq) + 1] = c
          /\ \A i \in 1..Len(workq) : workq'[i] = workq[i]
      BY <3>1, AppendByIndex
    <3>3. Len(workq) \in Nat OBVIOUS
    <3>4. \A i \in 1..Len(workq') : i \in 1..Len(workq) \/ i = Len(workq) + 1
      BY <3>2, <3>3
    <3>5. \A i \in 1..Len(workq) : workq[i] # c BY <3>1
    <3>6. \A d \in Conns : phase'[d] = "queued" => \E i \in 1..Len(workq') : workq'[i] = d
      <4>1. Len(workq) + 1 \in 1..Len(workq') BY <3>2, <3>3
      <4>2. 1..Len(workq) \subseteq 1..Len(workq') BY <3>2, <3>3
      <4>3. QED BY <3>1, <3>2, <4>1, <4>2
    <3>7. QueuedOnly' BY <3>1, <3>2, <3>4, <3>5
    <3>8. \A i, j \in 1..Len(workq') :
            workq'[i] \in Conns /\ workq'[i] = workq'[j] => i = j
      BY <3>2, <3>4, <3>5
    <3>9. \A d \in Conns : phase'[d] \in ServedPhases => \E w \in Workers : doing'[w] = d
      BY <3>1
    <3>10. QED BY <3>6, <3>7, <3>8, <3>9
  <2>8. ASSUME NEW c \in Conns, SubmitRejected(c) PROVE Ownership'
    BY <2>8 DEF SubmitRejected
  <2>9. QED
    BY <1>1, <2>1, <2>2, <2>3, <2>4, <2>5, <2>6, <2>7, <2>8 DEF Main
<1>2. ASSUME NEW t \in Callers, Shutdown(t) PROVE Ownership'
  <2>1. CASE StopEventSet(t) BY <2>1 DEF StopEventSet
  <2>2. CASE CloseListener(t) BY <2>2 DEF CloseListener
  <2>3. CASE RunHooks(t) BY <2>3 DEF RunHooks
  <2>4. CASE ShutdownExecutor(t) BY <2>4 DEF ShutdownExecutor
  <2>5. CASE JoinWorkers(t) BY <2>5 DEF JoinWorkers
  <2>6. QED
    BY <1>2, <2>1, <2>2, <2>3, <2>4, <2>5 DEF Shutdown
<1>3. ASSUME NEW w \in Workers, TakeJob(w) PROVE Ownership'
  <2>1. /\ workq # <<>> /\ workq' = Tail(workq) /\ doing[w] = Idle
        /\ doing' = [doing EXCEPT ![w] = Head(workq)]
        /\ phase' = [c \in Conns |-> IF c = Head(workq) THEN "tls" ELSE phase[c]]
    BY <1>3 DEF TakeJob
  <2>2. /\ Len(workq) \in Nat \ {0} /\ Len(workq') = Len(workq) - 1
        /\ \A i \in 1..Len(workq') : i + 1 \in 1..Len(workq) /\ workq'[i] = workq[i + 1]
        /\ Head(workq) = workq[1]
    BY <2>1, TailByIndex
  <2>3. \A i \in 1..Len(workq') : workq'[i] \in Conns => workq'[i] # Head(workq)
    <3> SUFFICES ASSUME NEW i \in 1..Len(workq'), workq'[i] \in Conns,
                        workq'[i] = Head(workq)
                 PROVE FALSE
      OBVIOUS
    <3>1. 1 \in 1..Len(workq) /\ i + 1 \in 1..Len(workq) /\ i + 1 # 1 BY <2>2
    <3>2. workq[i + 1] = workq[1] /\ workq[i + 1] \in Conns BY <2>2
    <3>3. QED BY <3>1, <3>2
  <2>4. \A c \in Conns : phase'[c] = "queued" => \E i \in 1..Len(workq') : workq'[i] = c
    <3> SUFFICES ASSUME NEW c \in Conns, phase'[c] = "queued"
                 PROVE \E i \in 1..Len(workq') : workq'[i] = c
      OBVIOUS
    <3>1. phase[c] = "queued" /\ c # workq[1] BY <2>1, <2>2
    <3>2. PICK i \in 1..Len(workq) : workq[i] = c BY <3>1
    <3>3. i - 1 \in 1..Len(workq') BY <2>2, <3>1, <3>2
    <3>4. workq'[i - 1] = c BY <2>2, <3>2, <3>3
    <3>5. QED BY <3>3, <3>4
  <2>5. QueuedOnly'
    BY <2>1, <2>2, <2>3
  <2>6. \A i, j \in 1..Len(workq') :
          workq'[i] \in Conns /\ workq'[i] = workq'[j] => i = j
    <3> SUFFICES ASSUME NEW i \in 1..Len(workq'), NEW j \in 1..Len(workq'),
                        workq'[i] \in Conns, workq'[i] = workq'[j]
                 PROVE i = j
      OBVIOUS
    <3>1. /\ i + 1 \in 1..Len(workq) /\ j + 1 \in 1..Len(workq)
          /\ workq[i + 1] \in Conns /\ workq[i + 1] = workq[j + 1]
      BY <2>2
    <3>2. i + 1 = j + 1 BY <3>1
    <3>3. QED BY <3>2
  <2>7. \A c \in Conns : phase'[c] \in ServedPhases => \E v \in Workers : doing'[v] = c
    BY <2>1
  <2>8. QED BY <2>4, <2>5, <2>6, <2>7
<1>4. ASSUME NEW w \in Workers, FinishTask(w) PROVE Ownership'
  BY <1>4 DEF FinishTask
<1>5. ASSUME NEW w \in Workers, NEW c \in Conns, Serve(w, c) PROVE Ownership'
  <2>1. CASE Handshake(w, c)
    <3>1. PICK p \in {"top", "closing"} : phase' = [phase EXCEPT ![c] = p]
      BY <2>1 DEF Handshake
    <3>2. QED BY SMTT(30), <2>1, <3>1 DEF Handshake
  <2>2. CASE LoopTop(w, c) BY SMTT(30), <2>2 DEF LoopTop
  <2>3. CASE ParseRequest(w, c) BY SMTT(30), <2>3 DEF ParseRequest
  <2>4. CASE ParseFails(w, c)
    <3>1. PICK p \in {"closing", "error"} : phase' = [phase EXCEPT ![c] = p]
      BY <2>4 DEF ParseFails
    <3>2. QED BY <2>4, <3>1 DEF ParseFails
  <2>5. CASE UpgradeWebSocket(w, c) BY SMTT(30), <2>5 DEF UpgradeWebSocket
  <2>6. CASE WebSocketEnds(w, c)
    <3>1. PICK p \in {"closing", "error"} : phase' = [phase EXCEPT ![c] = p]
      BY <2>6 DEF WebSocketEnds
    <3>2. QED BY <2>6, <3>1 DEF WebSocketEnds
  <2>7. CASE Respond(w, c) BY <2>7 DEF Respond
  <2>8. CASE HandlerRaises(w, c) BY <2>8 DEF HandlerRaises
  <2>9. CASE WriteResponse(w, c) BY SMTT(40), <2>9 DEF WriteResponse
  <2>10. CASE WriteFails(w, c) BY <2>10 DEF WriteFails
  <2>11. CASE HandOverPersistent(w, c) BY SMTT(30), <2>11 DEF HandOverPersistent
  <2>12. CASE HandOverTransient(w, c)
    <3>1. /\ workq' = Append(workq, TaskJob) /\ doing' = doing /\ phase' = phase
      BY <2>12 DEF HandOverTransient
    <3>2. /\ Len(workq') = Len(workq) + 1 /\ workq'[Len(workq) + 1] = TaskJob
          /\ \A i \in 1..Len(workq) : workq'[i] = workq[i]
      BY <3>1, AppendByIndex
    <3>3. Len(workq) \in Nat OBVIOUS
    <3>4. \A i \in 1..Len(workq') : i \in 1..Len(workq) \/ i = Len(workq) + 1
      BY <3>2, <3>3
    <3>5. 1..Len(workq) \subseteq 1..Len(workq') BY <3>2, <3>3
    <3>6. QED BY SMTT(40), <3>1, <3>2, <3>4, <3>5
  <2>13. CASE HandOverFails(w, c) BY SMTT(30), <2>13 DEF HandOverFails
  <2>14. CASE EndOfRequest(w, c) BY SMTT(30), <2>14 DEF EndOfRequest
  <2>15. CASE WriteErrorPage(w, c) BY SMTT(40), <2>15 DEF WriteErrorPage
  <2>16. CASE CloseClient(w, c) BY <2>16 DEF CloseClient
  <2>17. QED
    BY <1>5, <2>1, <2>2, <2>3, <2>4, <2>5, <2>6, <2>7, <2>8, <2>9, <2>10,
       <2>11, <2>12, <2>13, <2>14, <2>15, <2>16 DEF Serve
<1>6. CASE Terminated \/ UNCHANGED vars
  BY <1>6 DEF Terminated, vars
<1>7. QED
  BY <1>1, <1>2, <1>3, <1>4, <1>5, <1>6 DEF Next, Worker

(* Nobody adds to the pool once the main thread has joined it.             *)
LEMMA DrainedStep == TypeInv /\ Stages /\ Drained /\ [Next]_vars => Drained'
<1> SUFFICES ASSUME TypeInv /\ Stages /\ Drained, [Next]_vars PROVE Drained'
  OBVIOUS
<1> USE ServerAssumption DEF Drained, Stages, TypeInv, Goto, Callers,
        mainVars, shutVars, poolVars, reqVars
<1>1. CASE Main
  <2>1. CASE LoopCheck BY <2>1 DEF LoopCheck
  <2>2. CASE AcceptTimeout BY <2>2 DEF AcceptTimeout
  <2>3. CASE AcceptFails BY <2>3 DEF AcceptFails
  <2>4. ASSUME NEW c \in Conns, Accept(c) PROVE Drained'
    BY <2>4 DEF Accept
  <2>5. ASSUME NEW c \in Conns, AcquirePermit(c) PROVE Drained'
    BY <2>5 DEF AcquirePermit
  <2>6. ASSUME NEW c \in Conns, RefuseClient(c) PROVE Drained'
    BY <2>6 DEF RefuseClient
  <2>7. ASSUME NEW c \in Conns, Submit(c) PROVE Drained'
    BY <2>7 DEF Submit
  <2>8. ASSUME NEW c \in Conns, SubmitRejected(c) PROVE Drained'
    BY <2>8 DEF SubmitRejected
  <2>9. QED
    BY <1>1, <2>1, <2>2, <2>3, <2>4, <2>5, <2>6, <2>7, <2>8 DEF Main
<1>2. ASSUME NEW t \in Callers, Shutdown(t) PROVE Drained'
  <2>1. CASE StopEventSet(t) BY <2>1 DEF StopEventSet
  <2>2. CASE CloseListener(t) BY <2>2 DEF CloseListener
  <2>3. CASE RunHooks(t) BY <2>3 DEF RunHooks
  <2>4. CASE ShutdownExecutor(t) BY <2>4 DEF ShutdownExecutor
  <2>5. CASE JoinWorkers(t) BY <2>5 DEF JoinWorkers
  <2>6. QED
    BY <1>2, <2>1, <2>2, <2>3, <2>4, <2>5 DEF Shutdown
<1>3. ASSUME NEW w \in Workers, TakeJob(w) PROVE Drained'
  BY <1>3 DEF TakeJob
<1>4. ASSUME NEW w \in Workers, FinishTask(w) PROVE Drained'
  BY <1>4 DEF FinishTask
<1>5. ASSUME NEW w \in Workers, NEW c \in Conns, Serve(w, c) PROVE Drained'
  <2>1. CASE Handshake(w, c) BY <2>1 DEF Handshake
  <2>2. CASE LoopTop(w, c) BY <2>2 DEF LoopTop
  <2>3. CASE ParseRequest(w, c) BY <2>3 DEF ParseRequest
  <2>4. CASE ParseFails(w, c) BY <2>4 DEF ParseFails
  <2>5. CASE UpgradeWebSocket(w, c) BY <2>5 DEF UpgradeWebSocket
  <2>6. CASE WebSocketEnds(w, c) BY <2>6 DEF WebSocketEnds
  <2>7. CASE Respond(w, c) BY <2>7 DEF Respond
  <2>8. CASE HandlerRaises(w, c) BY <2>8 DEF HandlerRaises
  <2>9. CASE WriteResponse(w, c) BY <2>9 DEF WriteResponse
  <2>10. CASE WriteFails(w, c) BY <2>10 DEF WriteFails
  <2>11. CASE HandOverPersistent(w, c) BY <2>11 DEF HandOverPersistent
  <2>12. CASE HandOverTransient(w, c) BY <2>12 DEF HandOverTransient
  <2>13. CASE HandOverFails(w, c) BY <2>13 DEF HandOverFails
  <2>14. CASE EndOfRequest(w, c) BY <2>14 DEF EndOfRequest
  <2>15. CASE WriteErrorPage(w, c) BY <2>15 DEF WriteErrorPage
  <2>16. CASE CloseClient(w, c) BY <2>16 DEF CloseClient
  <2>17. QED
    BY <1>5, <2>1, <2>2, <2>3, <2>4, <2>5, <2>6, <2>7, <2>8, <2>9, <2>10,
       <2>11, <2>12, <2>13, <2>14, <2>15, <2>16 DEF Serve
<1>6. CASE Terminated \/ UNCHANGED vars
  BY <1>6 DEF Terminated, vars
<1>7. QED
  BY <1>1, <1>2, <1>3, <1>4, <1>5, <1>6 DEF Next, Worker

(* A step leaves the permits alone, or takes one for a connection that had *)
(* none, or gives back the one of a connection that had it.                *)
PermitMove ==
  \/ Holders' = Holders /\ connection_sem' = connection_sem
  \/ \E c \in Conns \ Holders :
       /\ Holders' = Holders \cup {c}
       /\ connection_sem > 0 /\ connection_sem' = connection_sem - 1
  \/ \E c \in Holders :
       Holders' = Holders \ {c} /\ connection_sem' = connection_sem + 1

(* Every step is such a move.                                              *)
LEMMA PermitStep == TypeInv /\ QueuedOnly /\ [Next]_vars => PermitMove
<1> SUFFICES ASSUME TypeInv /\ QueuedOnly, [Next]_vars PROVE PermitMove
  OBVIOUS
<1> USE DEF PermitMove, Holders, HoldingPhases, TypeInv, QueuedOnly, Goto, Callers,
        mainVars, shutVars, poolVars, reqVars
<1>1. CASE Main
  <2>1. CASE LoopCheck BY <2>1 DEF LoopCheck
  <2>2. CASE AcceptTimeout BY <2>2 DEF AcceptTimeout
  <2>3. CASE AcceptFails BY <2>3 DEF AcceptFails
  <2>4. ASSUME NEW c \in Conns, Accept(c) PROVE PermitMove
    BY <2>4 DEF Accept
  <2>5. ASSUME NEW c \in Conns, AcquirePermit(c) PROVE PermitMove
    <3>1. c \in Conns \ Holders /\ Holders' = Holders \cup {c}
      BY <2>5 DEF AcquirePermit
    <3>2. connection_sem > 0 /\ connection_sem' = connection_sem - 1
      BY <2>5 DEF AcquirePermit
    <3>3. QED BY <3>1, <3>2
  <2>6. ASSUME NEW c \in Conns, RefuseClient(c) PROVE PermitMove
    BY <2>6 DEF RefuseClient
  <2>7. ASSUME NEW c \in Conns, Submit(c) PROVE PermitMove
    BY <2>7 DEF Submit
  <2>8. ASSUME NEW c \in Conns, SubmitRejected(c) PROVE PermitMove
    BY <2>8 DEF SubmitRejected
  <2>9. QED
    BY <1>1, <2>1, <2>2, <2>3, <2>4, <2>5, <2>6, <2>7, <2>8 DEF Main
<1>2. ASSUME NEW t \in Callers, Shutdown(t) PROVE PermitMove
  <2>1. CASE StopEventSet(t) BY <2>1 DEF StopEventSet
  <2>2. CASE CloseListener(t) BY <2>2 DEF CloseListener
  <2>3. CASE RunHooks(t) BY <2>3 DEF RunHooks
  <2>4. CASE ShutdownExecutor(t) BY <2>4 DEF ShutdownExecutor
  <2>5. CASE JoinWorkers(t) BY <2>5 DEF JoinWorkers
  <2>6. QED
    BY <1>2, <2>1, <2>2, <2>3, <2>4, <2>5 DEF Shutdown
<1>3. ASSUME NEW w \in Workers, TakeJob(w) PROVE PermitMove
  BY <1>3 DEF TakeJob
<1>4. ASSUME NEW w \in Workers, FinishTask(w) PROVE PermitMove
  BY <1>4 DEF FinishTask
<1>5. ASSUME NEW w \in Workers, NEW c \in Conns, Serve(w, c) PROVE PermitMove
  <2>1. CASE Handshake(w, c) BY <2>1 DEF Handshake
  <2>2. CASE LoopTop(w, c) BY <2>2 DEF LoopTop
  <2>3. CASE ParseRequest(w, c) BY <2>3 DEF ParseRequest
  <2>4. CASE ParseFails(w, c) BY <2>4 DEF ParseFails
  <2>5. CASE UpgradeWebSocket(w, c) BY <2>5 DEF UpgradeWebSocket
  <2>6. CASE WebSocketEnds(w, c) BY <2>6 DEF WebSocketEnds
  <2>7. CASE Respond(w, c) BY <2>7 DEF Respond
  <2>8. CASE HandlerRaises(w, c) BY <2>8 DEF HandlerRaises
  <2>9. CASE WriteResponse(w, c) BY <2>9 DEF WriteResponse
  <2>10. CASE WriteFails(w, c) BY <2>10 DEF WriteFails
  <2>11. CASE HandOverPersistent(w, c) BY <2>11 DEF HandOverPersistent
  <2>12. CASE HandOverTransient(w, c) BY <2>12 DEF HandOverTransient
  <2>13. CASE HandOverFails(w, c) BY <2>13 DEF HandOverFails
  <2>14. CASE EndOfRequest(w, c) BY <2>14 DEF EndOfRequest
  <2>15. CASE WriteErrorPage(w, c) BY <2>15 DEF WriteErrorPage
  <2>16. CASE CloseClient(w, c)
    <3>1. /\ phase[c] = "closing" /\ phase' = [phase EXCEPT ![c] = "closed"]
          /\ connection_sem' = connection_sem + 1
      BY <2>16 DEF CloseClient
    <3>2. c \in Holders
      BY <3>1
    <3>3. \A d \in Conns : phase'[d] = IF d = c THEN "closed" ELSE phase[d]
      BY <3>1
    <3>4. Holders' = Holders \ {c}
      BY <3>3
    <3>5. QED BY <3>1, <3>2, <3>4
  <2>17. QED
    BY <1>5, <2>1, <2>2, <2>3, <2>4, <2>5, <2>6, <2>7, <2>8, <2>9, <2>10,
       <2>11, <2>12, <2>13, <2>14, <2>15, <2>16 DEF Serve
<1>6. CASE Terminated \/ UNCHANGED vars
  BY <1>6 DEF Terminated, vars
<1>7. QED
  BY <1>1, <1>2, <1>3, <1>4, <1>5, <1>6 DEF Next, Worker

-----------------------------------------------------------------------------
Inv == /\ TypeInv /\ Ownership /\ Stages /\ Drained /\ Framing /\ Late
       /\ PermitConservation

LEMMA InitInv == Init => Inv
<1> SUFFICES ASSUME Init PROVE Inv
  OBVIOUS
<1> USE ServerAssumption DEF Init, Callers
<1>1. TypeInv
  <2>1. workq \in Seq(Conns \cup {TaskJob}) OBVIOUS
  <2>2. todo \in [Conns -> Seq({"persistent", "transient"})] OBVIOUS
  <2>3. doing \in [Workers -> Conns \cup {TaskJob, Idle}] OBVIOUS
  <2>4. phase \in [Conns -> Phases] BY DEF Phases
  <2>5. QED BY <2>1, <2>2, <2>3, <2>4 DEF TypeInv
<1>2. Ownership BY DEF Ownership, QueuedOnly, ServedPhases
<1>3. Stages /\ Drained /\ Late BY DEF Stages, Drained, Late
<1>4. Framing BY DEF Framing
<1>5. PermitConservation
  <2>1. Holders = {} BY DEF Holders, HoldingPhases
  <2>2. Cardinality(Holders) = 0 BY <2>1, FS_EmptySet
  <2>3. QED BY <2>2 DEF PermitConservation
<1>6. QED BY <1>1, <1>2, <1>3, <1>4, <1>5 DEF Inv

LEMMA NextInv == Inv /\ [Next]_vars => Inv'
<1> SUFFICES ASSUME Inv, [Next]_vars PROVE Inv'
  OBVIOUS
<1>0. TypeInv /\ Ownership /\ QueuedOnly BY DEF Inv, Ownership
<1>1. TypeInv' BY <1>0, TypeStep
<1>2. Ownership' BY <1>0, OwnershipStep
<1>3. Stages' BY <1>0, StagesStep DEF Inv
<1>4. Drained' BY <1>0, DrainedStep DEF Inv
<1>5. Framing' BY <1>0, FramingStep DEF Inv
<1>6. Late' BY <1>0, LateStep DEF Inv
<1>7. PermitConservation'
  <2>1. PermitMove BY <1>0, PermitStep
  <2>2. IsFiniteSet(Holders) /\ Cardinality(Holders) \in Nat
    BY ServerAssumption, FS_Subset, FS_CardinalityType DEF Holders
  <2>3. connection_sem + Cardinality(Holders) = MaxConnections
    BY DEF Inv, PermitConservation
  <2>4. connection_sem \in Nat /\ connection_sem' \in Nat BY <1>0, <1>1 DEF TypeInv
  <2>5. CASE Holders' = Holders /\ connection_sem' = connection_sem
    BY <2>3, <2>5 DEF PermitConservation
  <2>6. ASSUME NEW c \in Conns \ Holders, Holders' = Holders \cup {c},
               connection_sem' = connection_sem - 1
        PROVE  PermitConservation'
    <3>1. Cardinality(Holders') = Cardinality(Holders) + 1
      BY <2>2, <2>6, FS_AddElement
    <3>2. QED BY <2>2, <2>3, <2>4, <2>6, <3>1 DEF PermitConservation
  <2>7. ASSUME NEW c \in Holders, Holders' = Holders \ {c},
               connection_sem' = connection_sem + 1
        PROVE  PermitConservation'
    <3>1. Cardinality(Holders') = Cardinality(Holders) - 1
      BY <2>2, <2>7, FS_RemoveElement
    <3>2. QED BY <2>2, <2>3, <2>4, <2>7, <3>1 DEF PermitConservation
  <2>8. QED BY <2>1, <2>5, <2>6, <2>7 DEF PermitMove
<1>8. QED BY <1>0, <1>1, <1>2, <1>3, <1>4, <1>5, <1>6, <1>7 DEF Inv

LEMMA Invariance == Spec => []Inv
BY InitInv, NextInv, PTL DEF Spec

-----------------------------------------------------------------------------
(* Every variable keeps its type, the semaphore and the request counter    *)
(* within their bounds (server.py 60-69, 154-163).                         *)
THEOREM TypeCorrect == Spec => []TypeOK
<1>1. Inv => TypeOK
  <2> SUFFICES ASSUME Inv PROVE TypeOK
    OBVIOUS
  <2>1. TypeInv /\ Framing /\ connection_sem + Cardinality(Holders) = MaxConnections
    BY DEF Inv, PermitConservation
  <2>2. Cardinality(Holders) \in Nat
    BY ServerAssumption, FS_Subset, FS_CardinalityType DEF Holders
  <2>3. connection_sem \in 0..MaxConnections
    BY <2>1, <2>2, ServerAssumption DEF TypeInv
  <2>4. requests_seen \in [Conns -> 0..MaxKeepAlive]
    BY <2>1, ServerAssumption DEF TypeInv, Framing
  <2>5. QED BY <2>1, <2>3, <2>4 DEF TypeInv, TypeOK
<1>2. QED BY <1>1, Invariance, PTL

(* A permit is free, held for a connection, or lost with a client whose    *)
(* submit() was refused (server.py 112-115, 143).                          *)
THEOREM PermitsConserved == Spec => []PermitConservation
<1>1. Inv => PermitConservation BY DEF Inv
<1>2. QED BY <1>1, Invariance, PTL

(* No permit is lost by a server that still accepts, and one at most.      *)
THEOREM PermitsLostAtExit == Spec => []LostPermitOnlyAtExit
<1>1. Inv => LostPermitOnlyAtExit BY DEF Inv, Stages, LostPermitOnlyAtExit
<1>2. QED BY <1>1, Invariance, PTL

(* The next request of a kept-alive connection is read only behind a       *)
(* complete response to each earlier one (server.py 155-182), and a        *)
(* connection out of step is closed.                                       *)
THEOREM FramingKept == Spec => []KeepAliveFraming
<1>1. Inv => KeepAliveFraming
  <2> SUFFICES ASSUME Inv, NEW c \in Conns
               PROVE  /\ phase[c] \in {"top", "reading"} =>
                           /\ heads[c] = requests_seen[c]
                           /\ bodies[c] = requests_seen[c] /\ todo[c] = <<>>
                      /\ (heads[c] # bodies[c] \/ heads[c] > requests_seen[c]) =>
                           phase[c] \in {"ws", "error", "closing"}
                      /\ heads[c] <= requests_seen[c] + 1
    BY DEF KeepAliveFraming
  <2>1. /\ phase[c] \in Phases /\ heads[c] \in Nat
        /\ bodies[c] \in Nat /\ requests_seen[c] \in Nat
    BY DEF Inv, TypeInv
  <2>2. QED BY <2>1 DEF Inv, Framing, Phases, HoldingPhases
<1>2. QED BY <1>1, Invariance, PTL

(* shutdown() returns to the main thread only when the pool is idle and    *)
(* every connection is closed, refused or dropped (server.py 119-128).     *)
THEOREM ShutdownDrains == Spec => []ShutdownQuiescence
<1>1. Inv => ShutdownQuiescence
  <2> SUFFICES ASSUME Inv, shutPc["main"] = "done" PROVE
        /\ stop_event /\ ~listening /\ workq = <<>>
        /\ \A w \in Workers : doing[w] = Idle
        /\ \A c \in Conns : phase[c] \in {"away", "closed", "refused", "dropped"}
    BY DEF ShutdownQuiescence
  <2>1. /\ TypeInv /\ Ownership /\ stop_event /\ ~listening /\ mainPc = "finally"
        /\ workq = <<>> /\ \A w \in Workers : doing[w] = Idle
    BY DEF Inv, Stages, Drained, Callers
  <2>2. ASSUME NEW c \in Conns PROVE phase[c] \in {"away", "closed", "refused", "dropped"}
    <3>1. phase[c] \notin {"accepted", "permit"} BY <2>1 DEF Inv, Stages
    <3>2. phase[c] # "queued"
      <4>1. Len(workq) = 0 BY <2>1
      <4>2. QED BY <2>1, <4>1 DEF Ownership
    <3>3. phase[c] \notin ServedPhases BY <2>1, ServerAssumption DEF Ownership
    <3>4. phase[c] \in Phases BY <2>1 DEF TypeInv
    <3>5. QED BY <3>1, <3>2, <3>3, <3>4 DEF Phases, HoldingPhases, ServedPhases
  <2>3. QED BY <2>1, <2>2
<1>2. QED BY <1>1, Invariance, PTL

(* Background tasks are handed over only behind the complete response to   *)
(* their request (server.py 177-178).                                      *)
THEOREM TasksFollowResponse == Spec => TasksAfterResponse
<1> DEFINE P(c) == Len(todo'[c]) < Len(todo[c]) /\ phase'[c] # "closed" =>
                     heads[c] = requests_seen[c] /\ bodies[c] = requests_seen[c]
           A == \A c \in Conns : P(c)
<1>1. TypeInv /\ Framing /\ [Next]_vars => [A]_vars
  <2> SUFFICES ASSUME TypeInv, Framing, Next, NEW c \in Conns,
                      Len(todo'[c]) < Len(todo[c]), phase'[c] # "closed"
               PROVE  heads[c] = requests_seen[c] /\ bodies[c] = requests_seen[c]
    BY DEF A, P
  <2>1. Len(todo[c]) \in Nat BY DEF TypeInv
  <2>2. todo'[c] # todo[c] BY <2>1
  <2>3. PICK w \in Workers, d \in Conns : Serve(w, d)
    <3>1. Main \/ (\E t \in Callers : Shutdown(t)) \/ Terminated
            \/ (\E w \in Workers : TakeJob(w) \/ FinishTask(w)) => todo' = todo
      BY DEF Main, LoopCheck, AcceptTimeout, AcceptFails, Accept, AcquirePermit,
             RefuseClient, Submit, SubmitRejected, Shutdown, StopEventSet,
             CloseListener, RunHooks, ShutdownExecutor, JoinWorkers, Terminated,
             TakeJob, FinishTask, vars, reqVars
    <3>2. QED BY <2>2, <3>1 DEF Next, Worker
  <2>4. CASE Respond(w, d)
    <3>1. c = d /\ todo[c] = <<>> BY <2>2, <2>4 DEF Respond, Framing, TypeInv
    <3>2. Len(todo[c]) = 0 BY <3>1
    <3>3. todo'[c] \in Seq({"persistent", "transient"})
      BY <2>4, ServerAssumption DEF Respond, TypeInv
    <3>4. QED BY <3>2, <3>3
  <2>5. CASE HandOverPersistent(w, d) \/ HandOverTransient(w, d)
    <3>1. c = d /\ phase[c] = "tasks"
      BY <2>2, <2>5 DEF HandOverPersistent, HandOverTransient, TypeInv
    <3>2. QED BY <3>1 DEF Framing
  <2>6. CASE CloseClient(w, d)
    <3>1. c # d BY <2>6 DEF CloseClient, Goto, TypeInv
    <3>2. QED BY <2>2, <2>6, <3>1 DEF CloseClient, TypeInv
  <2>7. CASE todo' = todo
    BY <2>2, <2>7
  <2>8. Serve(w, d) => \/ Respond(w, d) \/ HandOverPersistent(w, d)
                       \/ HandOverTransient(w, d) \/ CloseClient(w, d) \/ todo' = todo
    BY DEF Serve, Handshake, LoopTop, ParseRequest, ParseFails, UpgradeWebSocket,
           WebSocketEnds, HandlerRaises, WriteResponse, WriteFails, HandOverFails,
           EndOfRequest, WriteErrorPage, reqVars
  <2>9. QED BY <2>3, <2>4, <2>5, <2>6, <2>7, <2>8
<1>2. Inv => TypeInv /\ Framing BY DEF Inv
<1>3. QED BY <1>1, <1>2, Invariance, PTL DEF Spec, TasksAfterResponse, A, P

(* After stop_event a connection is served one more request at most        *)
(* (server.py 155).                                                        *)
THEOREM LateBounded == Spec => []OneLateRequest
<1>1. Inv => OneLateRequest BY DEF Inv, Late, OneLateRequest
<1>2. QED BY <1>1, Invariance, PTL
=============================================================================
