-------------------------- MODULE ConnectionProofs --------------------------
(***************************************************************************)
(* Proofs about what one connection goes through: the reader of a request  *)
(* (RequestReader), a WebSocket session (WebSocketSession) and the         *)
(* delivery of files, those that were uploaded included (AssetDelivery,    *)
(* AssetUpload), and the forms they are uploaded in (Multipart).           *)
(***************************************************************************)
EXTENDS RequestReader, WebSocketSession, AssetUpload, WellFoundedInduction, FiniteSetTheorems, TLAPS

-----------------------------------------------------------------------------
(* Functions defined by recursion on 1..n+1.                               *)

LEMMA Induction ==
  ASSUME NEW S, 0 \in S, \A n \in Nat : n \in S => n + 1 \in S
  PROVE  Nat \subseteq S
<1> DEFINE T == Nat \ S
<1>1. SUFFICES ASSUME T # {} PROVE FALSE
  OBVIOUS
<1>2. PICK n \in T : \A m \in T : ~ (<<m, n>> \in OpToRel(<, Nat))
  <2>1. T \subseteq Nat
    OBVIOUS
  <2> QED BY <1>1, <2>1, WFMin, NatLessThanWellFounded
<1>3. n \in Nat /\ n \notin S /\ n # 0
  OBVIOUS
<1>4. n - 1 \in Nat
  BY <1>3
<1>5. CASE n - 1 \in S
  BY <1>3, <1>4, <1>5
<1>6. CASE n - 1 \notin S
  <2>1. n - 1 \in T
    BY <1>4, <1>6
  <2>2. <<n - 1, n>> \in OpToRel(<, Nat)
    <3>1. n - 1 < n
      BY <1>3
    <3> QED BY <1>3, <1>4, <3>1 DEF OpToRel
  <2> QED BY <1>2, <2>1, <2>2
<1> QED BY <1>5, <1>6


\* The same up to K.
LEMMA Upward ==
  ASSUME NEW K \in Nat, NEW S, 0 \in S, \A n \in 1..K : n - 1 \in S => n \in S
  PROVE  \A n \in 0..K : n \in S
<1> DEFINE T == {n \in Nat : n <= K => n \in S}
<1>1. 0 \in T
  OBVIOUS
<1>2. \A n \in Nat : n \in T => n + 1 \in T
  <2> SUFFICES ASSUME NEW n \in Nat, n \in T, n + 1 <= K PROVE n + 1 \in S
    OBVIOUS
  <2>1. n \in S /\ n + 1 \in 1..K /\ (n + 1) - 1 = n
    OBVIOUS
  <2> QED BY <2>1
<1>3. Nat \subseteq T
  <2> HIDE DEF T
  <2> QED BY <1>1, <1>2, Induction
<1> QED BY <1>3

\* A set of natural numbers has a least one.
LEMMA LeastOf ==
  ASSUME NEW S \in SUBSET Nat, S # {}
  PROVE  \E n \in S : \A m \in S : n <= m
<1>1. PICK n \in S : \A m \in S : ~ (<<m, n>> \in OpToRel(<, Nat))
  BY WFMin, NatLessThanWellFounded
<1>2. \A m \in S : ~ (m < n)
  BY <1>1 DEF OpToRel
<1>3. QED BY <1>2

Steps(n, V) == [1..n -> [V -> V]]
Defined(n, V, base, F) ==
  \E f \in [1..n+1 -> V] : f[n+1] = base /\ \A i \in 1..n : f[i] = F[i][f[i+1]]

LEMMA BackwardFunction ==
  ASSUME NEW n \in Nat, NEW V, NEW base \in V, NEW F \in Steps(n, V)
  PROVE  Defined(n, V, base, F)
<1> USE DEF Steps, Defined
<1> DEFINE Is(f, lo) == /\ f \in [lo..n+1 -> V] /\ f[n+1] = base
                        /\ \A i \in lo..n : f[i] = F[i][f[i+1]]
           S == {k \in Nat : k <= n => \E f : Is(f, n + 1 - k)}
<1>1. 0 \in S
  <2> DEFINE g == [i \in n+1..n+1 |-> base]
  <2>1. Is(g, n + 1)
    OBVIOUS
  <2>2. n + 1 - 0 = n + 1
    OBVIOUS
  <2> QED BY <2>1, <2>2
<1>2. ASSUME NEW k \in Nat, k \in S PROVE k + 1 \in S
  <2>1. SUFFICES ASSUME k + 1 <= n PROVE \E f : Is(f, n + 1 - (k + 1))
    OBVIOUS
  <2>2. PICK f : Is(f, n + 1 - k)
    BY <1>2, <2>1
  <2> DEFINE lo == n - k
             g == [i \in lo..n+1 |-> IF i = lo THEN F[i][f[i+1]] ELSE f[i]]
  <2>3. lo \in 1..n /\ lo + 1 = n + 1 - k /\ lo = n + 1 - (k + 1)
    BY <2>1
  <2>4. f \in [lo+1..n+1 -> V]
    BY <2>2, <2>3
  <2>5. g[n+1] = base
    BY <2>2, <2>3
  <2>6. \A i \in lo+1..n+1 : g[i] = f[i]
    BY <2>3
  <2>7. g[lo] = F[lo][f[lo+1]] /\ f[lo+1] \in V /\ F[lo][f[lo+1]] \in V
    BY <2>3, <2>4
  <2>8. g \in [lo..n+1 -> V]
    BY <2>3, <2>4, <2>7
  <2>9. \A i \in lo..n : g[i] = F[i][g[i+1]]
    <3> SUFFICES ASSUME NEW i \in lo..n PROVE g[i] = F[i][g[i+1]]
      OBVIOUS
    <3>1. CASE i = lo
      BY <2>3, <2>6, <2>7, <3>1
    <3>2. CASE i # lo
      <4>1. i \in lo+1..n /\ i+1 \in lo+1..n+1 /\ i \in lo+1..n+1
        BY <2>3, <3>2
      <4>2. f[i] = F[i][f[i+1]]
        BY <2>2, <2>3, <4>1
      <4> QED BY <2>6, <4>1, <4>2
    <3> QED BY <3>1, <3>2
  <2> HIDE DEF g
  <2>10. Is(g, n + 1 - (k + 1))
    BY <2>3, <2>5, <2>8, <2>9
  <2> QED BY <2>10
<1>3. n \in S
  <2> HIDE DEF S
  <2> QED BY <1>1, <1>2, Induction
<1>4. PICK f : Is(f, 1)
  BY <1>3
<1> QED BY <1>4

LEMMA Downward ==
  ASSUME NEW n \in Nat, NEW S, n + 1 \in S, \A i \in 1..n : i + 1 \in S => i \in S
  PROVE  1..n+1 \subseteq S
<1> DEFINE T == {k \in Nat : k <= n => n + 1 - k \in S}
<1>1. 0 \in T
  OBVIOUS
<1>2. ASSUME NEW k \in Nat, k \in T PROVE k + 1 \in T
  <2>1. SUFFICES ASSUME k + 1 <= n PROVE n + 1 - (k + 1) \in S
    OBVIOUS
  <2>2. n + 1 - k \in S /\ n - k \in 1..n /\ (n - k) + 1 = n + 1 - k /\ n + 1 - (k + 1) = n - k
    BY <1>2, <2>1
  <2> QED BY <2>2
<1>3. Nat \subseteq T
  <2> HIDE DEF T
  <2> QED BY <1>1, <1>2, Induction
<1>4. ASSUME NEW i \in 1..n+1 PROVE i \in S
  <2>1. n + 1 - i \in Nat /\ n + 1 - i <= n /\ n + 1 - (n + 1 - i) = i
    OBVIOUS
  <2>2. n + 1 - i \in T
    BY <1>3, <2>1
  <2> QED BY <2>1, <2>2
<1> QED BY <1>4

-----------------------------------------------------------------------------
(* WebSocketSession.                                                       *)

Queued == {"data", "ping", "oldping", "pong", "oldpong", "close", "None"}
Received == {"data", "ask", "close", "pong", "oldpong"}
Framed == {"data", "reply", "ping", "oldping", "pong", "oldpong"}
Phases == {"app", "recv", "pong", "clear", "check", "put", "lock", "frame", "none",
           "shutdown", "left", "sleep", "done"}

SessionTypes ==
  /\ closed \in BOOLEAN /\ pending \in BOOLEAN /\ answered \in BOOLEAN
  /\ send_queue \in Seq(Queued)
  /\ lock \in Threads \cup {Nobody}
  /\ pc \in [Threads -> Phases]
  /\ frame \in [Threads -> Framed]
  /\ item \in Queued \ {"None"}
  /\ inbox \in Seq(Received)
  /\ late \in [Threads -> Nat]

(* close() holds its lock from the test of closed to the shutdown of the    *)
(* socket, and whoever holds it has set closed.                             *)
Closing ==
  \A t \in Threads : pc[t] \in {"frame", "none", "shutdown"} => lock = t /\ closed

(* Nothing has queued f: the session is open, or its closer has not come    *)
(* to it yet.                                                               *)
Unsent(f) ==
  /\ \A i \in 1..Len(send_queue) : send_queue[i] # f
  /\ item # f

Entered ==
  /\ ~closed => Unsent("close") /\ Unsent("None")
  /\ \A t \in Threads :
       /\ pc[t] = "frame" => Unsent("close")
       /\ pc[t] \in {"frame", "none"} => Unsent("None")

(* A thread that has queued a frame behind closed does not come to the put  *)
(* again.                                                                   *)
LateOnce ==
  \A t \in Threads : late[t] <= 1 /\ (late[t] = 1 => closed /\ pc[t] # "put")

(* recv() is between taking a pong that counts and having recorded it.      *)
Recording == pc["handler"] \in {"pong", "clear"}

(* A ping that is pending is newer than every pong recv() has recorded.     *)
Unanswered == pending => ~answered \/ Recording

SessionInv ==
  SessionTypes /\ Closing /\ Entered /\ LateOnce /\ OneFrameAfterClose /\ Unanswered

LEMMA SessionInitInv == SessionInit => SessionInv
<1> SUFFICES ASSUME SessionInit PROVE SessionInv
  OBVIOUS
<1> USE DEF SessionInit, Threads
<1>1. SessionTypes
  <2>1. pc \in [Threads -> Phases]
    BY DEF Phases
  <2>2. send_queue \in Seq(Queued) /\ inbox \in Seq(Received)
    OBVIOUS
  <2>3. frame \in [Threads -> Framed] /\ late \in [Threads -> Nat]
    BY DEF Framed
  <2>4. QED BY <2>1, <2>2, <2>3 DEF SessionTypes, Queued
<1>2. Closing
  BY DEF Closing
<1>3. Entered
  BY DEF Entered, Unsent
<1>4. LateOnce
  BY DEF LateOnce
<1>5. OneFrameAfterClose
  BY DEF OneFrameAfterClose
<1>6. Unanswered
  BY DEF Unanswered
<1>7. QED BY <1>1, <1>2, <1>3, <1>4, <1>5, <1>6 DEF SessionInv

(* Pings and pongs grow old, what closes does not.                         *)
LEMMA OlderTypes ==
  /\ \A f \in Queued : /\ Older(f) \in Queued
                       /\ \A g \in {"close", "None"} : Older(f) = g <=> f = g
  /\ \A f \in Framed : Older(f) \in Framed
  /\ \A f \in Received : Older(f) \in Received
<1>1. \A f \in Queued : Older(f) \in Queued
  BY DEF Older, Queued
<1>2. \A f \in Queued, g \in {"close", "None"} : Older(f) = g <=> f = g
  BY DEF Older, Queued
<1>3. \A f \in Framed : Older(f) \in Framed
  BY DEF Older, Framed
<1>4. \A f \in Received : Older(f) \in Received
  BY DEF Older, Received
<1> QED BY <1>1, <1>2, <1>3, <1>4

(* What a new ping makes of the frames under way.                          *)
LEMMA PingTypes ==
  ASSUME SessionTypes, NEW t \in Threads, Ping(t)
  PROVE  /\ pc' = [pc EXCEPT ![t] = "check"] /\ pc' \in [Threads -> Phases]
         /\ frame' \in [Threads -> Framed]
         /\ send_queue' \in Seq(Queued) /\ Len(send_queue') = Len(send_queue)
         /\ \A i \in 1..Len(send_queue), g \in {"close", "None"} :
              send_queue'[i] = g <=> send_queue[i] = g
         /\ inbox' \in Seq(Received)
         /\ item' \in Queued \ {"None"} /\ (item' = "close" <=> item = "close")
         /\ pending' = TRUE /\ answered' = FALSE
<1> USE DEF SessionTypes, Ping
<1>1. pc' = [pc EXCEPT ![t] = "check"] /\ pc' \in [Threads -> Phases]
  BY DEF Goto, Phases
<1>2. frame' \in [Threads -> Framed]
  <2>1. \A u \in Threads : (IF u = t THEN "ping" ELSE Older(frame[u])) \in Framed
    <3>1. "ping" \in Framed
      BY DEF Framed
    <3>2. QED BY <3>1, OlderTypes
  <2>2. QED BY <2>1
<1>3. send_queue' = [i \in 1..Len(send_queue) |-> Older(send_queue[i])] /\ Len(send_queue) \in Nat
  OBVIOUS
<1>4. \A i \in 1..Len(send_queue) : send_queue[i] \in Queued
  OBVIOUS
<1>5. send_queue' \in Seq(Queued) /\ Len(send_queue') = Len(send_queue)
  <2>1. send_queue' \in [1..Len(send_queue) -> Queued]
    BY <1>3, <1>4, OlderTypes
  <2>2. QED BY <1>3, <2>1
<1>6. \A i \in 1..Len(send_queue), g \in {"close", "None"} : send_queue'[i] = g <=> send_queue[i] = g
  BY <1>3, <1>4, OlderTypes
<1>7. inbox' \in Seq(Received)
  <2>1. inbox' = [i \in 1..Len(inbox) |-> Older(inbox[i])] /\ Len(inbox) \in Nat
    OBVIOUS
  <2>2. inbox' \in [1..Len(inbox) -> Received]
    BY <2>1, OlderTypes
  <2>3. QED BY <2>1, <2>2
<1>8. item' \in Queued \ {"None"} /\ (item' = "close" <=> item = "close")
  BY OlderTypes
<1> QED BY <1>1, <1>2, <1>5, <1>6, <1>7, <1>8

LEMMA SessionTypeStep == SessionTypes /\ [SessionNext]_sessionVars => SessionTypes'
<1> SUFFICES ASSUME SessionTypes, [SessionNext]_sessionVars PROVE SessionTypes'
  OBVIOUS
<1> USE DEF shared, client, history, Goto, SessionTypes, Threads, Phases, Queued, Framed, Received, Nobody
<1>1. ASSUME NEW t \in Threads, Check(t) PROVE SessionTypes'
  <2>1. CASE closed /\ t = "handler"
    BY <1>1, <2>1 DEF Check, Raised, Leave, NoFrame
  <2>2. CASE closed /\ t = "heartbeat"
    BY <1>1, <2>2 DEF Check, Raised, NoFrame
  <2>3. CASE ~closed
    BY <1>1, <2>3 DEF Check
  <2>4. QED BY <1>1, <2>1, <2>2, <2>3
<1>2. ASSUME NEW t \in Threads, Put(t) PROVE SessionTypes'
  <2> DEFINE f == IF frame[t] = "reply" THEN "data" ELSE frame[t]
  <2>1. send_queue' = Append(send_queue, f) /\ f \in Queued
    BY <1>2 DEF Put
  <2>2. send_queue' \in Seq(Queued)
    BY <2>1
  <2>3. late' \in [Threads -> Nat] /\ frame' \in [Threads -> Framed]
    BY <1>2 DEF Put, NoFrame
  <2>4. pc' \in [Threads -> Phases]
    <3>1. CASE t = "handler"
      BY <1>2, <3>1 DEF Put, Sent
    <3>2. CASE t = "heartbeat"
      BY <1>2, <3>2 DEF Put, Sent
    <3>3. QED BY <1>2, <3>1, <3>2
  <2>5. QED BY <1>2, <2>2, <2>3, <2>4 DEF Put
<1>3. ASSUME NEW t \in Threads, PutFull(t) PROVE SessionTypes'
  BY <1>3 DEF PutFull, NoFrame
<1>4. ASSUME NEW t \in Threads, Close(t) PROVE SessionTypes'
  <2>1. CASE closed /\ t = "handler"
    BY <1>4, <2>1 DEF Close, AfterClose, Leave
  <2>2. CASE closed /\ t = "heartbeat"
    BY <1>4, <2>2 DEF Close, AfterClose
  <2>3. CASE ~closed
    BY <1>4, <2>3 DEF Close
  <2>4. QED BY <1>4, <2>1, <2>2, <2>3
<1>5. ASSUME NEW t \in Threads, PutClose(t) PROVE SessionTypes'
  BY <1>5 DEF PutClose
<1>6. ASSUME NEW t \in Threads, PutNone(t) PROVE SessionTypes'
  BY <1>6 DEF PutNone
<1>7. ASSUME NEW t \in Threads, Shutdown(t) PROVE SessionTypes'
  BY <1>7 DEF Shutdown
<1>8. CASE App
  <2>1. CASE Ping("handler")
    BY <1>8, <2>1, PingTypes DEF App
  <2>2. CASE ~ Ping("handler")
    BY <1>8, <2>2 DEF App, Leave, SendFrame
  <2>3. QED BY <2>1, <2>2
<1>9. CASE TakeFrame
  BY <1>9 DEF TakeFrame
<1>10. CASE TakePong
  BY <1>10 DEF TakePong
<1>11. CASE ClearPending
  BY <1>11 DEF ClearPending, NoFrame
<1>12. CASE RecvEnds
  BY <1>12 DEF RecvEnds, Leave
<1>13. CASE Beat
  <2>1. CASE Ping("heartbeat")
    BY <1>13, <2>1, PingTypes DEF Beat
  <2>2. CASE ~ Ping("heartbeat")
    BY <1>13, <2>2 DEF Beat
  <2>3. QED BY <2>1, <2>2
<1>14. CASE WriterGets
  BY <1>14 DEF WriterGets
<1>15. CASE WriterSends
  BY <1>15 DEF WriterSends
<1>16. CASE WriterFails
  BY <1>16 DEF WriterFails
<1>17. CASE PeerSends
  BY <1>17 DEF PeerSends
<1>18. CASE PeerAnswers
  BY <1>18 DEF PeerAnswers
<1>19. CASE PeerStops
  BY <1>19 DEF PeerStops
<1>20. CASE Tick
  BY <1>20 DEF Tick
<1>21. CASE UNCHANGED sessionVars
  BY <1>21 DEF sessionVars
<1>22. QED BY <1>1, <1>2, <1>3, <1>4, <1>5, <1>6, <1>7, <1>8, <1>9, <1>10, <1>11, <1>12, <1>13, <1>14, <1>15, <1>16, <1>17, <1>18, <1>19, <1>20, <1>21
       DEF SessionNext, Sends, Closes, Recv, Write

(* Where a frame that was read leads its reader.                           *)
LEMMA TakenFrame ==
  ASSUME SessionTypes, TakeFrame
  PROVE  \E p \in {"app", "check", "lock", "pong", "recv"} : pc' = [pc EXCEPT !["handler"] = p]
<1>1. Head(inbox) \in Received
  BY DEF TakeFrame, SessionTypes
<1>2. QED BY <1>1 DEF TakeFrame, Goto, Received

LEMMA ClosingStep == SessionTypes /\ Closing /\ [SessionNext]_sessionVars => Closing'
<1> SUFFICES ASSUME SessionTypes /\ Closing, [SessionNext]_sessionVars PROVE Closing'
  OBVIOUS
<1> USE DEF shared, client, history, Goto, SessionTypes, Closing, Threads, Nobody
<1>1. ASSUME NEW t \in Threads, Check(t) PROVE Closing'
  BY <1>1 DEF Check, Raised, Leave, NoFrame
<1>2. ASSUME NEW t \in Threads, Put(t) PROVE Closing'
  BY <1>2 DEF Put, Sent, NoFrame
<1>3. ASSUME NEW t \in Threads, PutFull(t) PROVE Closing'
  BY <1>3 DEF PutFull, NoFrame
<1>4. ASSUME NEW t \in Threads, Close(t) PROVE Closing'
  BY <1>4 DEF Close, AfterClose, Leave
<1>5. ASSUME NEW t \in Threads, PutClose(t) PROVE Closing'
  BY <1>5 DEF PutClose
<1>6. ASSUME NEW t \in Threads, PutNone(t) PROVE Closing'
  BY <1>6 DEF PutNone
<1>7. ASSUME NEW t \in Threads, Shutdown(t) PROVE Closing'
  BY <1>7 DEF Shutdown
<1>8. CASE App
  BY <1>8 DEF App, Leave, SendFrame, Ping
<1>9. CASE TakeFrame
  BY <1>9, TakenFrame DEF TakeFrame
<1>10. CASE TakePong
  BY <1>10 DEF TakePong
<1>11. CASE ClearPending
  BY <1>11 DEF ClearPending
<1>12. CASE RecvEnds
  BY <1>12 DEF RecvEnds, Leave
<1>13. CASE Beat
  BY <1>13 DEF Beat, Ping
<1>14. CASE WriterGets
  BY <1>14 DEF WriterGets
<1>15. CASE WriterSends
  BY <1>15 DEF WriterSends
<1>16. CASE WriterFails
  BY <1>16 DEF WriterFails
<1>17. CASE PeerSends
  BY <1>17 DEF PeerSends
<1>18. CASE PeerAnswers
  BY <1>18 DEF PeerAnswers
<1>19. CASE PeerStops
  BY <1>19 DEF PeerStops
<1>20. CASE Tick
  BY <1>20 DEF Tick
<1>21. CASE UNCHANGED sessionVars
  BY <1>21 DEF sessionVars
<1>22. QED BY <1>1, <1>2, <1>3, <1>4, <1>5, <1>6, <1>7, <1>8, <1>9, <1>10, <1>11, <1>12, <1>13, <1>14, <1>15, <1>16, <1>17, <1>18, <1>19, <1>20, <1>21
       DEF SessionNext, Sends, Closes, Recv, Write

LEMMA LateStep == SessionTypes /\ LateOnce /\ [SessionNext]_sessionVars => LateOnce'
<1> SUFFICES ASSUME SessionTypes /\ LateOnce, [SessionNext]_sessionVars PROVE LateOnce'
  OBVIOUS
<1> USE DEF shared, client, history, Goto, SessionTypes, LateOnce, Threads
<1>1. ASSUME NEW t \in Threads, Check(t) PROVE LateOnce'
  BY <1>1 DEF Check, Raised, Leave, NoFrame
<1>2. ASSUME NEW t \in Threads, Put(t) PROVE LateOnce'
  <2>1. \E p \in {"app", "recv", "done", "sleep"} : pc' = [pc EXCEPT ![t] = p]
    BY <1>2 DEF Put, Sent
  <2>2. pc[t] = "put" /\ closed' = closed
    BY <1>2 DEF Put
  <2>3. late' = IF closed THEN [late EXCEPT ![t] = @ + 1] ELSE late
    BY <1>2 DEF Put
  <2>4. late[t] = 0
    BY <2>2
  <2>5. QED BY <2>1, <2>2, <2>3, <2>4
<1>3. ASSUME NEW t \in Threads, PutFull(t) PROVE LateOnce'
  BY <1>3 DEF PutFull, NoFrame
<1>4. ASSUME NEW t \in Threads, Close(t) PROVE LateOnce'
  BY <1>4 DEF Close, AfterClose, Leave
<1>5. ASSUME NEW t \in Threads, PutClose(t) PROVE LateOnce'
  BY <1>5 DEF PutClose
<1>6. ASSUME NEW t \in Threads, PutNone(t) PROVE LateOnce'
  BY <1>6 DEF PutNone
<1>7. ASSUME NEW t \in Threads, Shutdown(t) PROVE LateOnce'
  BY <1>7 DEF Shutdown
<1>8. CASE App
  BY <1>8 DEF App, Leave, SendFrame, Ping
<1>9. CASE TakeFrame
  BY <1>9, TakenFrame DEF TakeFrame
<1>10. CASE TakePong
  BY <1>10 DEF TakePong
<1>11. CASE ClearPending
  BY <1>11 DEF ClearPending, NoFrame
<1>12. CASE RecvEnds
  BY <1>12 DEF RecvEnds, Leave
<1>13. CASE Beat
  BY <1>13 DEF Beat, Ping
<1>14. CASE WriterGets
  BY <1>14 DEF WriterGets
<1>15. CASE WriterSends
  BY <1>15 DEF WriterSends
<1>16. CASE WriterFails
  BY <1>16 DEF WriterFails
<1>17. CASE PeerSends
  BY <1>17 DEF PeerSends
<1>18. CASE PeerAnswers
  BY <1>18 DEF PeerAnswers
<1>19. CASE PeerStops
  BY <1>19 DEF PeerStops
<1>20. CASE Tick
  BY <1>20 DEF Tick
<1>21. CASE UNCHANGED sessionVars
  BY <1>21 DEF sessionVars
<1>22. QED BY <1>1, <1>2, <1>3, <1>4, <1>5, <1>6, <1>7, <1>8, <1>9, <1>10, <1>11, <1>12, <1>13, <1>14, <1>15, <1>16, <1>17, <1>18, <1>19, <1>20, <1>21
       DEF SessionNext, Sends, Closes, Recv, Write

LEMMA PendingStep == SessionTypes /\ Unanswered /\ [SessionNext]_sessionVars => Unanswered'
<1> SUFFICES ASSUME SessionTypes /\ Unanswered, [SessionNext]_sessionVars PROVE Unanswered'
  OBVIOUS
<1> USE DEF shared, client, history, Goto, SessionTypes, Unanswered, Recording, Threads
<1>1. ASSUME NEW t \in Threads, Check(t) PROVE Unanswered'
  BY <1>1 DEF Check, Raised, Leave, NoFrame
<1>2. ASSUME NEW t \in Threads, Put(t) PROVE Unanswered'
  BY <1>2 DEF Put, Sent, NoFrame
<1>3. ASSUME NEW t \in Threads, PutFull(t) PROVE Unanswered'
  BY <1>3 DEF PutFull, NoFrame
<1>4. ASSUME NEW t \in Threads, Close(t) PROVE Unanswered'
  BY <1>4 DEF Close, AfterClose, Leave
<1>5. ASSUME NEW t \in Threads, PutClose(t) PROVE Unanswered'
  BY <1>5 DEF PutClose
<1>6. ASSUME NEW t \in Threads, PutNone(t) PROVE Unanswered'
  BY <1>6 DEF PutNone
<1>7. ASSUME NEW t \in Threads, Shutdown(t) PROVE Unanswered'
  BY <1>7 DEF Shutdown
<1>8. CASE App
  BY <1>8 DEF App, Leave, SendFrame, Ping
<1>9. CASE TakeFrame
  BY <1>9 DEF TakeFrame
<1>10. CASE TakePong
  BY <1>10 DEF TakePong
<1>11. CASE ClearPending
  BY <1>11 DEF ClearPending, NoFrame
<1>12. CASE RecvEnds
  BY <1>12 DEF RecvEnds, Leave
<1>13. CASE Beat
  BY <1>13 DEF Beat, Ping
<1>14. CASE WriterGets
  BY <1>14 DEF WriterGets
<1>15. CASE WriterSends
  BY <1>15 DEF WriterSends
<1>16. CASE WriterFails
  BY <1>16 DEF WriterFails
<1>17. CASE PeerSends
  BY <1>17 DEF PeerSends
<1>18. CASE PeerAnswers
  BY <1>18 DEF PeerAnswers
<1>19. CASE PeerStops
  BY <1>19 DEF PeerStops
<1>20. CASE Tick
  BY <1>20 DEF Tick
<1>21. CASE UNCHANGED sessionVars
  BY <1>21 DEF sessionVars
<1>22. QED BY <1>1, <1>2, <1>3, <1>4, <1>5, <1>6, <1>7, <1>8, <1>9, <1>10, <1>11, <1>12, <1>13, <1>14, <1>15, <1>16, <1>17, <1>18, <1>19, <1>20, <1>21
       DEF SessionNext, Sends, Closes, Recv, Write

(* What a sender adds to the queue closes nothing.                         *)
LEMMA PutFrame ==
  ASSUME SessionTypes, NEW t \in Threads, Put(t)
  PROVE  \E f \in Queued \ {"close", "None"} : send_queue' = Append(send_queue, f)
BY DEF SessionTypes, Put, Framed, Queued

LEMMA EnteredStep == SessionTypes /\ Closing /\ Entered /\ [SessionNext]_sessionVars => Entered'
<1> SUFFICES ASSUME SessionTypes /\ Closing /\ Entered, [SessionNext]_sessionVars PROVE Entered'
  OBVIOUS
<1> USE DEF shared, client, history, Goto, SessionTypes, Closing, Entered, Unsent, Threads, Nobody
<1>1. ASSUME NEW t \in Threads, Check(t) PROVE Entered'
  BY <1>1 DEF Check, Raised, Leave, NoFrame
<1>2. ASSUME NEW t \in Threads, Put(t) PROVE Entered'
  <2>1. \E p \in {"app", "recv", "done", "sleep"} : pc' = [pc EXCEPT ![t] = p]
    BY <1>2 DEF Put, Sent
  <2>2. closed' = closed /\ item' = item
    BY <1>2 DEF Put
  <2>3. \A f \in {"close", "None"} : Unsent(f) => Unsent(f)'
    <3>1. PICK f \in Queued \ {"close", "None"} : send_queue' = Append(send_queue, f)
      BY <1>2, PutFrame
    <3>2. Len(send_queue') = Len(send_queue) + 1 /\ Len(send_queue) \in Nat
      BY <3>1
    <3>3. \A i \in 1..Len(send_queue) : send_queue'[i] = send_queue[i]
      BY <3>1
    <3>4. send_queue'[Len(send_queue) + 1] = f
      BY <3>1
    <3>5. QED BY <2>2, <3>2, <3>3, <3>4
  <2> HIDE DEF Unsent
  <2>4. QED BY <2>1, <2>2, <2>3
<1>3. ASSUME NEW t \in Threads, PutFull(t) PROVE Entered'
  BY <1>3 DEF PutFull, NoFrame
<1>4. ASSUME NEW t \in Threads, Close(t) PROVE Entered'
  BY <1>4 DEF Close, AfterClose, Leave
<1>5. ASSUME NEW t \in Threads, PutClose(t) PROVE Entered'
  BY <1>5 DEF PutClose
<1>6. ASSUME NEW t \in Threads, PutNone(t) PROVE Entered'
  BY <1>6 DEF PutNone
<1>7. ASSUME NEW t \in Threads, Shutdown(t) PROVE Entered'
  BY <1>7 DEF Shutdown
<1>8. CASE App
  <2>1. CASE Ping("handler")
    <3>1. closed' = closed
      BY <1>8 DEF App
    <3>2. QED BY <2>1, <3>1, PingTypes
  <2>2. CASE ~ Ping("handler")
    BY <1>8, <2>2 DEF App, Leave, SendFrame
  <2>3. QED BY <2>1, <2>2
<1>9. CASE TakeFrame
  BY <1>9, TakenFrame DEF TakeFrame
<1>10. CASE TakePong
  BY <1>10 DEF TakePong
<1>11. CASE ClearPending
  BY <1>11 DEF ClearPending, NoFrame
<1>12. CASE RecvEnds
  BY <1>12 DEF RecvEnds, Leave
<1>13. CASE Beat
  <2>1. CASE Ping("heartbeat")
    <3>1. closed' = closed
      BY <1>13 DEF Beat
    <3>2. QED BY <2>1, <3>1, PingTypes
  <2>2. CASE ~ Ping("heartbeat")
    BY <1>13, <2>2 DEF Beat
  <2>3. QED BY <2>1, <2>2
<1>14. CASE WriterGets
  BY <1>14 DEF WriterGets
<1>15. CASE WriterSends
  BY <1>15 DEF WriterSends
<1>16. CASE WriterFails
  BY <1>16 DEF WriterFails
<1>17. CASE PeerSends
  BY <1>17 DEF PeerSends
<1>18. CASE PeerAnswers
  BY <1>18 DEF PeerAnswers
<1>19. CASE PeerStops
  BY <1>19 DEF PeerStops
<1>20. CASE Tick
  BY <1>20 DEF Tick
<1>21. CASE UNCHANGED sessionVars
  BY <1>21 DEF sessionVars
<1>22. QED BY <1>1, <1>2, <1>3, <1>4, <1>5, <1>6, <1>7, <1>8, <1>9, <1>10, <1>11, <1>12, <1>13, <1>14, <1>15, <1>16, <1>17, <1>18, <1>19, <1>20, <1>21
       DEF SessionNext, Sends, Closes, Recv, Write

LEMMA OnceStep == SessionTypes /\ LateOnce /\ LateOnce' /\ Entered /\ OneFrameAfterClose /\ [SessionNext]_sessionVars => OneFrameAfterClose'
<1> SUFFICES ASSUME SessionTypes /\ LateOnce /\ LateOnce' /\ Entered /\ OneFrameAfterClose, [SessionNext]_sessionVars PROVE OneFrameAfterClose'
  OBVIOUS
<1> USE DEF shared, client, history, Goto, SessionTypes, LateOnce, Entered, Unsent, OneFrameAfterClose, Threads
<1>1. ASSUME NEW t \in Threads, Check(t) PROVE OneFrameAfterClose'
  BY <1>1 DEF Check, Raised, Leave, NoFrame
<1>2. ASSUME NEW t \in Threads, Put(t) PROVE OneFrameAfterClose'
  <2>1. PICK f \in Queued \ {"close", "None"} : send_queue' = Append(send_queue, f)
    BY <1>2, PutFrame
  <2>2. item' = item /\ Len(send_queue') = Len(send_queue) + 1 /\ Len(send_queue) \in Nat
    BY <1>2, <2>1 DEF Put
  <2>3. \A i \in 1..Len(send_queue) : send_queue'[i] = send_queue[i]
    BY <2>1
  <2>4. send_queue'[Len(send_queue) + 1] = f
    BY <2>1
  <2>5. QED BY <2>1, <2>2, <2>3, <2>4
<1>3. ASSUME NEW t \in Threads, PutFull(t) PROVE OneFrameAfterClose'
  BY <1>3 DEF PutFull, NoFrame
<1>4. ASSUME NEW t \in Threads, Close(t) PROVE OneFrameAfterClose'
  BY <1>4 DEF Close, AfterClose, Leave
<1>5. ASSUME NEW t \in Threads, PutClose(t) PROVE OneFrameAfterClose'
  BY <1>5 DEF PutClose
<1>6. ASSUME NEW t \in Threads, PutNone(t) PROVE OneFrameAfterClose'
  BY <1>6 DEF PutNone
<1>7. ASSUME NEW t \in Threads, Shutdown(t) PROVE OneFrameAfterClose'
  BY <1>7 DEF Shutdown
<1>8. CASE App
  <2>1. CASE Ping("handler")
    <3>1. /\ Len(send_queue') = Len(send_queue) /\ Len(send_queue) \in Nat
          /\ \A i \in 1..Len(send_queue), g \in {"close", "None"} :
                send_queue'[i] = g <=> send_queue[i] = g
          /\ (item' = "close" <=> item = "close")
      <4> HIDE DEF SessionTypes, LateOnce, Entered, Unsent, OneFrameAfterClose
      <4>1. Len(send_queue) \in Nat
        BY DEF SessionTypes
      <4>2. QED BY <2>1, <4>1, PingTypes DEF Threads
    <3>2. DOMAIN send_queue' = 1..Len(send_queue) /\ DOMAIN send_queue = 1..Len(send_queue)
      BY <2>1, <3>1, PingTypes
    <3>3. \A i, j \in DOMAIN send_queue' :
            send_queue'[i] \in {"close", "None"} /\ send_queue'[i] = send_queue'[j] => i = j
      <4> SUFFICES ASSUME NEW i \in 1..Len(send_queue), NEW j \in 1..Len(send_queue),
                          NEW g \in {"close", "None"}, send_queue'[i] = g, send_queue'[j] = g
                   PROVE  i = j
        BY <3>2
      <4>1. send_queue[i] = g /\ send_queue[j] = g
        BY <3>1
      <4>2. QED BY <3>2, <4>1
    <3>4. \A i \in DOMAIN send_queue' : ~ (send_queue'[i] = "close" /\ item' = "close")
      BY <3>1, <3>2
    <3>5. QED BY <3>3, <3>4
  <2>2. CASE ~ Ping("handler")
    BY <1>8, <2>2 DEF App, Leave, SendFrame
  <2>3. QED BY <2>1, <2>2
<1>9. CASE TakeFrame
  BY <1>9 DEF TakeFrame
<1>10. CASE TakePong
  BY <1>10 DEF TakePong
<1>11. CASE ClearPending
  BY <1>11 DEF ClearPending, NoFrame
<1>12. CASE RecvEnds
  BY <1>12 DEF RecvEnds, Leave
<1>13. CASE Beat
  <2>1. CASE Ping("heartbeat")
    <3>1. /\ Len(send_queue') = Len(send_queue) /\ Len(send_queue) \in Nat
          /\ \A i \in 1..Len(send_queue), g \in {"close", "None"} :
                send_queue'[i] = g <=> send_queue[i] = g
          /\ (item' = "close" <=> item = "close")
      <4> HIDE DEF SessionTypes, LateOnce, Entered, Unsent, OneFrameAfterClose
      <4>1. Len(send_queue) \in Nat
        BY DEF SessionTypes
      <4>2. QED BY <2>1, <4>1, PingTypes DEF Threads
    <3>2. DOMAIN send_queue' = 1..Len(send_queue) /\ DOMAIN send_queue = 1..Len(send_queue)
      BY <2>1, <3>1, PingTypes
    <3>3. \A i, j \in DOMAIN send_queue' :
            send_queue'[i] \in {"close", "None"} /\ send_queue'[i] = send_queue'[j] => i = j
      <4> SUFFICES ASSUME NEW i \in 1..Len(send_queue), NEW j \in 1..Len(send_queue),
                          NEW g \in {"close", "None"}, send_queue'[i] = g, send_queue'[j] = g
                   PROVE  i = j
        BY <3>2
      <4>1. send_queue[i] = g /\ send_queue[j] = g
        BY <3>1
      <4>2. QED BY <3>2, <4>1
    <3>4. \A i \in DOMAIN send_queue' : ~ (send_queue'[i] = "close" /\ item' = "close")
      BY <3>1, <3>2
    <3>5. QED BY <3>3, <3>4
  <2>2. CASE ~ Ping("heartbeat")
    BY <1>13, <2>2 DEF Beat
  <2>3. QED BY <2>1, <2>2
<1>14. CASE WriterGets
  BY SMTT(30), <1>14 DEF WriterGets
<1>15. CASE WriterSends
  BY <1>15 DEF WriterSends
<1>16. CASE WriterFails
  BY <1>16 DEF WriterFails
<1>17. CASE PeerSends
  BY <1>17 DEF PeerSends
<1>18. CASE PeerAnswers
  BY <1>18 DEF PeerAnswers
<1>19. CASE PeerStops
  BY <1>19 DEF PeerStops
<1>20. CASE Tick
  BY <1>20 DEF Tick
<1>21. CASE UNCHANGED sessionVars
  BY <1>21 DEF sessionVars
<1>22. QED BY <1>1, <1>2, <1>3, <1>4, <1>5, <1>6, <1>7, <1>8, <1>9, <1>10, <1>11, <1>12, <1>13, <1>14, <1>15, <1>16, <1>17, <1>18, <1>19, <1>20, <1>21
       DEF SessionNext, Sends, Closes, Recv, Write

(* The invariant of the session, for every interval, timeout, queue size   *)
(* and number of frames under way.                                         *)
THEOREM SessionInvariant == SessionSpec => []SessionInv
<1>1. SessionInv /\ [SessionNext]_sessionVars => SessionInv'
  BY SessionTypeStep, ClosingStep, LateStep, PendingStep, EnteredStep, OnceStep DEF SessionInv
<1>2. QED BY SessionInitInv, <1>1, PTL DEF SessionSpec

(* However the handler, the heartbeat and the writer interleave, one close *)
(* frame and one None enter the queue, and behind them each thread at most *)
(* once the frame it was about to queue (_enqueue_frame, close()).         *)
THEOREM CloseIsQueuedOnce == SessionSpec => []OneFrameAfterClose
<1>1. SessionInv => OneFrameAfterClose
  BY DEF SessionInv
<1>2. QED BY SessionInvariant, <1>1, PTL

(* heartbeat() gives a client up only when recv() has taken no pong for    *)
(* the newest ping, or is just recording it (websocket.py 97-102, 127-135).*)
THEOREM HeartbeatIsJustified == SessionSpec => HeartbeatJustified
<1> DEFINE Justified == pc["heartbeat"] = "sleep" /\ pc'["heartbeat"] = "lock" =>
                          ~answered \/ Recording
<1>1. SessionInv /\ [SessionNext]_sessionVars => [Justified]_sessionVars
  <2> SUFFICES ASSUME SessionInv, SessionNext, pc["heartbeat"] = "sleep", pc'["heartbeat"] = "lock"
               PROVE  ~answered \/ Recording
    BY DEF sessionVars
  <2> USE DEF SessionInv, SessionTypes, Threads, Goto
  <2>1. ASSUME NEW t \in Threads, Sends(t) \/ Closes(t) PROVE FALSE
    BY <2>1 DEF Sends, Check, Put, PutFull, Raised, Sent, Leave,
                Closes, Close, AfterClose, PutClose, PutNone, Shutdown
  <2>2. CASE App
    BY <2>2 DEF App, Leave, SendFrame, Ping
  <2>3. CASE Recv
    BY <2>3 DEF Recv, TakeFrame, TakePong, ClearPending, RecvEnds, Leave
  <2>4. CASE Beat
    BY <2>4 DEF Beat, Ping, Unanswered
  <2>5. CASE Write \/ PeerSends \/ PeerAnswers \/ PeerStops \/ Tick
    BY <2>5 DEF Write, WriterGets, WriterSends, WriterFails, PeerSends, PeerAnswers, PeerStops, Tick
  <2>6. QED BY <2>1, <2>2, <2>3, <2>4, <2>5 DEF SessionNext
<1>2. QED BY SessionInvariant, <1>1, PTL DEF SessionSpec, HeartbeatJustified, Recording

-----------------------------------------------------------------------------
(* AssetDelivery and AssetUpload.                                          *)

Codings == {"gzip", "deflate"}
Headers == SUBSET [coding : {"gzip", "deflate"}, lower : BOOLEAN, weight : {0, 1}]
Responses ==
  [status : Nat, from : Files \cup {"none"}, tag : Nat \X Nat, data : Seq(Nat), span : Int \X Int, size : Nat,
   codings : Seq(Codings), encoding : Codings \cup {Unset}, length : SUBSET Seq(Codings), accept : Headers]

(* What a middleware leaves of a response.                                 *)
SameBody(r, q) ==
  /\ r.status = q.status /\ r.from = q.from /\ r.tag = q.tag /\ r.data = q.data
  /\ r.span = q.span /\ r.size = q.size /\ r.accept = q.accept

EncodedAsSaid(r) ==
  /\ r.codings = IF r.encoding = Unset THEN <<>> ELSE <<r.encoding>>
  /\ r.encoding \in CodingsNamed(r.accept) \cup {Unset}
  /\ r.length \subseteq {r.codings}

LEMMA FoundIsNamed == \A header : CodingsFound(header) \subseteq CodingsNamed(header)
BY DEF CodingsFound, CodingsNamed

LEMMA CompressKeeps ==
  ASSUME NEW r \in Responses, NEW mw
  PROVE  /\ Compress(mw, r) \in Responses /\ SameBody(Compress(mw, r), r)
         /\ EncodedAsSaid(r) => EncodedAsSaid(Compress(mw, r))
<1> DEFINE known  == IF mw = "compression" THEN {"gzip", "deflate"} ELSE {"gzip"}
           usable == known \cap CodingsNamed(r.accept)
           coding == IF "gzip" \in usable THEN "gzip" ELSE "deflate"
           coded == [r EXCEPT !.codings = Append(@, coding), !.encoding = coding, !.length = {Append(r.codings, coding)}]
<1>1. CASE r.encoding # Unset \/ Len(r.data) < MinSize \/ usable = {}
  BY <1>1 DEF Compress, SameBody
<1>2. CASE ~ (r.encoding # Unset \/ Len(r.data) < MinSize \/ usable = {})
  <2>1. Compress(mw, r) = coded
    BY <1>2 DEF Compress
  <2>2. coding \in Codings /\ coding \in CodingsNamed(r.accept) /\ coding # Unset
    BY <1>2 DEF Responses, Codings, Unset
  <2>3. Append(r.codings, coding) \in Seq(Codings)
    BY <2>2 DEF Responses
  <2> HIDE DEF coding
  <2>4. coded \in Responses
    BY <2>2, <2>3 DEF Responses
  <2>5. /\ coded.codings = Append(r.codings, coding) /\ coded.encoding = coding
        /\ coded.length = {Append(r.codings, coding)} /\ coded.accept = r.accept
    BY DEF Responses
  <2>6. SameBody(coded, r)
    BY DEF SameBody, Responses
  <2>7. ASSUME EncodedAsSaid(r) PROVE EncodedAsSaid(coded)
    <3>1. r.codings = <<>>
      BY <1>2, <2>7 DEF EncodedAsSaid
    <3>2. Append(r.codings, coding) = <<coding>>
      BY <3>1
    <3> QED BY <2>2, <2>5, <3>2 DEF EncodedAsSaid
  <2> QED BY <2>1, <2>4, <2>6, <2>7
<1> QED BY <1>1, <1>2

(* What a response is on its way back through the middlewares.             *)
LEMMA ThroughKeeps ==
  ASSUME NEW r \in Responses, NEW M, chain \in Seq(M)
  PROVE  /\ Through(r)[1] \in Responses /\ SameBody(Through(r)[1], r)
         /\ EncodedAsSaid(r) => EncodedAsSaid(Through(r)[1])
<1> DEFINE n == Len(chain)
           F == [i \in 1..n |-> [x \in Responses |-> Compress(chain[i], x)]]
           Is(f) == f = [i \in 1..n+1 |-> IF i = n + 1 THEN r ELSE Compress(chain[i], f[i + 1])]
<1>1. n \in Nat
  OBVIOUS
<1>2. F \in Steps(n, Responses)
  BY CompressKeeps DEF Steps
<1>3. PICK f \in [1..n+1 -> Responses] : f[n+1] = r /\ \A i \in 1..n : f[i] = F[i][f[i+1]]
  <2>1. r \in Responses
    OBVIOUS
  <2> HIDE DEF F, n
  <2>2. Defined(n, Responses, r, F)
    BY <1>1, <1>2, <2>1, BackwardFunction
  <2> QED BY <2>2 DEF Defined
<1>4. Is(f)
  <2>1. \A i \in 1..n : f[i] = Compress(chain[i], f[i+1])
    <3> SUFFICES ASSUME NEW i \in 1..n PROVE f[i] = Compress(chain[i], f[i+1])
      OBVIOUS
    <3>1. f[i+1] \in Responses /\ f[i] = F[i][f[i+1]]
      <4> HIDE DEF F, n
      <4> QED BY <1>1, <1>3
    <3> QED BY <3>1
  <2>2. \A i \in 1..n+1 : f[i] = IF i = n + 1 THEN r ELSE Compress(chain[i], f[i + 1])
    BY <1>1, <1>3, <2>1
  <2> HIDE DEF F
  <2> QED BY <1>3, <2>2
<1>5. Is(Through(r))
  <2>1. \E g : Is(g)
    BY <1>4
  <2> QED BY <2>1 DEF Through
<1> DEFINE t == Through(r)
<1>t. t = [i \in 1..n+1 |-> IF i = n + 1 THEN r ELSE Compress(chain[i], t[i + 1])]
  BY <1>5
<1> HIDE DEF t
<1> DEFINE S == {i \in 1..n+1 : t[i] \in Responses /\ SameBody(t[i], r) /\ (EncodedAsSaid(r) => EncodedAsSaid(t[i]))}
<1>6. n + 1 \in S
  <2>1. t[n+1] = r
    BY <1>1, <1>t
  <2> QED BY <1>1, <2>1 DEF SameBody
<1>7. ASSUME NEW i \in 1..n, i + 1 \in S PROVE i \in S
  <2>1. t[i] = Compress(chain[i], t[i+1])
    <3> HIDE DEF n
    <3> QED BY <1>1, <1>t
  <2>2. i \in 1..n+1
    BY <1>1
  <2> QED BY <1>7, <2>1, <2>2, CompressKeeps DEF SameBody
<1>8. 1..n+1 \subseteq S
  <2> HIDE DEF S, n
  <2> QED BY <1>1, <1>6, <1>7, Downward
<1>9. 1 \in S
  <2> HIDE DEF S, n
  <2> QED BY <1>1, <1>8
<1> QED BY <1>9 DEF t

Contents == [mtime : Nat \ {0}, data : Seq(Nat)]
Here(f) == files[f].mtime # 0

DeliveryTypes ==
  /\ files \in [Files -> {Absent} \cup Contents] /\ clock \in Nat
  /\ url \in Urls /\ chain \in Seq({"gzip", "compression"})
  /\ saving # NotSaving => saving.file \in Files /\ saving = [file |-> saving.file, left |-> saving.left]
  /\ request.tag \in Nat \X Nat /\ request.target \in Files \cup {"none"}
  /\ request = [step |-> request.step, inm |-> request.inm, target |-> request.target,
                tag |-> request.tag, seen |-> request.seen]
  /\ response \in Responses
  /\ copy = [tag |-> copy.tag, data |-> copy.data] /\ copy.tag \in Nat \X Nat
  /\ download = [tag |-> download.tag, size |-> download.size, parts |-> download.parts,
                 seen |-> download.seen, torn |-> download.torn]
  /\ download.tag \in Nat \X Nat /\ download.torn \in BOOLEAN

(* A write is later than all before it: a time names one file and content. *)
Written ==
  /\ \A f \in Files : files[f].mtime <= clock
  /\ \A f, g \in Files : Here(f) /\ files[f].mtime = files[g].mtime => f = g
  /\ saving # NotSaving => Here(saving.file)

(* A file that still has the time m has the content d.                     *)
Dated(m, d) == m <= clock /\ \A f \in Files : Here(f) /\ files[f].mtime = m => files[f].data = d

Tagged ==
  /\ Dated(copy.tag[1], copy.data)
  /\ request.inm \in {NoTag, copy.tag}
  /\ Dated(download.tag[1], download.seen)
  /\ request.step \in {"stat", "read"} => request.target # "none"
  /\ request.step = "read" =>
       /\ request.tag[1] # 0 /\ Dated(request.tag[1], request.seen)
       /\ \A f \in Files : Here(f) /\ files[f].mtime = request.tag[1] => f = request.target
       /\ download.tag = request.tag => download.seen = request.seen

(* A request for an asset finds an asset, or nothing.                      *)
Targeted == url = "asset" => request.target \in {"none", "asset"}

DeliveryInv ==
  /\ DeliveryTypes /\ Written /\ Tagged /\ Targeted
  /\ NotModifiedIsCurrent /\ PartsOfOneFile /\ EncodedOnce /\ AssetMissIs404

(* Any step of the server or of whoever writes the files, saving a file of *)
(* any length.                                                             *)
DeliveryStep == (\E f \in Files : \E n : SaveStart(f, n)) \/ SaveChunk \/ (\E f \in Files : RemoveFile(f)) \/ Serve

LEMMA DeliveryInitInv == DeliveryInit => DeliveryInv
<1> SUFFICES ASSUME DeliveryInit PROVE DeliveryInv
  OBVIOUS
<1> USE DEF DeliveryInit, Files, NoDownload, NoCopy, Idle, NoResponse, NoTag, NotSaving, Absent
<1>1. DeliveryTypes
  <2>1. files \in [Files -> {Absent} \cup Contents]
    <3>1. <<1, 2>> \in Seq(Nat) /\ <<3, 4>> \in Seq(Nat)
      <4>1. 1 \in Nat /\ 2 \in Nat /\ 3 \in Nat /\ 4 \in Nat
        OBVIOUS
      <4>2. QED BY <4>1
    <3>2. [mtime |-> 2, data |-> <<1, 2>>] \in Contents /\ [mtime |-> 4, data |-> <<3, 4>>] \in Contents
      <4> HIDE DEF DeliveryInit
      <4>1. 2 \in Nat \ {0} /\ 4 \in Nat \ {0}
        OBVIOUS
      <4>2. QED BY <3>1, <4>1 DEF Contents
    <3>3. QED BY SMTT(30), <3>2
  <2>2. chain \in Seq({"gzip", "compression"})
    BY DeliveryAssumption
  <2>3. response \in Responses
    BY DEF Responses, Headers, Unset
  <2>4. QED BY <2>1, <2>2, <2>3 DEF DeliveryTypes
<1>2. Written
  BY DEF Written, Here
<1>3. Tagged
  BY DEF Tagged, Dated, Here
<1>4. QED BY <1>1, <1>2, <1>3 DEF DeliveryInv, Targeted, NotModifiedIsCurrent, PartsOfOneFile, EncodedOnce, AssetMissIs404

(* The route of an asset comes first.                                      *)
LEMMA AssetRoute == url = "asset" => Handler = "asset" /\ FileOf = "asset" /\ ~SpaFallback
<1> SUFFICES ASSUME url = "asset" PROVE Handler = "asset"
  BY DEF FileOf, SpaFallback
<1> DEFINE Q(i) == url \in Routes[i].matches /\ \A j \in 1..(i - 1) : url \notin Routes[j].matches
<1>1. DOMAIN Routes = 1..2 /\ Routes[1].name = "asset" /\ url \in Routes[1].matches
  BY DEF Routes
<1>2. Q(1)
  BY <1>1
<1>3. \A i \in 1..2 : Q(i) => i = 1
  BY <1>1
<1>4. Handler = Routes[CHOOSE i \in 1..2 : Q(i)].name
  BY <1>1 DEF Handler
<1> HIDE DEF Q
<1>5. (CHOOSE i \in 1..2 : Q(i)) = 1
  BY <1>2, <1>3
<1> QED BY <1>1, <1>4, <1>5

(* What a write leaves of the dates.                                       *)
LEMMA Overwritten ==
  ASSUME DeliveryTypes, Written, NEW f \in Files, NEW d \in Seq(Nat),
         files' = [files EXCEPT ![f] = [mtime |-> clock + 1, data |-> d]], clock' = clock + 1
  PROVE  /\ files' \in [Files -> {Absent} \cup Contents] /\ clock' \in Nat
         /\ \A g \in Files : files'[g].mtime <= clock'
         /\ \A g, h \in Files : Here(g)' /\ files'[g].mtime = files'[h].mtime => g = h
         /\ Here(f)'
         /\ \A m \in Nat : \A c : Dated(m, c) => m <= clock' /\ \A g \in Files : Here(g)' /\ files'[g].mtime = m => files'[g].data = c
         /\ \A m \in Nat, g \in Files : m <= clock /\ Here(g)' /\ files'[g].mtime = m => Here(g) /\ files[g].mtime = m
<1> USE DEF DeliveryTypes, Written, Here
<1>1. \A g \in Files : files[g].mtime \in Nat
  BY DEF Contents, Absent
<1>2. [mtime |-> clock + 1, data |-> d] \in Contents
  BY DEF Contents
<1>3. files' \in [Files -> {Absent} \cup Contents] /\ clock' \in Nat
  BY <1>2
<1>4. \A g \in Files : files'[g] = IF g = f THEN [mtime |-> clock + 1, data |-> d] ELSE files[g]
  OBVIOUS
<1>5. files'[f].mtime = clock + 1
  BY <1>4
<1> HIDE DEF DeliveryTypes
<1>t. clock \in Nat
  BY DEF DeliveryTypes
<1>6. \A m \in Nat, g \in Files : m <= clock /\ files'[g].mtime = m => g # f /\ files'[g] = files[g]
  BY <1>4, <1>5, <1>t
<1>7. \A g, h \in Files : Here(g)' /\ files'[g].mtime = files'[h].mtime => g = h
  BY <1>1, <1>4, <1>5, <1>t
<1>8. \A m \in Nat : \A c : Dated(m, c) => m <= clock' /\ \A g \in Files : Here(g)' /\ files'[g].mtime = m => files'[g].data = c
  BY <1>6, <1>t DEF Dated
<1> QED BY <1>1, <1>3, <1>4, <1>5, <1>6, <1>7, <1>8, <1>t

(* A write keeps the invariant, whatever it writes.                        *)
LEMMA WriteInv ==
  ASSUME DeliveryInv, NEW f \in Files, NEW d \in Seq(Nat), NEW n,
         files' = [files EXCEPT ![f] = [mtime |-> clock + 1, data |-> d]], clock' = clock + 1,
         saving' \in {NotSaving, [file |-> f, left |-> n]},
         UNCHANGED <<url, chain, request, response, copy, download>>
  PROVE  DeliveryInv'
<1> USE DEF DeliveryInv
<1>1. files' = [files EXCEPT ![f] = [mtime |-> clock + 1, data |-> d]]
  OBVIOUS
<1>2. DeliveryTypes' /\ Written'
  <2> DEFINE s == [file |-> f, left |-> n]
  <2>1. saving' # NotSaving => saving' = s
    OBVIOUS
  <2>2. s.file = f /\ s = [file |-> s.file, left |-> s.left]
    OBVIOUS
  <2> HIDE DEF s
  <2>3. QED BY <1>1, <2>1, <2>2, Overwritten DEF DeliveryTypes, Written
<1>3. Tagged'
  <2>1. /\ \A m \in Nat : \A c : Dated(m, c) => m <= clock' /\ \A g \in Files : Here(g)' /\ files'[g].mtime = m => files'[g].data = c
        /\ \A m \in Nat, g \in Files : m <= clock /\ Here(g)' /\ files'[g].mtime = m => Here(g) /\ files[g].mtime = m
    BY <1>1, Overwritten
  <2>2. copy.tag[1] \in Nat /\ download.tag[1] \in Nat /\ request.tag[1] \in Nat
    BY DEF DeliveryTypes
  <2>3. copy' = copy /\ download' = download /\ request' = request
    OBVIOUS
  <2>4. /\ Dated(copy.tag[1], copy.data)' /\ Dated(download.tag[1], download.seen)'
        /\ request.step = "read" => Dated(request.tag[1], request.seen)'
    <3>1. /\ Dated(copy.tag[1], copy.data) /\ Dated(download.tag[1], download.seen)
          /\ request.step = "read" => Dated(request.tag[1], request.seen)
      BY DEF Tagged
    <3> DEFINE Still(m, c) == m <= clock' /\ \A g \in Files : Here(g)' /\ files'[g].mtime = m => files'[g].data = c
    <3>2. \A m \in Nat : \A c : Dated(m, c) => Still(m, c)
      BY <2>1
    <3> HIDE DEF Still
    <3>3. /\ Still(copy.tag[1], copy.data) /\ Still(download.tag[1], download.seen)
          /\ request.step = "read" => Still(request.tag[1], request.seen)
      BY <2>2, <3>1, <3>2
    <3>4. QED BY <2>3, <3>3 DEF Still, Dated
  <2>5. request.step = "read" => \A g \in Files : Here(g)' /\ files'[g].mtime = request.tag[1] => g = request.target
    BY <2>1, <2>2, <2>3 DEF Tagged, Dated
  <2>6. QED BY <2>2, <2>3, <2>4, <2>5 DEF Tagged
<1>4. QED BY <1>2, <1>3 DEF Targeted, NotModifiedIsCurrent, PartsOfOneFile, EncodedOnce, AssetMissIs404

LEMMA SaveStartInv ==
  ASSUME DeliveryInv, NEW f \in Files, NEW n, SaveStart(f, n)
  PROVE  DeliveryInv'
<1>1. <<>> \in Seq(Nat)
  OBVIOUS
<1>2. QED BY <1>1, WriteInv DEF SaveStart

LEMMA SaveChunkInv ==
  ASSUME DeliveryInv, SaveChunk
  PROVE  DeliveryInv'
<1> DEFINE f == saving.file
           d == Append(files[f].data, clock + 1)
<1>1. f \in Files /\ saving = [file |-> f, left |-> saving.left] /\ files[f] \in Contents /\ clock \in Nat
  BY DEF SaveChunk, DeliveryInv, DeliveryTypes, Written, Here, Absent
<1>2. d \in Seq(Nat)
  BY <1>1 DEF Contents
<1>3. files' = [files EXCEPT ![f] = [mtime |-> clock + 1, data |-> d]]
  BY <1>1 DEF SaveChunk, DeliveryInv, DeliveryTypes
<1>4. saving' \in {NotSaving, [file |-> f, left |-> saving.left - 1]}
  <2>1. [saving EXCEPT !.left = @ - 1] = [file |-> f, left |-> saving.left - 1]
    BY <1>1
  <2>2. QED BY <2>1 DEF SaveChunk
<1> HIDE DEF f, d
<1>5. QED BY <1>1, <1>2, <1>3, <1>4, WriteInv DEF SaveChunk

LEMMA RemoveFileInv ==
  ASSUME DeliveryInv, NEW f \in Files, RemoveFile(f)
  PROVE  DeliveryInv'
<1> USE DEF DeliveryInv, RemoveFile
<1>1. /\ \A g \in Files : files'[g] = IF g = f THEN Absent ELSE files[g]
      /\ files' \in [Files -> {Absent} \cup Contents]
  BY DEF DeliveryTypes
<1>2. Absent.mtime = 0
  BY DEF Absent
<1>3. \A g \in Files : Here(g)' => g # f /\ Here(g) /\ files'[g] = files[g]
  BY <1>1, <1>2 DEF Here
<1>4. DeliveryTypes'
  BY <1>1 DEF DeliveryTypes
<1>5. Written'
  <2>1. \A g \in Files : files'[g].mtime <= clock
    BY <1>1, <1>2 DEF DeliveryTypes, Written
  <2>2. ASSUME NEW g \in Files, NEW h \in Files, Here(g)', files'[g].mtime = files'[h].mtime PROVE g = h
    <3>1. Here(h)'
      BY <2>2 DEF Here
    <3>2. QED BY <1>3, <2>2, <3>1 DEF Written
  <2>3. QED BY <2>1, <2>2 DEF Written
<1>t. Tagged'
  BY <1>3 DEF Tagged, Dated
<1>6. QED BY <1>4, <1>5, <1>t DEF Targeted, NotModifiedIsCurrent, PartsOfOneFile, EncodedOnce, AssetMissIs404

LEMMA NoResponseType == NoResponse \in Responses /\ EncodedAsSaid(NoResponse) /\ NoResponse.length = {} /\ NoResponse.codings = <<>>
                        /\ NoResponse.encoding = Unset /\ NoResponse.from = "none" /\ NoResponse.status = 0
<1>1. NoTag \in Nat \X Nat /\ <<0, 0>> \in Int \X Int
  BY DEF NoTag
<1>2. <<>> \in Seq(Nat) /\ <<>> \in Seq(Codings)
  OBVIOUS
<1>3. NoResponse \in Responses
  <2>1. {} \in SUBSET Seq(Codings) /\ {} \in Headers /\ Unset \in Codings \cup {Unset}
        /\ "none" \in Files \cup {"none"} /\ 0 \in Nat
    BY DEF Headers
  <2>2. QED BY <1>1, <1>2, <2>1 DEF Responses, NoResponse
<1>4. /\ NoResponse.from = "none" /\ NoResponse.codings = <<>> /\ NoResponse.encoding = Unset
      /\ NoResponse.length = {} /\ NoResponse.status = 0
  BY DEF NoResponse
<1>5. QED BY <1>3, <1>4 DEF EncodedAsSaid

(* NoResponse with a status.                                               *)
LEMMA StatusType ==
  ASSUME NEW code \in Nat
  PROVE  /\ [NoResponse EXCEPT !.status = code] \in Responses
         /\ [NoResponse EXCEPT !.status = code].status = code
         /\ \A x \in {"from", "codings", "encoding", "length"} :
              [NoResponse EXCEPT !.status = code][x] = NoResponse[x]
<1> DEFINE r == [NoResponse EXCEPT !.status = code]
<1>1. NoResponse \in Responses
  BY NoResponseType
<1>2. r \in Responses
  BY ZenonT(40), <1>1 DEF Responses
<1>3. DOMAIN NoResponse = {"status", "from", "tag", "data", "span", "size", "codings", "encoding", "length", "accept"}
  BY DEF NoResponse
<1>4. r.status = code /\ \A x \in {"from", "codings", "encoding", "length"} : r[x] = NoResponse[x]
  BY <1>3
<1>5. QED BY <1>2, <1>4

LEMMA EmptyResponse ==
  ASSUME NEW code \in Nat
  PROVE  LET r == [NoResponse EXCEPT !.status = code]
         IN  r \in Responses /\ r.status = code /\ EncodedAsSaid(r) /\ r.from = "none"
<1> DEFINE r == [NoResponse EXCEPT !.status = code]
<1>1. r \in Responses
  BY StatusType
<1>2. /\ r.status = code /\ r.from = "none" /\ r.codings = <<>> /\ r.encoding = Unset
      /\ r.length = {}
  BY StatusType, NoResponseType
<1>3. QED BY <1>1, <1>2 DEF EncodedAsSaid

(* A response with a file, before any encoding.                            *)
Made(code, f, tag, d) == [NoResponse EXCEPT !.status = code, !.from = f, !.tag = tag, !.data = d]

LEMMA FileResponse ==
  ASSUME NEW code \in {200, 304}, NEW f \in Files, NEW tag \in Nat \X Nat, NEW d \in Seq(Nat)
  PROVE  /\ Made(code, f, tag, d) \in Responses
         /\ Made(code, f, tag, d).status = code /\ Made(code, f, tag, d).from = f
         /\ Made(code, f, tag, d).tag = tag /\ Made(code, f, tag, d).data = d
         /\ Made(code, f, tag, d).encoding = Unset /\ Made(code, f, tag, d).codings = <<>>
         /\ Made(code, f, tag, d).length = {} /\ EncodedAsSaid(Made(code, f, tag, d))
<1> DEFINE r == Made(code, f, tag, d)
<1>1. code \in Nat /\ f \in Files \cup {"none"}
  OBVIOUS
<1>2. r \in Responses
  <2> DEFINE r1 == [NoResponse EXCEPT !.status = code]
             r2 == [r1 EXCEPT !.from = f]
             r3 == [r2 EXCEPT !.tag = tag]
  <2>1. r = [r3 EXCEPT !.data = d]
    BY DEF Made
  <2>2. r1 \in Responses
    BY <1>1, StatusType
  <2> HIDE DEF r1
  <2>3. r2 \in Responses
    BY ZenonT(40), <1>1, <2>2 DEF Responses
  <2> HIDE DEF r2
  <2>4. r3 \in Responses
    BY ZenonT(40), <2>3 DEF Responses
  <2> HIDE DEF r3
  <2>5. [r3 EXCEPT !.data = d] \in Responses
    BY ZenonT(40), <2>4 DEF Responses
  <2>6. QED BY <2>1, <2>5
<1>3. /\ r.status = code /\ r.from = f /\ r.tag = tag /\ r.data = d
      /\ r.encoding = Unset /\ r.codings = <<>> /\ r.length = {}
  BY ZenonT(40) DEF NoResponse, Made
<1>4. QED BY <1>2, <1>3 DEF EncodedAsSaid

(* An answer without a body: the client keeps what it has.                 *)
LEMMA FailInv ==
  ASSUME DeliveryInv, NEW code \in {404, 500}, Fail(code)
  PROVE  DeliveryInv'
<1> USE DEF DeliveryInv, Fail, Answer
<1>1. response' \in Responses /\ response'.status = code /\ EncodedAsSaid(response') /\ response'.from = "none"
  <2>1. response' = [NoResponse EXCEPT !.status = code]
    OBVIOUS
  <2>2. code \in Nat
    OBVIOUS
  <2>3. QED BY <2>1, <2>2, EmptyResponse
<1>2. request' = Idle
  OBVIOUS
<1>3. DeliveryTypes' /\ Written'
  BY <1>1, <1>2 DEF DeliveryTypes, Written, Here, Idle, NoTag
<1>4. Tagged'
  BY <1>2 DEF Tagged, Dated, Here, Idle
<1>5. QED BY <1>1, <1>2, <1>3, <1>4 DEF Targeted, NotModifiedIsCurrent, PartsOfOneFile, EncodedOnce, EncodedAsSaid, AssetMissIs404, Idle

LEMMA SendInv ==
  ASSUME DeliveryInv, NEW tag \in {NoTag, copy.tag}, Send(tag)
  PROVE  DeliveryInv'
<1> USE DEF DeliveryInv, Send
<1>1. response' \in Responses /\ response'.status = 0 /\ EncodedAsSaid(response') /\ response'.from = "none"
  BY NoResponseType
<1>2. request' = [step |-> "locate", inm |-> tag, target |-> "none", tag |-> NoTag, seen |-> <<>>]
  BY DEF Idle
<1>3. DeliveryTypes' /\ Written'
  BY ZenonT(60), <1>1, <1>2 DEF DeliveryTypes, Written, Here, NoTag
<1>4. Tagged'
  BY <1>2 DEF Tagged, Dated, Here
<1>5. QED BY <1>1, <1>2, <1>3, <1>4 DEF Targeted, NotModifiedIsCurrent, PartsOfOneFile, EncodedOnce, EncodedAsSaid, AssetMissIs404

LEMMA LocateInv ==
  ASSUME DeliveryInv, NEW html \in BOOLEAN, Locate(html)
  PROVE  DeliveryInv'
<1> DEFINE Goes(f) == Proceed([request EXCEPT !.step = "stat", !.target = f]) /\ (url = "asset" => f = "asset")
<1>1. Fail(404) \/ \E f \in Files : Goes(f)
  BY AssetRoute DEF Locate, Files, FileOf
<1>2. ASSUME NEW f \in Files, Goes(f)
      PROVE  DeliveryInv'
  <2> USE DEF DeliveryInv, Proceed
  <2>1. request' = [step |-> "stat", inm |-> request.inm, target |-> f, tag |-> request.tag, seen |-> request.seen]
    <3>1. request' = [request EXCEPT !.step = "stat", !.target = f]
      BY <1>2
    <3>2. request = [step |-> request.step, inm |-> request.inm, target |-> request.target,
                     tag |-> request.tag, seen |-> request.seen]
      BY ZenonT(40) DEF DeliveryTypes
    <3>3. QED BY ZenonT(40), <3>1, <3>2
  <2>2. f # "none"
    BY DEF Files
  <2>3. DeliveryTypes' /\ Written'
    BY <1>2, <2>1 DEF DeliveryTypes, Written, Here
  <2>4. Tagged'
    BY <1>2, <2>1, <2>2 DEF Tagged, Dated, Here
  <2>5. QED BY <1>2, <2>1, <2>3, <2>4 DEF Targeted, NotModifiedIsCurrent, PartsOfOneFile, EncodedOnce, EncodedAsSaid, AssetMissIs404
<1> HIDE DEF Goes
<1>3. QED BY <1>1, <1>2, FailInv

LEMMA StatInv ==
  ASSUME DeliveryInv, Stat
  PROVE  DeliveryInv'
<1> DEFINE f == request.target
           r == Made(304, f, ETag(f), files[f].data)
<1>1. CASE files[f] = Absent
  BY <1>1, FailInv DEF Stat
<1>2. CASE files[f] # Absent
  <2>1. f \in Files /\ files[f] \in Contents /\ Here(f)
    BY <1>2 DEF Stat, DeliveryInv, DeliveryTypes, Tagged, Here, Contents
  <2>2. ETag(f) \in Nat \X Nat /\ ETag(f)[1] = files[f].mtime /\ files[f].data \in Seq(Nat)
    BY <2>1 DEF ETag, Contents
  <2>3. CASE request.inm = ETag(f)
    <3>1. Answer(r) /\ UNCHANGED <<copy, download>>
      BY <1>2, <2>3 DEF Stat, Made
    <3>2. r \in Responses
      BY <2>1, <2>2, FileResponse
    <3>3. r.status = 304 /\ r.from = f /\ r.data = files[f].data /\ EncodedAsSaid(r)
      BY <2>1, <2>2, FileResponse
    <3>4. copy # NoCopy /\ copy.data = files[f].data
      BY SMTT(40), <2>1, <2>2, <2>3 DEF DeliveryInv, Tagged, Dated, NoCopy, NoTag, Here
    <3> HIDE DEF r, f
    <3>5. response' = r /\ request' = Idle
      BY <3>1 DEF Answer
    <3>6. DeliveryTypes' /\ Written'
      BY <3>1, <3>2, <3>5 DEF Answer, DeliveryInv, DeliveryTypes, Written, Here, Idle, NoTag
    <3>7. Tagged'
      BY <3>1, <3>5 DEF Answer, DeliveryInv, Tagged, Dated, Here, Idle
    <3>8. Targeted' /\ AssetMissIs404'
      BY <3>1, <3>3, <3>5 DEF Answer, DeliveryInv, Targeted, AssetMissIs404, Idle, f
    <3>9. NotModifiedIsCurrent' /\ EncodedOnce' /\ PartsOfOneFile'
      BY <3>1, <3>3, <3>4, <3>5 DEF DeliveryInv, NotModifiedIsCurrent, EncodedOnce, EncodedAsSaid, PartsOfOneFile
    <3>10. QED BY <3>6, <3>7, <3>8, <3>9 DEF DeliveryInv
  <2>4. CASE request.inm # ETag(f)
    <3>1. Proceed([request EXCEPT !.step = "read", !.tag = ETag(f), !.seen = files[f].data])
      BY <1>2, <2>4 DEF Stat
    <3>2. request' = [step |-> "read", inm |-> request.inm, target |-> f, tag |-> ETag(f), seen |-> files[f].data]
      BY <3>1 DEF Proceed, DeliveryInv, DeliveryTypes
    <3> HIDE DEF f
    <3>3. DeliveryTypes' /\ Written'
      BY <2>1, <2>2, <3>1, <3>2 DEF Proceed, DeliveryInv, DeliveryTypes, Written, Here
    <3>4. Tagged'
      <4>1. Dated(ETag(f)[1], files[f].data) /\ ETag(f)[1] # 0
        BY <2>1, <2>2 DEF DeliveryInv, Written, Dated, Here
      <4>2. \A g \in Files : Here(g) /\ files[g].mtime = ETag(f)[1] => g = f
        BY <2>1, <2>2 DEF DeliveryInv, Written
      <4>3. download.tag = ETag(f) => download.seen = files[f].data
        BY <2>1, <2>2 DEF DeliveryInv, Tagged, Dated
      <4>4. f # "none"
        BY <2>1 DEF Files
      <4>5. Tagged
        BY DEF DeliveryInv
      <4>6. UNCHANGED <<files, clock, copy, download>>
        BY <3>1 DEF Proceed
      <4>7. /\ request'.inm = request.inm /\ request'.target = f /\ request'.tag = ETag(f)
            /\ request'.seen = files[f].data /\ request'.step = "read"
        BY <3>2
      <4> DEFINE m == ETag(f)[1]
                 d == files[f].data
      <4>8. Dated(copy.tag[1], copy.data)' /\ Dated(download.tag[1], download.seen)'
        BY <4>5, <4>6 DEF Tagged, Dated, Here
      <4>9. /\ request'.tag[1] # 0 /\ Dated(request.tag[1], request.seen)'
            /\ \A g \in Files : Here(g)' /\ files'[g].mtime = request'.tag[1] => g = request'.target
        BY <4>1, <4>2, <4>6, <4>7 DEF Dated, Here
      <4>10. request'.inm \in {NoTag, copy'.tag} /\ (download'.tag = request'.tag => download'.seen = request'.seen)
        BY <4>3, <4>5, <4>6, <4>7 DEF Tagged
      <4>11. QED BY <4>4, <4>7, <4>8, <4>9, <4>10 DEF Tagged
    <3>5. Targeted'
      BY <3>1, <3>2 DEF Proceed, DeliveryInv, Targeted, f
    <3>6. QED BY <3>1, <3>3, <3>4, <3>5 DEF Proceed, DeliveryInv, NotModifiedIsCurrent, PartsOfOneFile, EncodedOnce, AssetMissIs404
  <2>5. QED BY <2>3, <2>4
<1>3. QED BY <1>1, <1>2

(* The positions a Range header asks for, cut at the end of the file.      *)
LEMMA KeptSpan ==
  ASSUME NEW range \in Ranges, NEW size \in Nat, Satisfiable(Asked(range, size), size)
  PROVE  LET span == Asked(range, size)
             last == IF span[2] < size THEN span[2] ELSE size - 1
         IN  span[1] \in Nat /\ last \in Nat /\ span[1] <= last /\ last < size
<1>1. (range[1] \in {"span", "open", "suffix"} => range[2] \in Nat) /\ (range[1] = "span" => range[3] \in Nat)
  BY DeliveryAssumption
<1>2. CASE range[1] = "span"
  BY <1>1, <1>2 DEF Asked, Satisfiable
<1>3. CASE range[1] = "open"
  BY <1>1, <1>3 DEF Asked, Satisfiable
<1>4. CASE range[1] = "suffix"
  <2> DEFINE first == IF size > range[2] THEN size - range[2] ELSE 0
  <2>1. Asked(range, size) = <<first, size - 1>>
    BY <1>4 DEF Asked
  <2>2. first \in Nat
    BY <1>1, <1>4
  <2> HIDE DEF first
  <2>3. QED BY <2>1, <2>2 DEF Satisfiable
<1>5. CASE range[1] \notin {"span", "open", "suffix"}
  BY <1>5 DEF Asked, Satisfiable
<1>6. QED BY <1>2, <1>3, <1>4, <1>5

(* What the handlers make of the data they read.                           *)
Answers(r, target, tag, data) ==
  /\ r \in Responses /\ EncodedAsSaid(r)
  /\ \/ r.status = 416 /\ r.from = "none"
     \/ r.status = 200 /\ r.from = target /\ r.tag = tag /\ r.data = data
     \/ /\ r.status = 206 /\ r.from = target /\ r.tag = tag /\ r.size = Len(data)
        /\ r.span[1] \in Nat /\ r.span[2] \in Nat /\ r.span[1] <= r.span[2] /\ r.span[2] < Len(data)
        /\ r.data = Slice(data, r.span)

LEMMA SliceOf ==
  ASSUME NEW data \in Seq(Nat), NEW a \in Nat, NEW b \in Nat, a <= b, b < Len(data)
  PROVE  LET s == Slice(data, <<a, b>>)
         IN  s \in Seq(Nat) /\ Len(s) = b - a + 1 /\ \A i \in a..b : s[i - a + 1] = data[i + 1]
BY DEF Slice

(* A 416, and a part of a body.                                            *)
TooFar(n) == [NoResponse EXCEPT !.status = 416, !.size = n]
PartOf(r, kept, n, d) == [r EXCEPT !.status = 206, !.span = kept, !.size = n, !.data = d, !.length = {<<>>}]

LEMMA TooFarType ==
  ASSUME NEW n \in Nat
  PROVE  /\ TooFar(n) \in Responses /\ TooFar(n).status = 416 /\ TooFar(n).from = "none"
         /\ EncodedAsSaid(TooFar(n))
<1> DEFINE e == [NoResponse EXCEPT !.status = 416]
           q == [e EXCEPT !.size = n]
<1>1. e \in Responses /\ e.status = 416 /\ EncodedAsSaid(e) /\ e.from = "none"
  BY EmptyResponse
<1>2. TooFar(n) = q
  BY DEF TooFar
<1> HIDE DEF e
<1>3. q \in Responses
  BY <1>1 DEF Responses
<1>4. /\ q.status = 416 /\ q.from = "none" /\ q.codings = e.codings /\ q.encoding = e.encoding
      /\ q.length = e.length /\ q.accept = e.accept
  BY <1>1 DEF Responses
<1>5. QED BY <1>1, <1>2, <1>3, <1>4 DEF EncodedAsSaid

LEMMA PartOfType ==
  ASSUME NEW r \in Responses, NEW kept \in Int \X Int, NEW n \in Nat, NEW d \in Seq(Nat)
  PROVE  PartOf(r, kept, n, d) \in Responses
<1> DEFINE c == [r EXCEPT !.status = 206]
           e == [c EXCEPT !.span = kept]
           g == [e EXCEPT !.size = n]
           q == [g EXCEPT !.data = d, !.length = {<<>>}]
<1>1. c \in Responses
  <2>1. \A k \in Nat : [r EXCEPT !.status = k] \in Responses
    BY DEF Responses
  <2>2. 206 \in Nat
    OBVIOUS
  <2>3. QED BY <2>1, <2>2
<1>3. PartOf(r, kept, n, d) = q
  BY DEF PartOf
<1> HIDE DEF c
<1>4. e \in Responses
  BY <1>1 DEF Responses
<1> HIDE DEF e
<1>6. g \in Responses
  BY <1>4 DEF Responses
<1> HIDE DEF g
<1>8. {<<>>} \in SUBSET Seq(Codings)
  OBVIOUS
<1>9. q \in Responses
  BY <1>6, <1>8 DEF Responses
<1>10. QED BY <1>3, <1>9

LEMMA PartOfFields ==
  ASSUME NEW r \in Responses, NEW kept, NEW n, NEW d
  PROVE  /\ PartOf(r, kept, n, d).status = 206 /\ PartOf(r, kept, n, d).from = r.from
         /\ PartOf(r, kept, n, d).tag = r.tag /\ PartOf(r, kept, n, d).size = n
         /\ PartOf(r, kept, n, d).span = kept /\ PartOf(r, kept, n, d).data = d
         /\ PartOf(r, kept, n, d).length = {<<>>} /\ PartOf(r, kept, n, d).encoding = r.encoding
         /\ PartOf(r, kept, n, d).codings = r.codings
BY DEF PartOf, Responses

LEMMA PartialAnswers ==
  ASSUME NEW r \in Responses, NEW range \in Ranges, r.status = 200,
         r.encoding = Unset, r.codings = <<>>
  PROVE  Answers(Partial(r, range), r.from, r.tag, r.data)
<1> DEFINE size == Len(r.data)
           span == Asked(range, size)
           kept == <<span[1], IF span[2] < size THEN span[2] ELSE size - 1>>
           part == PartOf(r, kept, size, Slice(r.data, kept))
<1>1. r.data \in Seq(Nat) /\ size \in Nat
  BY DEF Responses
<1>2. CASE ~Satisfiable(span, size)
  <2>1. Partial(r, range) = TooFar(size)
    BY <1>2 DEF Partial, TooFar
  <2> HIDE DEF size
  <2>2. QED BY <1>1, <2>1, TooFarType DEF Answers
<1>3. CASE Satisfiable(span, size)
  <2>1. Partial(r, range) = part
    BY <1>3 DEF Partial, PartOf
  <2>2. kept[1] \in Nat /\ kept[2] \in Nat /\ kept[1] <= kept[2] /\ kept[2] < size
    BY <1>1, <1>3, KeptSpan
  <2>3. Slice(r.data, kept) \in Seq(Nat)
    BY <1>1, <2>2, SliceOf
  <2>4. kept \in Int \X Int
    BY <2>2
  <2> HIDE DEF size, kept
  <2>5. part \in Responses
    BY <1>1, <2>3, <2>4, PartOfType DEF part
  <2>7. /\ part.status = 206 /\ part.from = r.from /\ part.tag = r.tag /\ part.size = size
        /\ part.span = kept /\ part.data = Slice(r.data, kept) /\ part.length = {<<>>}
        /\ part.encoding = Unset /\ part.codings = <<>>
    <3> DEFINE d == Slice(r.data, kept)
    <3>1. d \in Seq(Nat) /\ part = PartOf(r, kept, size, d)
      BY <2>3 DEF part
    <3> HIDE DEF d, part
    <3>2. /\ part.status = 206 /\ part.from = r.from /\ part.tag = r.tag /\ part.size = size
          /\ part.span = kept /\ part.data = d /\ part.length = {<<>>}
          /\ part.encoding = r.encoding /\ part.codings = r.codings
      BY <3>1, PartOfFields
    <3>3. QED BY <3>2 DEF d
  <2>8. EncodedAsSaid(part)
    BY <2>7 DEF EncodedAsSaid
  <2> HIDE DEF part
  <2>9. QED BY <2>1, <2>2, <2>5, <2>7, <2>8 DEF Answers, size
<1>4. QED BY <1>2, <1>3

LEMMA BodyAnswers ==
  ASSUME DeliveryTypes, NEW range \in Ranges \cup {NoRange}, NEW accept \in Headers, NEW data \in Seq(Nat),
         request.target \in Files
  PROVE  Answers(Body(range, accept, data), request.target, request.tag, data)
<1> DEFINE m == Made(200, request.target, request.tag, data)
           r == [m EXCEPT !.accept = accept]
           made == IF url = "static" THEN r
                   ELSE IF range # NoRange THEN Partial(r, range)
                   ELSE Gzipped(r)
<1>1. /\ m \in Responses /\ m.status = 200 /\ m.from = request.target /\ m.tag = request.tag /\ m.data = data
      /\ m.encoding = Unset /\ m.codings = <<>> /\ m.length = {}
  BY FileResponse DEF DeliveryTypes
<1>2. Body(range, accept, data) = IF made.status = 416 THEN made ELSE Through(made)[1]
  BY DEF Body, Made
<1> HIDE DEF m
<1>3. r \in Responses
  BY <1>1 DEF Responses
<1>4. /\ r.status = 200 /\ r.from = request.target /\ r.tag = request.tag /\ r.data = data /\ r.accept = accept
      /\ r.encoding = Unset /\ r.codings = <<>> /\ r.length = {}
  BY <1>1 DEF Responses
<1> HIDE DEF r
<1>5. Answers(r, request.target, request.tag, data)
  BY <1>3, <1>4 DEF Answers, EncodedAsSaid
<1>6. Answers(Gzipped(r), request.target, request.tag, data)
  <2> DEFINE z == [r EXCEPT !.codings = <<"gzip">>, !.encoding = "gzip"]
  <2>1. <<"gzip">> \in Seq(Codings)
    BY DEF Codings
  <2>2. z \in Responses
    BY <1>3, <2>1 DEF Responses, Codings
  <2>3. /\ z.status = 200 /\ z.from = request.target /\ z.tag = request.tag /\ z.data = data /\ z.accept = accept
        /\ z.encoding = "gzip" /\ z.codings = <<"gzip">> /\ z.length = {}
    BY <1>3, <1>4 DEF Responses
  <2> HIDE DEF z
  <2>4. CASE "gzip" \in CodingsFound(r.accept) /\ Len(r.data) >= MinSize
    <3>1. Gzipped(r) = z
      BY <2>4 DEF Gzipped, z
    <3>2. EncodedAsSaid(z)
      BY <1>4, <2>3, <2>4, FoundIsNamed DEF EncodedAsSaid, Unset
    <3>3. QED BY <2>2, <2>3, <3>1, <3>2 DEF Answers
  <2>5. CASE ~ ("gzip" \in CodingsFound(r.accept) /\ Len(r.data) >= MinSize)
    BY <1>5, <2>5 DEF Gzipped
  <2>6. QED BY <2>4, <2>5
<1>7. Answers(made, request.target, request.tag, data)
  BY <1>3, <1>4, <1>5, <1>6, PartialAnswers
<1> HIDE DEF made
<1>8. ASSUME made.status # 416 PROVE Answers(Through(made)[1], request.target, request.tag, data)
  <2>1. /\ Through(made)[1] \in Responses /\ SameBody(Through(made)[1], made)
        /\ EncodedAsSaid(Through(made)[1])
    BY <1>7, ThroughKeeps DEF Answers, DeliveryTypes
  <2>2. QED BY <1>7, <2>1 DEF Answers, SameBody
<1>9. QED BY <1>2, <1>7, <1>8

(* The download after a part of the file that its tag named.               *)
LEMMA ReadInv ==
  ASSUME DeliveryInv, NEW range \in Ranges, NEW accept \in Accepts, Read(range, accept)
  PROVE  DeliveryInv'
<1> DEFINE f == request.target
           data == files[f].data
           r == Body(range, accept, data)
<1>1. CASE files[f] = Absent
  BY <1>1, FailInv DEF Read
<1>2. CASE files[f] # Absent
  <2>1. f \in Files /\ files[f] \in Contents /\ request.step = "read"
    BY <1>2 DEF Read, DeliveryInv, DeliveryTypes, Tagged
  <2>2. data \in Seq(Nat)
    BY <2>1 DEF Contents
  <2>3. DeliveryTypes /\ Written /\ Tagged /\ Targeted /\ PartsOfOneFile
    BY DEF DeliveryInv
  <2>4. Answers(r, f, request.tag, data)
    <3>1. accept \in Headers
      BY DeliveryAssumption DEF Headers
    <3>2. QED BY <2>1, <2>2, <2>3, <3>1, BodyAnswers
  <2>5. /\ Answer(r)
        /\ copy' = IF r.status = 200 THEN [tag |-> r.tag, data |-> r.data] ELSE copy
        /\ download' = IF r.status = 206 THEN Joined(r) ELSE download
    BY <1>2 DEF Read
  <2>6. /\ response' = r /\ request' = Idle
        /\ UNCHANGED <<files, clock, saving, url, chain>>
    BY <2>5 DEF Answer
  <2> HIDE DEF r, data
  <2>7. request.tag \in Nat \X Nat /\ request.tag[1] # 0
    BY <2>1, <2>3 DEF DeliveryTypes, Tagged
  <2>8. /\ \A g \in Files : Here(g) /\ files[g].mtime = request.tag[1] => g = f
        /\ Dated(request.tag[1], request.seen)
        /\ download.tag = request.tag => download.seen = request.seen
    BY <2>1, <2>3 DEF Tagged
  <2>9. Written' /\ Targeted' /\ AssetMissIs404' /\ EncodedOnce' /\ NotModifiedIsCurrent'
    <3>1. url = "asset" => r.from \in {"none", "asset"}
      BY <2>1, <2>3, <2>4 DEF Answers, Targeted, f, Files
    <3>2. QED BY <2>3, <2>4, <2>6, <3>1 DEF Written, Here, Targeted, AssetMissIs404, EncodedOnce, EncodedAsSaid,
                                           NotModifiedIsCurrent, Answers, Idle
  <2>10. copy' = [tag |-> copy'.tag, data |-> copy'.data] /\ copy'.tag \in Nat \X Nat /\ Dated(copy.tag[1], copy.data)'
    <3>1. CASE r.status = 200
      <4>1. copy'.tag = request.tag /\ copy'.data = data /\ copy' = [tag |-> copy'.tag, data |-> copy'.data]
        BY <2>4, <2>5, <3>1 DEF Answers
      <4>2. QED BY <2>6, <2>7, <2>8, <4>1 DEF Dated, Here, data
    <3>2. CASE r.status # 200
      BY <2>3, <2>5, <2>6, <3>2 DEF DeliveryTypes, Tagged, Dated, Here
    <3>3. QED BY <3>1, <3>2
  <2>11. /\ download' = [tag |-> download'.tag, size |-> download'.size, parts |-> download'.parts,
                         seen |-> download'.seen, torn |-> download'.torn]
         /\ download'.tag \in Nat \X Nat /\ download'.torn \in BOOLEAN
         /\ Dated(download.tag[1], download.seen)' /\ PartsOfOneFile'
    <3>1. CASE r.status # 206
      <4>1. download' = download
        BY <2>5, <3>1
      <4>2. QED BY <2>3, <2>6, <4>1 DEF DeliveryTypes, Tagged, Dated, Here, PartsOfOneFile
    <3>2. CASE r.status = 206
      <4> DEFINE old == IF download.tag = r.tag THEN download
                        ELSE [NoDownload EXCEPT !.tag = r.tag, !.size = r.size, !.seen = request.seen]
                 parts == [i \in DOMAIN old.parts \cup r.span[1]..r.span[2] |->
                             IF i \in r.span[1]..r.span[2] /\ i - r.span[1] < Len(r.data)
                             THEN r.data[i - r.span[1] + 1]
                             ELSE IF i \in DOMAIN old.parts THEN old.parts[i] ELSE 0]
                 torn == old.torn \/ files[request.target].data # request.seen
      <4>1. /\ old = [tag |-> old.tag, size |-> old.size, parts |-> old.parts, seen |-> old.seen, torn |-> old.torn]
            /\ old.torn \in BOOLEAN /\ old.tag = request.tag /\ old.seen = request.seen
        <5>1. r.tag = request.tag
          BY <2>4, <3>2 DEF Answers
        <5>2. CASE download.tag = r.tag
          BY <2>3, <2>8, <5>1, <5>2 DEF DeliveryTypes
        <5>3. CASE download.tag # r.tag
          <6>1. old = [tag |-> r.tag, size |-> r.size, parts |-> <<>>, seen |-> request.seen, torn |-> FALSE]
            BY <5>3 DEF NoDownload
          <6> HIDE DEF old
          <6>2. old.torn = FALSE /\ old.tag = r.tag /\ old.seen = request.seen /\ old.size = r.size /\ old.parts = <<>>
            BY <6>1
          <6>3. QED BY <5>1, <6>1, <6>2
        <5>4. QED BY <5>2, <5>3
      <4>2. download' = [old EXCEPT !.parts = parts, !.torn = torn]
        BY <2>5, <3>2 DEF Joined
      <4>3. ASSUME ~torn
            PROVE  /\ data = request.seen /\ old.size = Len(data)
                   /\ \A i \in DOMAIN old.parts : i + 1 \in DOMAIN data /\ old.parts[i] = data[i + 1]
        <5>1. data = request.seen /\ ~old.torn
          BY <4>3 DEF data
        <5>2. CASE download.tag = r.tag
          <6>1. download # NoDownload /\ download.seen = data
            BY <2>4, <2>7, <2>8, <3>2, <5>1, <5>2 DEF Answers, NoDownload, NoTag
          <6>2. QED BY <2>3, <5>1, <5>2, <6>1 DEF PartsOfOneFile
        <5>3. CASE download.tag # r.tag
          BY <2>4, <3>2, <5>1, <5>3 DEF Answers, NoDownload
        <5>4. QED BY <5>1, <5>2, <5>3
      <4> HIDE DEF old
      <4>4. /\ download'.tag = request.tag /\ download'.size = old.size /\ download'.parts = parts
            /\ download'.seen = request.seen /\ download'.torn = torn
            /\ download' = [tag |-> download'.tag, size |-> download'.size, parts |-> download'.parts,
                            seen |-> download'.seen, torn |-> download'.torn]
        <5> HIDE DEF parts, torn
        <5>1. QED BY <4>1, <4>2
      <4>5. Dated(download.tag[1], download.seen)'
        BY <2>6, <2>8, <4>4 DEF Dated, Here
      <4>6. ASSUME ~torn PROVE \A i \in DOMAIN parts : i + 1 \in DOMAIN data /\ parts[i] = data[i + 1]
        <5>1. /\ r.span[1] \in Nat /\ r.span[2] \in Nat /\ r.span[1] <= r.span[2] /\ r.span[2] < Len(data)
              /\ r.data = Slice(data, r.span)
          BY <2>4, <3>2 DEF Answers
        <5>2. r.span = <<r.span[1], r.span[2]>>
          BY <2>4 DEF Answers, Responses
        <5>3. Len(r.data) = r.span[2] - r.span[1] + 1 /\ \A i \in r.span[1]..r.span[2] : r.data[i - r.span[1] + 1] = data[i + 1]
          <6> DEFINE a == r.span[1]
                     b == r.span[2]
                     s == Slice(data, <<a, b>>)
          <6>1. a \in Nat /\ b \in Nat /\ a <= b /\ b < Len(data) /\ r.data = s
            BY <5>1, <5>2
          <6> HIDE DEF a, b
          <6>2. Len(s) = b - a + 1 /\ \A i \in a..b : s[i - a + 1] = data[i + 1]
            BY <2>2, <6>1, SliceOf
          <6> HIDE DEF s
          <6>3. Len(r.data) = b - a + 1 /\ \A i \in a..b : r.data[i - a + 1] = data[i + 1]
            BY <6>1, <6>2
          <6>4. QED BY <6>3 DEF a, b
        <5> SUFFICES ASSUME NEW i \in DOMAIN old.parts \cup r.span[1]..r.span[2]
                     PROVE  i + 1 \in DOMAIN data /\ parts[i] = data[i + 1]
          OBVIOUS
        <5>4. CASE i \in r.span[1]..r.span[2]
          <6>1. i \in Nat /\ i - r.span[1] < Len(r.data) /\ i + 1 \in 1..Len(data)
            <7> DEFINE a == r.span[1]
                       b == r.span[2]
                       n == Len(data)
            <7>1. a \in Nat /\ b \in Nat /\ b < n /\ n \in Nat /\ Len(r.data) = b - a + 1 /\ i \in a..b
              BY <2>2, <5>1, <5>3, <5>4
            <7> HIDE DEF a, b, n
            <7>2. i \in Nat /\ i - a < Len(r.data) /\ i + 1 \in 1..n
              BY <7>1
            <7>3. QED BY <7>2 DEF a, n
          <6>2. parts[i] = IF i \in r.span[1]..r.span[2] /\ i - r.span[1] < Len(r.data)
                           THEN r.data[i - r.span[1] + 1]
                           ELSE IF i \in DOMAIN old.parts THEN old.parts[i] ELSE 0
            OBVIOUS
          <6>3. DOMAIN data = 1..Len(data)
            BY <2>2
          <6> HIDE DEF parts
          <6>4. parts[i] = r.data[i - r.span[1] + 1]
            BY <5>4, <6>1, <6>2
          <6>5. r.data[i - r.span[1] + 1] = data[i + 1]
            BY <5>3, <5>4
          <6>6. QED BY <6>1, <6>3, <6>4, <6>5
        <5>5. CASE i \notin r.span[1]..r.span[2]
          BY <4>3, <4>6, <5>5
        <5>6. QED BY <5>4, <5>5
      <4>7. PartsOfOneFile'
        <5> HIDE DEF parts, torn
        <5>1. QED BY <4>3, <4>4, <4>6 DEF PartsOfOneFile
      <4>8. QED BY <2>7, <4>1, <4>4, <4>5, <4>7
    <3>3. QED BY <3>1, <3>2
  <2>12. DeliveryTypes'
    BY <2>3, <2>4, <2>6, <2>10, <2>11 DEF DeliveryTypes, Answers, Idle, NoTag
  <2>13. Tagged'
    BY <2>6, <2>10, <2>11 DEF Tagged, Idle
  <2>14. QED BY <2>9, <2>11, <2>12, <2>13 DEF DeliveryInv
<1>3. QED BY <1>1, <1>2

(* The invariant of the delivery, for any files, ranges, middlewares and   *)
(* number of requests.                                                     *)
LEMMA DeliveryStepInv == DeliveryInv /\ [DeliveryStep]_deliveryVars => DeliveryInv'
<1> SUFFICES ASSUME DeliveryInv, [DeliveryStep]_deliveryVars PROVE DeliveryInv'
  OBVIOUS
<1>1. CASE \E f \in Files : \E n : SaveStart(f, n)
  BY <1>1, SaveStartInv
<1>2. CASE SaveChunk
  BY <1>2, SaveChunkInv
<1>3. CASE \E f \in Files : RemoveFile(f)
  BY <1>3, RemoveFileInv
<1>4. CASE Serve
  <2>1. CASE \E tag \in {NoTag, copy.tag} : Send(tag)
    BY <2>1, SendInv
  <2>2. CASE \E html \in BOOLEAN : Locate(html)
    BY <2>2, LocateInv
  <2>3. CASE Stat
    BY <2>3, StatInv
  <2>4. CASE \E range \in Ranges, accept \in Accepts : Read(range, accept)
    BY <2>4, ReadInv
  <2>5. QED BY <1>4, <2>1, <2>2, <2>3, <2>4 DEF Serve
<1>5. CASE UNCHANGED deliveryVars
  BY <1>5 DEF deliveryVars, DeliveryInv, DeliveryTypes, Written, Here, Tagged, Dated, Targeted,
              NotModifiedIsCurrent, PartsOfOneFile, EncodedOnce, AssetMissIs404
<1>6. QED BY <1>1, <1>2, <1>3, <1>4, <1>5 DEF DeliveryStep

THEOREM DeliveryInvariant == DeliverySpec => []DeliveryInv
<1>1. [DeliveryNext]_deliveryVars => [DeliveryStep]_deliveryVars
  BY DEF DeliveryNext, DeliveryStep
<1>2. QED BY DeliveryInitInv, DeliveryStepInv, <1>1, PTL DEF DeliverySpec

(* The same when the files come in as uploads.                             *)
THEOREM UploadInvariant == UploadSpec => []DeliveryInv
<1>1. UploadInit => DeliveryInv
  BY DeliveryInitInv DEF UploadInit
<1>2. [UploadNext]_<<deliveryVars, form, uploads>> => [DeliveryStep]_deliveryVars
  <2>1. ReceiveForm => UNCHANGED deliveryVars
    BY DEF ReceiveForm
  <2>2. Answering \subseteq Files
    BY DEF Answering, Files
  <2>3. QED BY <2>1, <2>2 DEF UploadNext, DeliveryStep
<1>3. QED BY <1>1, <1>2, DeliveryStepInv, PTL DEF UploadSpec

(* A client that is told 304 has the content the file had at that moment,  *)
(* however often it was saved before and between the steps of the answer.  *)
THEOREM UploadsNotModified == UploadSpec => []NotModifiedIsCurrent
<1>1. QED BY UploadInvariant, PTL DEF DeliveryInv

(* Byte ranges that came under one ETag are parts of one content, at the   *)
(* positions their Content-Range names.                                    *)
THEOREM UploadsPartsOfOneFile == UploadSpec => []PartsOfOneFile
<1>1. QED BY UploadInvariant, PTL DEF DeliveryInv

(* A body is encoded as its Content-Encoding says, with a coding that the  *)
(* request named, through any sequence of the two middlewares and for any  *)
(* Accept-Encoding, which may name the coding to refuse it.                *)
THEOREM UploadsEncodedOnce == UploadSpec => []EncodedOnce
<1>1. QED BY UploadInvariant, PTL DEF DeliveryInv

(* A request for an asset is never answered with the index page.           *)
THEOREM UploadsAssetMiss == UploadSpec => []AssetMissIs404
<1>1. QED BY UploadInvariant, PTL DEF DeliveryInv

-----------------------------------------------------------------------------
(* The multipart form.                                                     *)

FormParts == [name : Names, filename : Names \cup {Missing}, type : STRING, content : Seq(Pieces)]
BodyPieces ==
  Pieces \cup {Sep, Crlf, Dashes} \cup ({"disposition"} \X Names \X (Names \cup {Missing})) \cup ({"type"} \X STRING)

\* The pieces that the parser looks for are different ones.
LEMMA PieceTags ==
  /\ Sep[1] = "separator" /\ Crlf[1] = "crlf" /\ Dashes[1] = "dashes"
  /\ Sep # Crlf /\ Sep # Dashes /\ Crlf # Dashes
  /\ \A n, f : /\ Disposition(n, f)[1] = "disposition" /\ Disposition(n, f)[2] = n /\ Disposition(n, f)[3] = f
               /\ Disposition(n, f) # Sep /\ Disposition(n, f) # Crlf
  /\ \A m : ContentType(m)[1] = "type" /\ ContentType(m)[2] = m /\ ContentType(m) # Sep /\ ContentType(m) # Crlf
BY DEF Sep, Crlf, Dashes, Disposition, ContentType

\* A joined sequence has the items of both.
LEMMA SeqJoined ==
  ASSUME NEW S, NEW a \in Seq(S), NEW b \in Seq(S)
  PROVE  /\ a \o b \in Seq(S) /\ Len(a) \in Nat /\ Len(b) \in Nat /\ Len(a \o b) = Len(a) + Len(b)
         /\ \A i \in 1..Len(a) : (a \o b)[i] = a[i]
         /\ \A i \in 1..Len(b) : (a \o b)[Len(a) + i] = b[i]
OBVIOUS

\* How long the headers of a part are, its separator and the blank line included.
Heading(p) == IF IsFile(p) THEN 7 ELSE 5

\* What a part is encoded to.
IsEncoded(e, p) ==
  /\ e \in Seq(BodyPieces) /\ Len(p.content) \in Nat /\ Len(e) = Heading(p) + Len(p.content) + 1
  /\ e[1] = Sep /\ e[2] = Crlf /\ e[3] = Disposition(p.name, p.filename) /\ e[4] = Crlf
  /\ IsFile(p) => e[5] = ContentType(p.type) /\ e[6] = Crlf
  /\ e[Heading(p)] = Crlf
  /\ \A i \in 1..Len(p.content) : e[Heading(p) + i] = p.content[i]
  /\ e[Len(e)] = Crlf
  /\ \A i \in 2..Len(e) : e[i] # Sep

\* A part is encoded with its headers first, and holds one separator, the first.
LEMMA PartEncoded ==
  ASSUME NEW p \in FormParts
  PROVE  IsEncoded(EncodePart(p), p)
<1> DEFINE a == <<Sep, Crlf, Disposition(p.name, p.filename), Crlf>>
           b == IF IsFile(p) THEN <<ContentType(p.type), Crlf, Crlf>> ELSE <<Crlf>>
           c == p.content
           d == <<Crlf>>
           e == EncodePart(p)
           ab == a \o b
           abc == ab \o c
<1>1. /\ Disposition(p.name, p.filename) \in BodyPieces /\ ContentType(p.type) \in BodyPieces
      /\ Sep \in BodyPieces /\ Crlf \in BodyPieces /\ Pieces \subseteq BodyPieces
  BY DEF BodyPieces, FormParts, Disposition, ContentType
<1>2. /\ a \in Seq(BodyPieces) /\ Len(a) = 4 /\ a[1] = Sep /\ a[2] = Crlf
      /\ a[3] = Disposition(p.name, p.filename) /\ a[4] = Crlf
  BY <1>1
<1>3. /\ b \in Seq(BodyPieces) /\ Len(b) = Heading(p) - 4 /\ Heading(p) \in {5, 7}
      /\ IsFile(p) => Heading(p) = 7 /\ Len(b) = 3 /\ b[1] = ContentType(p.type) /\ b[2] = Crlf /\ b[3] = Crlf
      /\ ~IsFile(p) => Heading(p) = 5 /\ Len(b) = 1 /\ b[1] = Crlf
  BY <1>1 DEF Heading
<1>4. /\ c \in Seq(BodyPieces) /\ Len(c) \in Nat /\ \A i \in 1..Len(c) : c[i] \in Pieces
  <2>1. c \in Seq(Pieces)
    BY DEF FormParts
  <2> HIDE DEF c
  <2> QED BY <1>1, <2>1
<1>5. d \in Seq(BodyPieces) /\ Len(d) = 1 /\ d[1] = Crlf
  BY <1>1
<1>6. e = abc \o d
  BY DEF EncodePart
<1> HIDE DEF a, b, c, d, e
<1>7. /\ ab \in Seq(BodyPieces) /\ Len(ab) = Heading(p) /\ \A i \in 1..4 : ab[i] = a[i]
      /\ \A i \in 1..Len(b) : ab[4 + i] = b[i]
  <2>1. /\ ab \in Seq(BodyPieces) /\ Len(ab) = Len(a) + Len(b)
        /\ \A i \in 1..Len(a) : ab[i] = a[i]
        /\ \A i \in 1..Len(b) : ab[Len(a) + i] = b[i]
    <3>1. a \in Seq(BodyPieces) /\ b \in Seq(BodyPieces)
      BY <1>2, <1>3
    <3> QED BY <3>1, SeqJoined
  <2> HIDE DEF ab
  <2>2. Len(ab) = Heading(p)
    BY <1>2, <1>3, <2>1
  <2>3. \A i \in 1..4 : ab[i] = a[i]
    BY <1>2, <2>1
  <2>4. \A i \in 1..Len(b) : ab[4 + i] = b[i]
    BY <1>2, <2>1
  <2> QED BY <2>1, <2>2, <2>3, <2>4
<1> HIDE DEF ab
<1>8. /\ abc \in Seq(BodyPieces) /\ Len(abc) = Heading(p) + Len(c) /\ \A i \in 1..Heading(p) : abc[i] = ab[i]
      /\ \A i \in 1..Len(c) : abc[Heading(p) + i] = c[i]
  BY <1>4, <1>7, SeqJoined
<1> HIDE DEF abc
<1>9. /\ e \in Seq(BodyPieces) /\ Len(e) = Heading(p) + Len(c) + 1 /\ \A i \in 1..Len(abc) : e[i] = abc[i]
      /\ e[Len(abc) + 1] = Crlf
  <2>1. /\ e \in Seq(BodyPieces) /\ Len(e) = Len(abc) + Len(d)
        /\ \A i \in 1..Len(abc) : e[i] = abc[i]
        /\ \A i \in 1..Len(d) : e[Len(abc) + i] = d[i]
    <3>1. abc \in Seq(BodyPieces) /\ d \in Seq(BodyPieces)
      BY <1>5, <1>8
    <3>2. e = abc \o d
      BY <1>6
    <3> QED BY <3>1, <3>2, SeqJoined
  <2>2. e[Len(abc) + 1] = Crlf
    BY <1>5, <2>1
  <2> QED BY <1>5, <1>8, <2>1, <2>2
<1>10. /\ e[1] = Sep /\ e[2] = Crlf /\ e[3] = Disposition(p.name, p.filename) /\ e[4] = Crlf
       /\ \A i \in 1..Len(b) : e[4 + i] = b[i]
       /\ \A i \in 1..Len(c) : e[Heading(p) + i] = c[i]
       /\ e[Len(e)] = Crlf
  <2>1. \A i \in 1..4 : e[i] = a[i]
    <3> SUFFICES ASSUME NEW i \in 1..4 PROVE e[i] = a[i]
      OBVIOUS
    <3>1. i \in 1..Heading(p) /\ i \in 1..Len(abc)
      BY <1>3, <1>4, <1>8
    <3> QED BY <1>7, <1>8, <1>9, <3>1
  <2>2. \A i \in 1..Len(b) : e[4 + i] = b[i]
    <3> SUFFICES ASSUME NEW i \in 1..Len(b) PROVE e[4 + i] = b[i]
      OBVIOUS
    <3>1. 4 + i \in 1..Heading(p) /\ 4 + i \in 1..Len(abc)
      BY <1>3, <1>4, <1>8
    <3> QED BY <1>7, <1>8, <1>9, <3>1
  <2>3. \A i \in 1..Len(c) : e[Heading(p) + i] = c[i]
    <3> SUFFICES ASSUME NEW i \in 1..Len(c) PROVE e[Heading(p) + i] = c[i]
      OBVIOUS
    <3>1. Heading(p) + i \in 1..Len(abc)
      <4>1. Len(abc) = Heading(p) + Len(c) /\ Len(c) \in Nat /\ Heading(p) \in {5, 7}
        BY <1>3, <1>4, <1>8
      <4> QED BY <4>1
    <3>2. e[Heading(p) + i] = abc[Heading(p) + i]
      BY <1>9, <3>1
    <3>3. abc[Heading(p) + i] = c[i]
      BY <1>8
    <3> QED BY <3>2, <3>3
  <2>4. e[Len(e)] = Crlf
    BY <1>3, <1>4, <1>8, <1>9
  <2>5. e[1] = Sep /\ e[2] = Crlf /\ e[3] = Disposition(p.name, p.filename) /\ e[4] = Crlf
    BY <1>2, <2>1
  <2> QED BY <2>2, <2>3, <2>4, <2>5
<1>11. IsFile(p) => e[5] = ContentType(p.type) /\ e[6] = Crlf /\ e[7] = Crlf
  <2> SUFFICES ASSUME IsFile(p) PROVE e[5] = ContentType(p.type) /\ e[6] = Crlf /\ e[7] = Crlf
    OBVIOUS
  <2>1. e[4 + 1] = b[1] /\ e[4 + 2] = b[2] /\ e[4 + 3] = b[3]
    BY <1>3, <1>10
  <2> QED BY <1>3, <2>1
<1>12. ~IsFile(p) => e[5] = Crlf
  <2> SUFFICES ASSUME ~IsFile(p) PROVE e[5] = Crlf
    OBVIOUS
  <2>1. e[4 + 1] = b[1]
    BY <1>3, <1>10
  <2> QED BY <1>3, <2>1
<1>13. e[Heading(p)] = Crlf
  BY <1>3, <1>11, <1>12
<1>14. \A i \in 2..Len(e) : e[i] # Sep
  <2> SUFFICES ASSUME NEW i \in 2..Len(e) PROVE e[i] # Sep
    OBVIOUS
  <2>1. CASE i <= Heading(p)
    <3>1. i \in {2, 3, 4, 5, 6, 7}
      BY <1>3, <2>1
    <3>2. CASE IsFile(p)
      BY <1>10, <1>11, <3>1, <3>2, PieceTags
    <3>3. CASE ~IsFile(p)
      <4>1. i \in {2, 3, 4, 5}
        BY <1>3, <2>1, <3>3
      <4> QED BY <1>10, <1>12, <3>3, <4>1, PieceTags
    <3> QED BY <3>2, <3>3
  <2>2. CASE i > Heading(p) /\ i < Len(e)
    <3>1. i - Heading(p) \in 1..Len(c) /\ i = Heading(p) + (i - Heading(p))
      BY <1>3, <1>4, <1>9, <2>2
    <3>2. e[i] \in Pieces
      BY <1>4, <1>10, <3>1
    <3> QED BY <3>2, FormsAssumption
  <2>3. CASE i = Len(e)
    BY <1>10, <2>3, PieceTags
  <2> QED BY <1>3, <1>4, <1>9, <2>1, <2>2, <2>3
<1> QED BY <1>4, <1>9, <1>10, <1>11, <1>13, <1>14 DEF IsEncoded, c, e

\* A part of a sequence.
LEMMA SeqCut ==
  ASSUME NEW S, NEW s \in Seq(S), NEW m \in 1..Len(s)+1, NEW n \in m-1..Len(s)
  PROVE  /\ SubSeq(s, m, n) \in Seq(S) /\ Len(SubSeq(s, m, n)) = n - m + 1
         /\ \A i \in 1..n-m+1 : SubSeq(s, m, n)[i] = s[m - 1 + i]
OBVIOUS

\* What lies between the separator of a part and the next one, and what is left
\* of it when the line ends of both separators are taken off.
IsSegment(seg, p) == \E e : /\ IsEncoded(e, p) /\ seg \in Seq(BodyPieces) /\ Len(seg) = Len(e) - 1
                            /\ \A i \in 1..Len(seg) : seg[i] = e[1 + i]
IsTrimmed(q, p) ==
  /\ q \in Seq(BodyPieces) /\ Len(p.content) \in Nat /\ Len(q) = Heading(p) - 2 + Len(p.content)
  /\ q[1] = Disposition(p.name, p.filename) /\ q[2] = Crlf
  /\ IsFile(p) => q[3] = ContentType(p.type) /\ q[4] = Crlf
  /\ q[Heading(p) - 2] = Crlf
  /\ \A i \in 1..Len(p.content) : q[Heading(p) - 2 + i] = p.content[i]

\* Trimming takes the line ends of the separators off, and nothing of the content.
LEMMA PartTrimmed ==
  ASSUME NEW p, NEW seg, IsSegment(seg, p)
  PROVE  IsTrimmed(Trim(seg), p) /\ ~StartsWith(seg, Dashes)
<1>1. PICK e : /\ IsEncoded(e, p) /\ seg \in Seq(BodyPieces) /\ Len(seg) = Len(e) - 1
               /\ \A i \in 1..Len(seg) : seg[i] = e[1 + i]
  BY DEF IsSegment
<1> DEFINE h == Heading(p)
           c == p.content
           l == Len(seg)
           t == Tail(seg)
           q == SubSeq(t, 1, Len(t) - 1)
<1>2. h \in {5, 7} /\ Len(c) \in Nat /\ l = h + Len(c) /\ Len(e) = l + 1 /\ (IsFile(p) <=> h = 7)
  BY <1>1 DEF IsEncoded, Heading
<1> HIDE DEF h, c
<1>3. seg # <<>> /\ seg[1] = Crlf /\ Head(seg) = Crlf
  <2>1. 1 \in 1..l /\ 1 + 1 = 2
    BY <1>2
  <2>2. seg[1] = Crlf
    BY <1>1, <2>1 DEF IsEncoded
  <2> QED BY <1>1, <2>1, <2>2
<1>4. StartsWith(seg, Crlf) /\ ~StartsWith(seg, Dashes)
  BY <1>3, PieceTags DEF StartsWith
<1>5. /\ t \in Seq(BodyPieces) /\ Len(t) = l - 1 /\ \A i \in 1..l-1 : t[i] = e[2 + i]
  <2>1. /\ t \in Seq(BodyPieces) /\ Len(t) = l - 1 /\ \A i \in 1..l-1 : t[i] = seg[i + 1]
    BY <1>1, <1>3
  <2>2. \A i \in 1..l-1 : i + 1 \in 1..l /\ 1 + (i + 1) = 2 + i
    BY <1>2
  <2> HIDE DEF t, l
  <2>3. \A i \in 1..l-1 : seg[i + 1] = e[1 + (i + 1)]
    BY <1>1, <2>2 DEF l
  <2> QED BY <2>1, <2>2, <2>3
<1> HIDE DEF t
<1>6. t # <<>> /\ Last(t) = Crlf
  <2>1. Len(t) \in 1..l-1 /\ 2 + Len(t) = Len(e)
    BY <1>2, <1>5
  <2>2. e[Len(e)] = Crlf
    BY <1>1 DEF IsEncoded
  <2>3. t[Len(t)] = e[2 + Len(t)]
    BY <1>5, <2>1
  <2>4. t # <<>>
    BY <1>2, <1>5
  <2> QED BY <2>1, <2>2, <2>3, <2>4 DEF Last
<1>7. Trim(seg) = q
  BY <1>4, <1>6 DEF Trim, Front, t
<1>8. /\ q \in Seq(BodyPieces) /\ Len(q) = l - 2 /\ \A i \in 1..l-2 : q[i] = e[2 + i]
  <2>1. 1 \in 1..Len(t)+1 /\ Len(t) - 1 \in 1-1..Len(t) /\ Len(t) - 1 = l - 2
    BY <1>2, <1>5
  <2>2. /\ q \in Seq(BodyPieces) /\ Len(q) = (Len(t) - 1) - 1 + 1
        /\ \A i \in 1..(Len(t) - 1) - 1 + 1 : q[i] = t[1 - 1 + i]
    BY <1>5, <2>1, SeqCut
  <2> HIDE DEF q
  <2> QED BY <1>2, <1>5, <2>1, <2>2
<1> HIDE DEF q
<1>9. q[1] = Disposition(p.name, p.filename) /\ q[2] = Crlf
  <2>1. 1 \in 1..l-2 /\ 2 \in 1..l-2
    BY <1>2
  <2>2. q[1] = e[2 + 1] /\ q[2] = e[2 + 2]
    BY <1>8, <2>1
  <2> QED BY <1>1, <2>2 DEF IsEncoded
<1>10. IsFile(p) => q[3] = ContentType(p.type) /\ q[4] = Crlf
  <2> SUFFICES ASSUME IsFile(p) PROVE q[3] = ContentType(p.type) /\ q[4] = Crlf
    OBVIOUS
  <2>1. 3 \in 1..l-2 /\ 4 \in 1..l-2
    BY <1>2
  <2>2. q[3] = e[2 + 3] /\ q[4] = e[2 + 4]
    BY <1>8, <2>1
  <2> QED BY <1>1, <2>2 DEF IsEncoded
<1>11. q[h - 2] = Crlf
  <2>1. h - 2 \in 1..l-2 /\ 2 + (h - 2) = h
    BY <1>2
  <2>2. q[h - 2] = e[h]
    BY <1>8, <2>1
  <2> QED BY <1>1, <2>2 DEF IsEncoded, h
<1>12. \A i \in 1..Len(c) : q[h - 2 + i] = c[i]
  <2> SUFFICES ASSUME NEW i \in 1..Len(c) PROVE q[h - 2 + i] = c[i]
    OBVIOUS
  <2>1. h - 2 + i \in 1..l-2 /\ 2 + (h - 2 + i) = h + i
    BY <1>2
  <2>2. q[h - 2 + i] = e[h + i]
    BY <1>8, <2>1
  <2> QED BY <1>1, <2>2 DEF IsEncoded, h, c
<1>13. Len(q) = h - 2 + Len(c)
  BY <1>2, <1>8
<1>14. IsTrimmed(q, p)
  BY <1>2, <1>8, <1>9, <1>10, <1>11, <1>12, <1>13 DEF IsTrimmed, h, c
<1> QED BY <1>4, <1>7, <1>14

\* The headers end where the first blank line begins.
LEMMA PartHeaders ==
  ASSUME NEW p \in FormParts, NEW q, IsTrimmed(q, p)
  PROVE  /\ q # <<>> /\ BlankLine(q) = Heading(p) - 3
         /\ SubSeq(q, Heading(p) - 3 + 2, Len(q)) = p.content
<1> DEFINE h == Heading(p)
           c == p.content
<1>1. h \in {5, 7} /\ Len(c) \in Nat /\ Len(q) = h - 2 + Len(c) /\ (IsFile(p) <=> h = 7) /\ q \in Seq(BodyPieces)
  BY DEF IsTrimmed, Heading
<1>2. /\ q[1] # Crlf /\ q[2] = Crlf /\ (h = 7 => q[3] # Crlf /\ q[4] = Crlf) /\ q[h - 2] = Crlf
      /\ \A i \in 1..Len(c) : q[h - 2 + i] = c[i]
  BY <1>1, PieceTags DEF IsTrimmed
<1> DEFINE at == {i \in 1..Len(q) - 1 : q[i] = Crlf /\ q[i + 1] = Crlf}
           first == CHOOSE i \in at : \A j \in at : i <= j
<1>3. BlankLine(q) = IF at = {} THEN 0 ELSE first
  BY DEF BlankLine
<1>4. c \in Seq(Pieces)
  BY DEF FormParts
<1> HIDE DEF h, c
<1>5. h - 3 \in 1..Len(q)-1 /\ q[h - 3] = Crlf /\ q[(h - 3) + 1] = Crlf
  <2>1. h - 3 \in 1..Len(q)-1 /\ (h - 3) + 1 = h - 2
    BY <1>1
  <2>2. CASE h = 5
    BY <1>2, <2>1, <2>2
  <2>3. CASE h = 7
    BY <1>2, <2>1, <2>3
  <2> QED BY <1>1, <2>1, <2>2, <2>3
<1>6. h - 3 \in at
  BY <1>5
<1>7. ASSUME NEW i \in at PROVE h - 3 <= i
  <2>1. i \in 1..Len(q)-1 /\ q[i] = Crlf /\ q[i + 1] = Crlf
    OBVIOUS
  <2>2. i \in Int
    BY <1>1, <2>1
  <2>3. CASE h = 5
    BY <1>2, <2>1, <2>2, <2>3
  <2>4. CASE h = 7
    <3>1. i # 1 /\ i # 3
      BY <1>2, <2>1, <2>4
    <3>2. i # 2
      <4>1. 2 + 1 = 3
        OBVIOUS
      <4> QED BY <1>2, <2>1, <2>4, <4>1
    <3>3. i >= 1
      BY <1>1, <2>1
    <3> HIDE DEF at
    <3> QED BY <2>2, <2>4, <3>1, <3>2, <3>3
  <2> QED BY <1>1, <2>3, <2>4
<1>8. first = h - 3
  <2>1. at \subseteq Int
    BY <1>1
  <2>2. \A i \in at : h - 3 <= i
    BY <1>7
  <2> HIDE DEF at
  <2>3. \E i \in at : \A j \in at : i <= j
    BY <1>6, <2>2
  <2>4. first \in at /\ \A j \in at : first <= j
    BY <2>3
  <2> HIDE DEF first
  <2>5. first <= h - 3 /\ h - 3 <= first /\ first \in Int /\ h - 3 \in Int
    BY <1>1, <1>6, <2>1, <2>2, <2>4
  <2> QED BY <2>5
<1>9. SubSeq(q, h - 3 + 2, Len(q)) = c
  <2> DEFINE m == h - 3 + 2
             r == SubSeq(q, m, Len(q))
  <2>1. m = h - 1 /\ m \in 1..Len(q)+1 /\ Len(q) \in m-1..Len(q) /\ Len(q) - m + 1 = Len(c)
    BY <1>1
  <2>2. r \in Seq(BodyPieces) /\ Len(r) = Len(c) /\ \A i \in 1..Len(c) : r[i] = q[m - 1 + i]
    <3>1. /\ r \in Seq(BodyPieces) /\ Len(r) = Len(q) - m + 1
          /\ \A i \in 1..Len(q)-m+1 : r[i] = q[m - 1 + i]
      <4> HIDE DEF m
      <4> QED BY <1>1, <2>1, SeqCut
    <3> HIDE DEF r, m
    <3> QED BY <2>1, <3>1
  <2> HIDE DEF r
  <2>3. \A i \in 1..Len(c) : r[i] = c[i]
    <3> SUFFICES ASSUME NEW i \in 1..Len(c) PROVE r[i] = c[i]
      OBVIOUS
    <3>1. m - 1 + i = h - 2 + i
      BY <1>1, <2>1
    <3> HIDE DEF m
    <3> QED BY <1>2, <2>2, <3>1
  <2>4. r = c
    <3>1. r = [i \in 1..Len(c) |-> r[i]] /\ c = [i \in 1..Len(c) |-> c[i]]
      BY <1>4, <2>2
    <3> QED BY <2>3, <3>1
  <2> QED BY <2>4 DEF r
<1>10. q # <<>>
  BY <1>1
<1> HIDE DEF first
<1> QED BY <1>3, <1>6, <1>8, <1>9, <1>10 DEF h, c

\* What the headers say is what was encoded.
LEMMA PartLines ==
  ASSUME NEW p \in FormParts, NEW q, IsTrimmed(q, p), NEW lines, lines = SubSeq(q, 1, Heading(p) - 3 - 1)
  PROVE  /\ Header(lines, "disposition") = Disposition(p.name, p.filename)
         /\ IsFile(p) => Header(lines, "type")[2] = p.type
         /\ ~\E i \in DOMAIN lines : lines[i][1] \notin {"disposition", "type", "crlf"}
<1> DEFINE n == Heading(p) - 4
           d == Disposition(p.name, p.filename)
           t == ContentType(p.type)
<1>1. n \in {1, 3} /\ (IsFile(p) <=> n = 3) /\ Heading(p) - 3 - 1 = n /\ Len(q) \in Nat /\ n <= Len(q) /\ q \in Seq(BodyPieces)
  <2>1. q \in Seq(BodyPieces) /\ Len(p.content) \in Nat /\ Len(q) = Heading(p) - 2 + Len(p.content)
    BY DEF IsTrimmed
  <2>2. Heading(p) \in {5, 7} /\ (IsFile(p) <=> Heading(p) = 7)
    BY DEF Heading
  <2> QED BY <2>1, <2>2
<1> HIDE DEF n
<1>2. Len(lines) = n /\ DOMAIN lines = 1..n /\ \A i \in 1..n : lines[i] = q[i]
  <2>1. 1 \in 1..Len(q)+1 /\ n \in 1-1..Len(q) /\ n - 1 + 1 = n
    BY <1>1
  <2>2. lines \in Seq(BodyPieces) /\ Len(lines) = n - 1 + 1 /\ \A i \in 1..n-1+1 : lines[i] = q[1 - 1 + i]
    BY <1>1, <2>1, SeqCut
  <2> QED BY <1>1, <2>1, <2>2
<1>3. lines[1] = d /\ (n = 3 => lines[2] = Crlf /\ lines[3] = t)
  BY <1>1, <1>2 DEF IsTrimmed
<1>4. d[1] = "disposition" /\ t[1] = "type" /\ t[2] = p.type /\ Crlf[1] = "crlf"
  BY PieceTags
<1> HIDE DEF d, t
<1>5. \A i \in 1..n : i = 1 \/ (n = 3 /\ (i = 2 \/ i = 3))
  <2>1. CASE n = 1
    <3>1. \A i \in 1..1 : i = 1
      OBVIOUS
    <3> QED BY <2>1, <3>1
  <2>2. CASE n = 3
    <3>1. \A i \in 1..3 : i = 1 \/ i = 2 \/ i = 3
      OBVIOUS
    <3> QED BY <2>2, <3>1
  <2> QED BY <1>1, <2>1, <2>2
<1>6. 1 \in 1..n /\ (n = 3 => 3 \in 1..n)
  BY <1>1
<1>7. lines[1][1] = "disposition" /\ (n = 3 => lines[2][1] = "crlf" /\ lines[3][1] = "type")
  BY <1>3, <1>4
<1>8. Header(lines, "disposition") = d
  <2> DEFINE own == {i \in DOMAIN lines : lines[i][1] = "disposition"}
             final == CHOOSE i \in own : \A j \in own : j <= i
  <2>1. own = {1}
    BY <1>2, <1>5, <1>6, <1>7
  <2> HIDE DEF own
  <2>2. final = 1
    BY <2>1
  <2>3. Header(lines, "disposition") = lines[final]
    BY <2>1 DEF Header, own
  <2> QED BY <1>3, <2>2, <2>3
<1>9. ASSUME IsFile(p) PROVE Header(lines, "type")[2] = p.type
  <2> DEFINE own == {i \in DOMAIN lines : lines[i][1] = "type"}
             final == CHOOSE i \in own : \A j \in own : j <= i
  <2>1. own = {3}
    BY <1>1, <1>2, <1>9, <1>5, <1>6, <1>7
  <2> HIDE DEF own
  <2>2. final = 3
    BY <2>1
  <2>3. Header(lines, "type") = lines[final]
    BY <2>1 DEF Header, own
  <2> QED BY <1>1, <1>3, <1>4, <1>9, <2>2, <2>3
<1>10. \A i \in DOMAIN lines : lines[i][1] \in {"disposition", "type", "crlf"}
  BY <1>2, <1>5, <1>7
<1> QED BY <1>8, <1>9, <1>10 DEF d

\* A file is read as it was written, a field is decoded.
ReadAs(r, st, counted, p) ==
  r = IF counted.part_count > MaxParts THEN Refuse(st, 413)
      ELSE IF IsFile(p) THEN File(counted, p.name, p.filename, p.type, p.content)
      ELSE [counted EXCEPT !.fields = With(@, p.name, Decode(p.content))]

LEMMA PartRead ==
  ASSUME NEW p \in FormParts, NEW q, IsTrimmed(q, p), NEW st, NEW counted,
         counted = [st EXCEPT !.part_count = @ + 1]
  PROVE  ReadAs(Part(st, q), st, counted, p)
<1> DEFINE blank == BlankLine(q)
           lines == SubSeq(q, 1, blank - 1)
           content == SubSeq(q, blank + 2, Len(q))
           disp == Header(lines, "disposition")
           mime == Header(lines, "type")[2]
<1>1. blank = Heading(p) - 3 /\ content = p.content /\ blank # 0
  BY PartHeaders DEF Heading
<1>2. /\ disp = Disposition(p.name, p.filename) /\ (IsFile(p) => mime = p.type)
      /\ ~\E i \in DOMAIN lines : lines[i][1] \notin {"disposition", "type", "crlf"}
  BY <1>1, PartLines
<1>3. Part(st, q) =
        IF counted.part_count > MaxParts THEN Refuse(st, 413)
        ELSE IF blank = 0 THEN Refuse(st, 400)
        ELSE IF \E i \in DOMAIN lines : lines[i][1] \notin {"disposition", "type", "crlf"} THEN Refuse(st, 400)
        ELSE IF disp[2] = Missing THEN Refuse(st, 400)
        ELSE IF disp[3] = Missing THEN [counted EXCEPT !.fields = With(@, disp[2], Decode(content))]
        ELSE File(counted, disp[2], disp[3], mime, content)
  BY DEF Part
<1>4. disp[2] = p.name /\ disp[3] = p.filename /\ p.name # Missing
  BY <1>2, PieceTags, FormsAssumption DEF FormParts
<1> HIDE DEF blank, lines, content, disp, mime
<1> QED BY <1>1, <1>2, <1>3, <1>4 DEF IsFile, ReadAs

\* A part that is appended is the last one.
Grown(g, p, h, m) ==
  /\ g \in Seq(FormParts) /\ h \in Seq(FormParts) /\ m \in Nat /\ m >= 1
  /\ Len(g) = m - 1 /\ DOMAIN g = 1..m-1 /\ Len(h) = m /\ DOMAIN h = 1..m
  /\ h[m] = p /\ \A i \in 1..m-1 : h[i] = g[i]

LEMMA PartAppended ==
  ASSUME NEW g \in Seq(FormParts), NEW p \in FormParts
  PROVE  Grown(g, p, Append(g, p), Len(g) + 1)
<1> HIDE DEF FormParts
<1> QED BY DEF Grown

\* A set of positions has a highest one.
LEMMA HighestOf ==
  ASSUME NEW n \in Nat, NEW S \in SUBSET (1..n), S # {}
  PROVE  \E i \in S : \A j \in S : j <= i
<1> DEFINE T == {n - i : i \in S}
<1>1. T \in SUBSET Nat /\ T # {}
  <2>1. \A i \in S : n - i \in Nat
    OBVIOUS
  <2> QED BY <2>1
<1> HIDE DEF T
<1>2. PICK k \in T : \A m \in T : k <= m
  BY <1>1, LeastOf
<1>3. PICK i \in S : k = n - i
  BY DEF T
<1>4. ASSUME NEW j \in S PROVE j <= i
  <2>1. n - j \in T
    BY DEF T
  <2>2. k <= n - j
    BY <1>2, <2>1
  <2> QED BY <1>3, <2>2
<1> QED BY <1>4

Last1(S) == CHOOSE i \in S : \A j \in S : j <= i

\* The last part of a name, when a part is appended that is among those in
\* question, or is not.
LastKept(g, p, h, m, own) ==
  /\ LastOf(h, p.name, own \cup {m}) = p
  /\ \A name \in NamesOf(g, own) : /\ name # p.name => LastOf(h, name, own \cup {m}) = LastOf(g, name, own)
                                   /\ LastOf(h, name, own) = LastOf(g, name, own)
  /\ NamesOf(h, own \cup {m}) = NamesOf(g, own) \cup {p.name}
  /\ NamesOf(h, own) = NamesOf(g, own)

LEMMA LastGrows ==
  ASSUME NEW g, NEW p, NEW h, NEW m, Grown(g, p, h, m), NEW own \in SUBSET (1..m-1)
  PROVE  LastKept(g, p, h, m, own)
<1>1. m \in Nat /\ m - 1 \in Nat /\ h[m] = p /\ \A i \in own : h[i] = g[i] /\ i \in Nat /\ i < m
  BY DEF Grown
<1>2. LastOf(h, p.name, own \cup {m}) = p
  <2> DEFINE M == Named(h, p.name, own \cup {m})
             k == Last1(M)
  <2>1. m \in M /\ \A j \in M : j \in Nat /\ j <= m
    BY <1>1 DEF Named
  <2> HIDE DEF M
  <2>2. k \in M /\ \A j \in M : j <= k
    BY <2>1 DEF Last1
  <2> HIDE DEF k
  <2>3. k \in Nat /\ k <= m /\ m <= k
    BY <2>1, <2>2
  <2>4. k = m
    BY <1>1, <2>3
  <2> QED BY <1>1, <2>4 DEF LastOf, Last1, M, k
<1>3. ASSUME NEW name \in NamesOf(g, own) PROVE h[Last1(Named(g, name, own))] = g[Last1(Named(g, name, own))]
  <2> DEFINE N == Named(g, name, own)
  <2>1. N \in SUBSET (1..m-1) /\ N # {} /\ N \subseteq own
    BY DEF Named, NamesOf
  <2> HIDE DEF N
  <2>2. \E i \in N : \A j \in N : j <= i
    BY <1>1, <2>1, HighestOf
  <2>3. Last1(N) \in N
    BY <2>2 DEF Last1
  <2>4. h[Last1(N)] = g[Last1(N)]
    BY <1>1, <2>1, <2>3
  <2> QED BY <2>4 DEF N
<1>4. \A name : Named(h, name, own) = Named(g, name, own)
  BY <1>1 DEF Named
<1>5. \A name : name # p.name => Named(h, name, own \cup {m}) = Named(g, name, own)
  BY <1>1 DEF Named
<1>6. \A name \in NamesOf(g, own) : LastOf(h, name, own) = LastOf(g, name, own)
  <2> SUFFICES ASSUME NEW name \in NamesOf(g, own) PROVE LastOf(h, name, own) = LastOf(g, name, own)
    OBVIOUS
  <2>1. Named(h, name, own) = Named(g, name, own)
    BY <1>4
  <2>2. h[Last1(Named(g, name, own))] = g[Last1(Named(g, name, own))]
    BY <1>3
  <2> QED BY <2>1, <2>2 DEF LastOf, Last1
<1>7. \A name \in NamesOf(g, own) : name # p.name => LastOf(h, name, own \cup {m}) = LastOf(g, name, own)
  <2> SUFFICES ASSUME NEW name \in NamesOf(g, own), name # p.name
               PROVE  LastOf(h, name, own \cup {m}) = LastOf(g, name, own)
    OBVIOUS
  <2>1. Named(h, name, own \cup {m}) = Named(g, name, own)
    BY <1>5
  <2>2. h[Last1(Named(g, name, own))] = g[Last1(Named(g, name, own))]
    BY <1>3
  <2> QED BY <2>1, <2>2 DEF LastOf, Last1
<1>8. NamesOf(h, own) = NamesOf(g, own) /\ NamesOf(h, own \cup {m}) = NamesOf(g, own) \cup {p.name}
  BY <1>1 DEF NamesOf
<1> QED BY <1>2, <1>6, <1>7, <1>8 DEF LastKept

\* How the files and the fields of a form grow by a part.
LEMMA CountOfFiles ==
  ASSUME NEW g, NEW p, NEW h, NEW m, Grown(g, p, h, m)
  PROVE  /\ FilesOf(h) = IF IsFile(p) THEN FilesOf(g) \cup {m} ELSE FilesOf(g)
         /\ FieldsOf(h) = IF IsFile(p) THEN FieldsOf(g) ELSE FieldsOf(g) \cup {m}
         /\ FilesOf(g) \in SUBSET (1..m-1) /\ FieldsOf(g) \in SUBSET (1..m-1)
         /\ IsFiniteSet(FilesOf(g)) /\ Cardinality(FilesOf(g)) \in Nat
         /\ Cardinality(FilesOf(h)) = IF IsFile(p) THEN Cardinality(FilesOf(g)) + 1 ELSE Cardinality(FilesOf(g))
<1>1. m \in Nat /\ m - 1 \in Nat /\ FilesOf(g) \subseteq 1..m-1
  BY DEF Grown, FilesOf
<1>2. IsFiniteSet(1..m-1)
  BY <1>1, FS_Interval
<1>3. IsFiniteSet(FilesOf(g)) /\ Cardinality(FilesOf(g)) \in Nat
  BY <1>1, <1>2, FS_Subset, FS_CardinalityType
<1>4. m \notin FilesOf(g)
  BY <1>1
<1>5. FilesOf(h) = IF IsFile(p) THEN FilesOf(g) \cup {m} ELSE FilesOf(g)
  <2>1. ASSUME NEW i \in FilesOf(h) PROVE i \in FilesOf(g) \/ (i = m /\ IsFile(p))
    <3>1. i \in 1..m /\ IsFile(h[i])
      BY DEF FilesOf, Grown
    <3>2. CASE i = m
      BY <3>1, <3>2 DEF Grown
    <3>3. CASE i # m
      <4>1. i \in 1..m-1
        BY <1>1, <3>1, <3>3
      <4> QED BY <3>1, <4>1 DEF FilesOf, Grown
    <3> QED BY <3>2, <3>3
  <2>2. FilesOf(g) \subseteq FilesOf(h)
    <3> SUFFICES ASSUME NEW i \in FilesOf(g) PROVE i \in FilesOf(h)
      OBVIOUS
    <3>1. i \in 1..m-1 /\ i \in 1..m
      BY <1>1
    <3> QED BY <3>1 DEF FilesOf, Grown
  <2>3. IsFile(p) => m \in FilesOf(h)
    <3>1. m \in 1..m
      BY DEF Grown
    <3> QED BY <3>1 DEF FilesOf, Grown
  <2> QED BY <2>1, <2>2, <2>3
<1>6. Cardinality(FilesOf(g) \cup {m}) = Cardinality(FilesOf(g)) + 1
  BY <1>3, <1>4, FS_AddElement
<1>7. FieldsOf(h) = IF IsFile(p) THEN FieldsOf(g) ELSE FieldsOf(g) \cup {m}
  <2>1. 1..m = 1..m-1 \cup {m} /\ m \notin 1..m-1
    BY <1>1 DEF Grown
  <2>2. DOMAIN h = 1..m /\ DOMAIN g = 1..m-1
    BY DEF Grown
  <2> QED BY <1>1, <1>5, <2>1, <2>2 DEF FieldsOf
<1>8. FieldsOf(g) \in SUBSET (1..m-1)
  BY DEF FieldsOf, Grown
<1> QED BY <1>1, <1>3, <1>5, <1>6, <1>7, <1>8

\* The fields as they are read, and the files that a form says, with one part
\* more.
FieldsRead(g) == [name \in NamesOf(g, FieldsOf(g)) |-> Decode(LastOf(g, name, FieldsOf(g)).content)]
SaidMore(g, p, h) ==
  /\ IsFile(p) => FieldsRead(h) = FieldsRead(g)
  /\ ~IsFile(p) => FieldsRead(h) = With(FieldsRead(g), p.name, Decode(p.content))
  /\ ~IsFile(p) => FilesSaid(h) = FilesSaid(g)
  /\ IsFile(p) => FilesSaid(h) =
       With(FilesSaid(g), p.name, [filename |-> p.filename, content |-> p.content])

LEMMA SaidGrows ==
  ASSUME NEW g, NEW p, NEW h, NEW m, Grown(g, p, h, m)
  PROVE  SaidMore(g, p, h)
<1> DEFINE X == FilesOf(g)
           Y == FieldsOf(g)
           said(q) == [filename |-> q.filename, content |-> q.content]
<1>1. /\ FilesOf(h) = IF IsFile(p) THEN X \cup {m} ELSE X
      /\ FieldsOf(h) = IF IsFile(p) THEN Y ELSE Y \cup {m}
      /\ X \in SUBSET (1..m-1) /\ Y \in SUBSET (1..m-1)
  BY CountOfFiles
<1> HIDE DEF X, Y
<1>2. /\ LastOf(h, p.name, Y \cup {m}) = p
      /\ \A name \in NamesOf(g, Y) : /\ name # p.name => LastOf(h, name, Y \cup {m}) = LastOf(g, name, Y)
                                     /\ LastOf(h, name, Y) = LastOf(g, name, Y)
      /\ NamesOf(h, Y \cup {m}) = NamesOf(g, Y) \cup {p.name}
      /\ NamesOf(h, Y) = NamesOf(g, Y)
  <2>1. LastKept(g, p, h, m, Y)
    BY <1>1, LastGrows
  <2> QED BY <2>1 DEF LastKept
<1>3. /\ LastOf(h, p.name, X \cup {m}) = p
      /\ \A name \in NamesOf(g, X) : /\ name # p.name => LastOf(h, name, X \cup {m}) = LastOf(g, name, X)
                                     /\ LastOf(h, name, X) = LastOf(g, name, X)
      /\ NamesOf(h, X \cup {m}) = NamesOf(g, X) \cup {p.name}
      /\ NamesOf(h, X) = NamesOf(g, X)
  <2>1. LastKept(g, p, h, m, X)
    BY <1>1, LastGrows
  <2> QED BY <2>1 DEF LastKept
<1>4. ASSUME IsFile(p) PROVE FieldsRead(h) = FieldsRead(g)
  BY <1>1, <1>2, <1>4 DEF FieldsRead, Y
<1>5. ASSUME ~IsFile(p) PROVE FilesSaid(h) = FilesSaid(g)
  BY <1>1, <1>3, <1>5 DEF FilesSaid, X
<1>6. ASSUME ~IsFile(p) PROVE FieldsRead(h) = With(FieldsRead(g), p.name, Decode(p.content))
  <2> DEFINE f == FieldsRead(g)
             A == NamesOf(h, Y \cup {m})
             value(name) == Decode(LastOf(h, name, Y \cup {m}).content)
  <2>1. DOMAIN f = NamesOf(g, Y) /\ \A name \in NamesOf(g, Y) : f[name] = Decode(LastOf(g, name, Y).content)
    BY DEF FieldsRead, Y
  <2>2. FieldsRead(h) = [name \in A |-> value(name)]
    BY <1>1, <1>6 DEF FieldsRead
  <2> HIDE DEF f
  <2>3. \A name \in A : value(name) = IF name = p.name THEN Decode(p.content) ELSE f[name]
    BY <1>2, <2>1
  <2>4. A = DOMAIN f \cup {p.name}
    BY <1>2, <2>1
  <2> HIDE DEF A, value
  <2>5. [name \in A |-> value(name)] = [name \in DOMAIN f \cup {p.name} |-> IF name = p.name THEN Decode(p.content) ELSE f[name]]
    BY <2>3, <2>4
  <2> QED BY <2>2, <2>5 DEF With, f
<1>7. ASSUME IsFile(p) PROVE FilesSaid(h) = With(FilesSaid(g), p.name, said(p))
  <2> DEFINE f == FilesSaid(g)
             A == NamesOf(h, X \cup {m})
             value(name) == said(LastOf(h, name, X \cup {m}))
  <2>1. DOMAIN f = NamesOf(g, X) /\ \A name \in NamesOf(g, X) : f[name] = said(LastOf(g, name, X))
    BY DEF FilesSaid, X
  <2>2. FilesSaid(h) = [name \in A |-> value(name)]
    BY <1>1, <1>7 DEF FilesSaid
  <2> HIDE DEF f, said
  <2>3. \A name \in A : value(name) = IF name = p.name THEN said(p) ELSE f[name]
    BY <1>3, <2>1
  <2>4. A = DOMAIN f \cup {p.name}
    BY <1>3, <2>1
  <2> HIDE DEF A, value
  <2>5. [name \in A |-> value(name)] = [name \in DOMAIN f \cup {p.name} |-> IF name = p.name THEN said(p) ELSE f[name]]
    BY <2>3, <2>4
  <2> QED BY <2>2, <2>5 DEF With, f
<1> QED BY <1>4, <1>5, <1>6, <1>7 DEF SaidMore

\* What is acceptable of one part.
Fine(p) ==
  IsFile(p) => /\ Len(p.content) <= MaxFileSize
               /\ Sniffed(p.content) \notin Dangerous
               /\ Sniffed(p.content) \in {Missing, p.type} \/ p.type \notin Compared

LEMMA AcceptableGrows ==
  ASSUME NEW g, NEW p, NEW h, NEW m, Grown(g, p, h, m)
  PROVE  Acceptable(h) <=> /\ Acceptable(g) /\ m <= MaxParts /\ Fine(p)
                           /\ Cardinality(FilesOf(h)) <= MaxFiles
<1> DEFINE c == Cardinality(FilesOf(g))
           d == Cardinality(FilesOf(h))
<1>1. c \in Nat /\ d = IF IsFile(p) THEN c + 1 ELSE c
  BY CountOfFiles
<1>2. Acceptable(g) <=> m - 1 <= MaxParts /\ c <= MaxFiles /\ \A i \in FilesOf(g) : Fine(g[i])
  <2>1. Len(g) = m - 1
    BY DEF Grown
  <2>2. \A i \in FilesOf(g) : IsFile(g[i])
    BY DEF FilesOf
  <2> QED BY <2>1, <2>2 DEF Acceptable, Fine
<1>3. Acceptable(h) <=> m <= MaxParts /\ d <= MaxFiles /\ \A i \in FilesOf(h) : Fine(h[i])
  <2>1. Len(h) = m
    BY DEF Grown
  <2>2. \A i \in FilesOf(h) : IsFile(h[i])
    BY DEF FilesOf
  <2> QED BY <2>1, <2>2 DEF Acceptable, Fine
<1>4. (\A i \in FilesOf(h) : Fine(h[i])) <=> (\A i \in FilesOf(g) : Fine(g[i])) /\ Fine(p)
  <2>1. \A i \in FilesOf(g) : h[i] = g[i]
    BY DEF FilesOf, Grown
  <2>2. h[m] = p
    BY DEF Grown
  <2>3. CASE IsFile(p)
    <3>1. FilesOf(h) = FilesOf(g) \cup {m}
      BY <2>3, CountOfFiles
    <3> QED BY <2>1, <2>2, <3>1
  <2>4. CASE ~IsFile(p)
    <3>1. FilesOf(h) = FilesOf(g) /\ Fine(p)
      BY <2>4, CountOfFiles DEF Fine
    <3> QED BY <2>1, <3>1
  <2> QED BY <2>3, <2>4
<1>5. MaxParts \in Nat /\ MaxFiles \in Nat /\ m \in Nat
  BY MultipartAssumption DEF Grown
<1> HIDE DEF c, d
<1>6. (m <= MaxParts => m - 1 <= MaxParts) /\ (d <= MaxFiles => c <= MaxFiles)
  BY <1>1, <1>5
<1> QED BY <1>2, <1>3, <1>4, <1>6 DEF d

\* What the parser has come to, once it has read these parts.
Saying(k, c, fields, files_) ==
  [status |-> 0, part_count |-> k, file_count |-> c, fields |-> fields, files |-> files_]
IsRefused(st) == \E k, c, x, y : \E why \in {413, 415} : st = Refuse(Saying(k, c, x, y), why)
Says(st, g) ==
  IF Acceptable(g) THEN st = Saying(Len(g), Cardinality(FilesOf(g)), FieldsRead(g), FilesSaid(g))
  ELSE IsRefused(st)

\* What File makes of a part that is one.
LEMMA FileRead ==
  ASSUME NEW k, NEW c, NEW fields, NEW files_, NEW p
  PROVE  File(Saying(k, c, fields, files_), p.name, p.filename, p.type, p.content) =
           IF c + 1 > MaxFiles \/ Len(p.content) > MaxFileSize THEN Refuse(Saying(k, c, fields, files_), 413)
           ELSE IF Sniffed(p.content) \in Dangerous THEN Refuse(Saying(k, c, fields, files_), 415)
           ELSE IF Sniffed(p.content) # Missing /\ p.type \in Compared /\ Sniffed(p.content) # p.type
                THEN Refuse(Saying(k, c, fields, files_), 415)
           ELSE Saying(k, c + 1, fields, With(files_, p.name, [filename |-> p.filename, content |-> p.content]))
<1> DEFINE st == Saying(k, c, fields, files_)
           said == [filename |-> p.filename, content |-> p.content]
           counted == [st EXCEPT !.file_count = @ + 1]
<1>1. counted = Saying(k, c + 1, fields, files_) /\ counted.file_count = c + 1
  BY DEF Saying
<1>2. [counted EXCEPT !.files = With(@, p.name, said)] = Saying(k, c + 1, fields, With(files_, p.name, said))
  <2> HIDE DEF counted, said
  <2>1. counted.files = files_
    BY <1>1 DEF Saying
  <2> DEFINE w == With(files_, p.name, said)
  <2> HIDE DEF w
  <2>2. [counted EXCEPT !.files = w] = Saying(k, c + 1, fields, w)
    BY <1>1 DEF Saying
  <2> QED BY <2>1, <2>2 DEF w
<1>3. File(st, p.name, p.filename, p.type, p.content) =
        IF counted.file_count > MaxFiles \/ Len(p.content) > MaxFileSize THEN Refuse(st, 413)
        ELSE IF Sniffed(p.content) \in Dangerous THEN Refuse(st, 415)
        ELSE IF Sniffed(p.content) # Missing /\ p.type \in Compared /\ Sniffed(p.content) # p.type THEN Refuse(st, 415)
        ELSE [counted EXCEPT !.files = With(@, p.name, said)]
  BY DEF File
<1> HIDE DEF counted, st, said
<1>4. File(st, p.name, p.filename, p.type, p.content) =
        IF c + 1 > MaxFiles \/ Len(p.content) > MaxFileSize THEN Refuse(st, 413)
        ELSE IF Sniffed(p.content) \in Dangerous THEN Refuse(st, 415)
        ELSE IF Sniffed(p.content) # Missing /\ p.type \in Compared /\ Sniffed(p.content) # p.type THEN Refuse(st, 415)
        ELSE Saying(k, c + 1, fields, With(files_, p.name, said))
  BY <1>1, <1>2, <1>3
<1> QED BY <1>4 DEF st, said

\* A refusal keeps its status.
LEMMA RefusedStatus ==
  ASSUME NEW st, IsRefused(st)
  PROVE  /\ st.status \in {413, 415}
         /\ [st EXCEPT !.status = IF @ = 0 THEN 200 ELSE @].status \in {413, 415}
<1>1. PICK k, c, x, y : \E why \in {413, 415} : st = Refuse(Saying(k, c, x, y), why)
  BY DEF IsRefused
<1>2. PICK why \in {413, 415} : st = Refuse(Saying(k, c, x, y), why)
  BY <1>1
<1>3. st = [status |-> why, part_count |-> k, file_count |-> c, fields |-> x, files |-> y]
  BY <1>2 DEF Refuse, Saying
<1> QED BY <1>3

LEMMA Refused ==
  ASSUME NEW k, NEW c, NEW x, NEW y, NEW why \in {413, 415}
  PROVE  IsRefused(Refuse(Saying(k, c, x, y), why))
BY DEF IsRefused

\* One more segment, one more part.
LEMMA StepSays ==
  ASSUME NEW g \in Seq(FormParts), NEW p \in FormParts, NEW seg, IsSegment(seg, p), NEW st, Says(st, g)
  PROVE  Says(Step(st, seg), Append(g, p))
<1> DEFINE h == Append(g, p)
           m == Len(g) + 1
           c == Cardinality(FilesOf(g))
           q == Trim(seg)
           x == FieldsRead(g)
           y == FilesSaid(g)
<1>1. Grown(g, p, h, m)
  BY PartAppended
<1> HIDE DEF h, m
<1>2. Len(g) \in Nat /\ m = Len(g) + 1 /\ Len(h) = m /\ m \in Nat /\ Len(g) = m - 1
  BY <1>1 DEF Grown
<1>3. /\ Acceptable(h) <=> /\ Acceptable(g) /\ m <= MaxParts /\ Fine(p)
                           /\ Cardinality(FilesOf(h)) <= MaxFiles
      /\ c \in Nat /\ Cardinality(FilesOf(h)) = IF IsFile(p) THEN c + 1 ELSE c
  BY <1>1, AcceptableGrows, CountOfFiles
<1>4. /\ IsFile(p) => FieldsRead(h) = x
      /\ ~IsFile(p) => FieldsRead(h) = With(x, p.name, Decode(p.content))
      /\ ~IsFile(p) => FilesSaid(h) = y
      /\ IsFile(p) => FilesSaid(h) = With(y, p.name, [filename |-> p.filename, content |-> p.content])
  <2>1. SaidMore(g, p, h)
    BY <1>1, SaidGrows
  <2> QED BY <2>1 DEF SaidMore
<1>5. CASE ~Acceptable(g)
  <2>1. IsRefused(st)
    BY <1>5 DEF Says
  <2>2. Step(st, seg) = st
    BY <2>1, RefusedStatus DEF Step
  <2> QED BY <1>3, <1>5, <2>1, <2>2 DEF Says, h
<1>6. CASE Acceptable(g)
  <2> DEFINE counted == Saying(m, c, x, y)
  <2>1. st = Saying(m - 1, c, x, y) /\ c <= MaxFiles
    <3>1. st = Saying(Len(g), c, x, y)
      BY <1>6 DEF Says
    <3>2. c <= MaxFiles
      BY <1>6 DEF Acceptable
    <3> QED BY <1>2, <3>1, <3>2
  <2>2. counted = [st EXCEPT !.part_count = @ + 1] /\ st.status = 0 /\ counted.part_count = m /\ counted.fields = x
    <3>1. (m - 1) + 1 = m
      BY <1>2
    <3> HIDE DEF m, c, x, y
    <3> QED BY <2>1, <3>1 DEF Saying
  <2>3. IsTrimmed(q, p) /\ ~StartsWith(seg, Dashes)
    BY PartTrimmed
  <2>4. q # <<>>
    BY <2>3, PartHeaders
  <2>5. Step(st, seg) = Part(st, q)
    BY <2>2, <2>3, <2>4 DEF Step
  <2> HIDE DEF q, counted
  <2>6. Part(st, q) = IF counted.part_count > MaxParts THEN Refuse(st, 413)
                      ELSE IF IsFile(p) THEN File(counted, p.name, p.filename, p.type, p.content)
                      ELSE [counted EXCEPT !.fields = With(@, p.name, Decode(p.content))]
    <3>1. counted = [st EXCEPT !.part_count = @ + 1]
      BY <2>2
    <3>2. ReadAs(Part(st, q), st, counted, p)
      BY <2>3, <3>1, PartRead
    <3> QED BY <3>2 DEF ReadAs
  <2>7. MaxParts \in Nat /\ MaxFiles \in Nat /\ MaxFileSize \in Nat /\ Len(p.content) \in Nat
    BY <2>3, MultipartAssumption DEF IsTrimmed
  <2>8. CASE m > MaxParts
    <3>1. ~Acceptable(h)
      BY <1>2, <1>3, <2>7, <2>8
    <3>2. Part(st, q) = Refuse(st, 413)
      BY <2>2, <2>6, <2>8
    <3>3. IsRefused(Refuse(st, 413))
      BY <2>1, Refused
    <3> QED BY <2>5, <3>1, <3>2, <3>3 DEF Says, h
  <2>9. CASE m <= MaxParts /\ ~IsFile(p)
    <3>1. Acceptable(h) /\ Cardinality(FilesOf(h)) = c
      BY <1>3, <1>6, <2>1, <2>9 DEF Fine
    <3>2. Part(st, q) = [counted EXCEPT !.fields = With(@, p.name, Decode(p.content))]
      <4>1. ~(counted.part_count > MaxParts)
        BY <1>2, <2>2, <2>7, <2>9
      <4> QED BY <2>6, <2>9, <4>1
    <3>3. [counted EXCEPT !.fields = With(@, p.name, Decode(p.content))] = Saying(m, c, With(x, p.name, Decode(p.content)), y)
      BY DEF counted, Saying
    <3> QED BY <1>2, <1>4, <2>5, <2>9, <3>1, <3>2, <3>3 DEF Says, h
  <2>10. CASE m <= MaxParts /\ IsFile(p)
    <3> DEFINE said == [filename |-> p.filename, content |-> p.content]
               sniffed == Sniffed(p.content)
               r == Part(st, q)
    <3>1. r = File(counted, p.name, p.filename, p.type, p.content)
      BY <1>2, <2>2, <2>6, <2>7, <2>10
    <3>2. r = IF c + 1 > MaxFiles \/ Len(p.content) > MaxFileSize THEN Refuse(counted, 413)
              ELSE IF sniffed \in Dangerous THEN Refuse(counted, 415)
              ELSE IF sniffed # Missing /\ p.type \in Compared /\ sniffed # p.type THEN Refuse(counted, 415)
              ELSE Saying(m, c + 1, x, With(y, p.name, said))
      BY <3>1, FileRead DEF counted
    <3>3. Cardinality(FilesOf(h)) = c + 1
      BY <1>3, <2>10
    <3>4. IsRefused(Refuse(counted, 413)) /\ IsRefused(Refuse(counted, 415))
      BY Refused DEF counted
    <3> HIDE DEF r, said, sniffed, c, x, y
    <3>5. Fine(p) <=> /\ Len(p.content) <= MaxFileSize /\ sniffed \notin Dangerous
                      /\ sniffed \in {Missing, p.type} \/ p.type \notin Compared
      BY <2>10 DEF Fine, sniffed
    <3>6. CASE Acceptable(h)
      <4>1. c + 1 <= MaxFiles /\ Len(p.content) <= MaxFileSize
        BY <1>3, <3>3, <3>5, <3>6
      <4>2. ~(c + 1 > MaxFiles) /\ ~(Len(p.content) > MaxFileSize)
        BY <1>3, <2>7, <4>1
      <4>3. r = Saying(m, c + 1, x, With(y, p.name, said))
        BY <1>3, <3>2, <3>5, <3>6, <4>2
      <4> QED BY <1>2, <1>4, <2>5, <2>10, <3>3, <3>6, <4>3 DEF Says, h, r, said
    <3>7. CASE ~Acceptable(h)
      <4>1. ~(c + 1 <= MaxFiles) \/ ~Fine(p)
        BY <1>3, <1>6, <2>10, <3>3, <3>7
      <4>2. IsRefused(r)
        <5>1. CASE ~(c + 1 <= MaxFiles)
          <6>1. c + 1 > MaxFiles
            BY <1>3, <2>7, <5>1
          <6> QED BY <3>2, <3>4, <6>1
        <5>2. CASE ~(Len(p.content) <= MaxFileSize)
          <6>1. Len(p.content) > MaxFileSize
            BY <2>7, <5>2
          <6> QED BY <3>2, <3>4, <6>1
        <5>3. CASE sniffed \in Dangerous
          BY <3>2, <3>4, <5>3
        <5>4. CASE sniffed # Missing /\ sniffed # p.type /\ p.type \in Compared
          BY <3>2, <3>4, <5>4
        <5> QED BY <3>5, <4>1, <5>1, <5>2, <5>3, <5>4
      <4> QED BY <2>5, <3>7, <4>2 DEF Says, h, r
    <3> QED BY <3>6, <3>7
  <2> QED BY <1>2, <2>7, <2>8, <2>9, <2>10
<1> QED BY <1>5, <1>6

\* What a form is encoded to, part by part,
LEMMA EncodedLevels ==
  ASSUME NEW f, Len(f) \in Nat
  PROVE  /\ Encoded(f)[0] = <<>>
         /\ \A n \in 1..Len(f) : Encoded(f)[n] = Encoded(f)[n - 1] \o EncodePart(f[n])
<1> DEFINE N == Len(f)
           More(s, n) == s \o EncodePart(f[n])
           Is(u, k) == u = [n \in 0..k |-> IF n = 0 THEN <<>> ELSE More(u[n - 1], n)]
           D == {k \in Nat : \E u : Is(u, k)}
<1>1. 0 \in D
  <2> DEFINE u == [n \in 0..0 |-> <<>>]
  <2> HIDE DEF More
  <2>1. Is(u, 0)
    OBVIOUS
  <2> HIDE DEF u, Is
  <2> QED BY <2>1
<1>2. ASSUME NEW k \in Nat, NEW u, Is(u, k) PROVE \E v : Is(v, k + 1)
  <2> HIDE DEF More
  <2> DEFINE v == [n \in 0..k+1 |-> IF n = 0 THEN <<>> ELSE More(u[n - 1], n)]
  <2>1. ASSUME NEW n \in 0..k PROVE u[n] = v[n]
    <3>1. u[n] = IF n = 0 THEN <<>> ELSE More(u[n - 1], n)
      BY <1>2
    <3>2. v[n] = IF n = 0 THEN <<>> ELSE More(u[n - 1], n)
      OBVIOUS
    <3> QED BY <3>1, <3>2
  <2>2. ASSUME NEW n \in 1..k+1 PROVE v[n - 1] = u[n - 1]
    <3>1. n - 1 \in 0..k
      OBVIOUS
    <3> QED BY <2>1, <3>1
  <2>3. \A n \in 0..k+1 : v[n] = IF n = 0 THEN <<>> ELSE More(v[n - 1], n)
    <3>1. \A n \in 0..k+1 : v[n] = IF n = 0 THEN <<>> ELSE More(u[n - 1], n)
      OBVIOUS
    <3>2. \A n \in 0..k+1 : n # 0 => n \in 1..k+1
      OBVIOUS
    <3> HIDE DEF v
    <3> QED BY <2>2, <3>1, <3>2
  <2>4. v = [n \in 0..k+1 |-> v[n]]
    OBVIOUS
  <2>5. Is(v, k + 1)
    <3> HIDE DEF v
    <3> QED BY <2>3, <2>4
  <2> HIDE DEF v, Is
  <2> QED BY <2>5
<1>3. PICK u : Is(u, N)
  <2>1. \A k \in Nat : k \in D => k + 1 \in D
    <3> HIDE DEF Is
    <3> QED BY <1>2
  <2> HIDE DEF D
  <2>2. N \in D
    BY <1>1, <2>1, Induction
  <2> QED BY <2>2 DEF D
<1>4. Encoded(f) = [n \in 0..N |-> IF n = 0 THEN <<>> ELSE Encoded(f)[n - 1] \o EncodePart(f[n])]
  BY <1>3 DEF Encoded
<1>5. 0 \in 0..N /\ \A n \in 1..N : n \in 0..N /\ n # 0
  OBVIOUS
<1> QED BY <1>4, <1>5

\* and what is read of a body, position by position.
ReadOn(raw, st, i) == IF EndsSegment(raw, i) THEN Step(st, Segment(raw, i)) ELSE st

LEMMA ReadSoFarLevels ==
  ASSUME NEW raw, Len(raw) \in Nat
  PROVE  /\ ReadSoFar(raw)[0] = Start(raw)
         /\ \A i \in 1..Len(raw)+1 : ReadSoFar(raw)[i] = ReadOn(raw, ReadSoFar(raw)[i - 1], i)
<1> DEFINE N == Len(raw) + 1
           Is(u, k) == u = [n \in 0..k |-> IF n = 0 THEN Start(raw) ELSE ReadOn(raw, u[n - 1], n)]
           D == {k \in Nat : \E u : Is(u, k)}
<1>1. 0 \in D
  <2> DEFINE u == [n \in 0..0 |-> Start(raw)]
  <2>1. Is(u, 0)
    OBVIOUS
  <2> HIDE DEF u, Is
  <2> QED BY <2>1
<1>2. ASSUME NEW k \in Nat, NEW u, Is(u, k) PROVE \E v : Is(v, k + 1)
  <2> DEFINE v == [n \in 0..k+1 |-> IF n = 0 THEN Start(raw) ELSE ReadOn(raw, u[n - 1], n)]
  <2>1. ASSUME NEW n \in 0..k PROVE u[n] = v[n]
    <3>1. u[n] = IF n = 0 THEN Start(raw) ELSE ReadOn(raw, u[n - 1], n)
      BY <1>2
    <3>2. v[n] = IF n = 0 THEN Start(raw) ELSE ReadOn(raw, u[n - 1], n)
      OBVIOUS
    <3> QED BY <3>1, <3>2
  <2>2. ASSUME NEW n \in 1..k+1 PROVE v[n - 1] = u[n - 1]
    <3>1. n - 1 \in 0..k
      OBVIOUS
    <3> QED BY <2>1, <3>1
  <2>3. \A n \in 0..k+1 : v[n] = IF n = 0 THEN Start(raw) ELSE ReadOn(raw, v[n - 1], n)
    <3>1. \A n \in 0..k+1 : v[n] = IF n = 0 THEN Start(raw) ELSE ReadOn(raw, u[n - 1], n)
      OBVIOUS
    <3>2. \A n \in 0..k+1 : n # 0 => n \in 1..k+1
      OBVIOUS
    <3> HIDE DEF v
    <3> QED BY <2>2, <3>1, <3>2
  <2>4. v = [n \in 0..k+1 |-> v[n]]
    OBVIOUS
  <2>5. Is(v, k + 1)
    <3> HIDE DEF v
    <3> QED BY <2>3, <2>4
  <2> HIDE DEF v, Is
  <2> QED BY <2>5
<1>3. PICK u : Is(u, N)
  <2>1. \A k \in Nat : k \in D => k + 1 \in D
    <3> HIDE DEF Is
    <3> QED BY <1>2
  <2>2. N \in Nat
    OBVIOUS
  <2> HIDE DEF D
  <2>3. N \in D
    BY <1>1, <2>1, <2>2, Induction
  <2> QED BY <2>3 DEF D
<1>4. ReadSoFar(raw) = [n \in 0..N |-> IF n = 0 THEN Start(raw) ELSE ReadOn(raw, ReadSoFar(raw)[n - 1], n)]
  BY <1>3 DEF ReadSoFar, ReadOn
<1>5. 0 \in 0..N /\ \A n \in 1..N : n \in 0..N /\ n # 0
  OBVIOUS
<1> QED BY <1>4, <1>5

\* One sequence begins with the other.
Begins(s, t) == Len(s) <= Len(t) /\ \A i \in 1..Len(s) : t[i] = s[i]

LEMMA BeginsJoined ==
  ASSUME NEW S, NEW s \in Seq(S), NEW t \in Seq(S), NEW u \in Seq(S), Begins(s, t)
  PROVE  Begins(s, t \o u)
<1>1. /\ Len(s) \in Nat /\ Len(t) \in Nat /\ Len(u) \in Nat /\ Len(t \o u) = Len(t) + Len(u)
      /\ \A i \in 1..Len(t) : (t \o u)[i] = t[i]
  BY SeqJoined
<1>2. 1..Len(s) \subseteq 1..Len(t) /\ Len(s) <= Len(t) + Len(u)
  BY <1>1 DEF Begins
<1> QED BY <1>1, <1>2 DEF Begins

\* The encoded parts so far are pieces of a body,
LEMMA EncodedTypes ==
  ASSUME NEW f \in Seq(FormParts)
  PROVE  \A n \in 0..Len(f) : Encoded(f)[n] \in Seq(BodyPieces)
<1> DEFINE S == {n \in 0..Len(f) : Encoded(f)[n] \in Seq(BodyPieces)}
<1>1. Len(f) \in Nat /\ \A n \in 1..Len(f) : f[n] \in FormParts
  <2> HIDE DEF FormParts
  <2> QED OBVIOUS
<1>2. 0 \in S
  <2>1. <<>> \in Seq(BodyPieces)
    OBVIOUS
  <2>2. Encoded(f)[0] = <<>>
    BY <1>1, EncodedLevels
  <2>3. 0 \in 0..Len(f)
    BY <1>1
  <2> QED BY <2>1, <2>2, <2>3
<1>3. ASSUME NEW n \in 1..Len(f), n - 1 \in S PROVE n \in S
  <2>1. EncodePart(f[n]) \in Seq(BodyPieces)
    BY <1>1, PartEncoded DEF IsEncoded
  <2>2. Encoded(f)[n - 1] \in Seq(BodyPieces)
    BY <1>3
  <2>3. Encoded(f)[n - 1] \o EncodePart(f[n]) \in Seq(BodyPieces)
    BY <2>1, <2>2, SeqJoined
  <2>4. n \in 0..Len(f)
    BY <1>1
  <2> QED BY <1>1, <2>3, <2>4, EncodedLevels
<1> HIDE DEF S
<1>4. \A n \in 0..Len(f) : n \in S
  BY <1>1, <1>2, <1>3, Upward
<1> QED BY <1>4 DEF S

\* each begins with those before it,
LEMMA EncodedBegins ==
  ASSUME NEW f \in Seq(FormParts)
  PROVE  \A n \in 0..Len(f) : \A k \in 0..n : Begins(Encoded(f)[k], Encoded(f)[n])
<1> DEFINE E(n) == Encoded(f)[n]
           S == {n \in 0..Len(f) : \A k \in 0..n : Begins(E(k), E(n))}
<1>1. Len(f) \in Nat /\ \A n \in 1..Len(f) : f[n] \in FormParts
  <2> HIDE DEF FormParts
  <2> QED OBVIOUS
<1>2. \A n \in 0..Len(f) : E(n) \in Seq(BodyPieces) /\ Begins(E(n), E(n))
  <2>1. \A n \in 0..Len(f) : E(n) \in Seq(BodyPieces)
    BY EncodedTypes
  <2> HIDE DEF E
  <2> QED BY <2>1 DEF Begins
<1>3. \A n \in 1..Len(f) : E(n) = E(n - 1) \o EncodePart(f[n]) /\ EncodePart(f[n]) \in Seq(BodyPieces)
  <2>1. \A n \in 1..Len(f) : EncodePart(f[n]) \in Seq(BodyPieces)
    BY <1>1, PartEncoded DEF IsEncoded
  <2> QED BY <1>1, <2>1, EncodedLevels
<1> HIDE DEF E
<1>4. 0 \in S
  <2>1. 0 \in 0..Len(f) /\ \A k \in 0..0 : k = 0
    BY <1>1
  <2> QED BY <1>2, <2>1
<1>5. ASSUME NEW n \in 1..Len(f), n - 1 \in S PROVE n \in S
  <2>1. n \in 0..Len(f) /\ n - 1 \in 0..Len(f)
    BY <1>1
  <2>2. ASSUME NEW k \in 0..n PROVE Begins(E(k), E(n))
    <3>1. CASE k = n
      BY <1>2, <2>1, <3>1
    <3>2. CASE k # n
      <4>1. k \in 0..n-1 /\ k \in 0..Len(f)
        BY <1>1, <3>2
      <4>2. Begins(E(k), E(n - 1))
        BY <1>5, <4>1
      <4>3. E(k) \in Seq(BodyPieces) /\ E(n - 1) \in Seq(BodyPieces) /\ EncodePart(f[n]) \in Seq(BodyPieces)
        BY <1>2, <1>3, <2>1, <4>1
      <4>4. Begins(E(k), E(n - 1) \o EncodePart(f[n]))
        BY <4>2, <4>3, BeginsJoined
      <4> QED BY <1>3, <4>4
    <3> QED BY <3>1, <3>2
  <2> QED BY <2>1, <2>2
<1> HIDE DEF S
<1>6. \A n \in 0..Len(f) : n \in S
  BY <1>1, <1>4, <1>5, Upward
<1> QED BY <1>6 DEF S, E

\* The body of a form: where the separators of its parts are (after at[0], at[1],
\* ... pieces), what follows them, and the closing separator.
IsPart(b, p, from, to) ==
  \E e : IsEncoded(e, p) /\ to = from + Len(e) /\ \A i \in 1..Len(e) : b[from + i] = e[i]
IsBody(b, f, at, N) ==
  /\ N \in Nat /\ N = Len(f) /\ at \in [0..N -> Nat] /\ at[0] = 0
  /\ b \in Seq(BodyPieces) /\ Len(b) = at[N] + 3
  /\ b[at[N] + 1] = Sep /\ b[at[N] + 2] = Dashes /\ b[at[N] + 3] = Crlf
  /\ \A n \in 1..N : at[n] <= at[N] /\ IsPart(b, f[n], at[n - 1], at[n])

LEMMA FormBody ==
  ASSUME NEW f \in Seq(FormParts)
  PROVE  \E u : IsBody(EncodeForm(f), f, u, Len(f))
<1> DEFINE N == Len(f)
           E(n) == Encoded(f)[n]
           at == [n \in 0..N |-> Len(E(n))]
           tail == <<Sep, Dashes, Crlf>>
           b == EncodeForm(f)
<1>1. N \in Nat /\ \A n \in 1..N : f[n] \in FormParts
  <2> HIDE DEF FormParts
  <2> QED OBVIOUS
<1>2. \A n \in 0..N : E(n) \in Seq(BodyPieces)
  BY EncodedTypes
<1>3. \A n \in 0..N : \A k \in 0..n : Begins(E(k), E(n))
  BY EncodedBegins
<1>4. E(0) = <<>> /\ \A n \in 1..N : E(n) = E(n - 1) \o EncodePart(f[n])
  BY <1>1, EncodedLevels
<1>5. tail \in Seq(BodyPieces) /\ Len(tail) = 3 /\ tail[1] = Sep /\ tail[2] = Dashes /\ tail[3] = Crlf
  BY DEF BodyPieces
<1>6. b = E(N) \o tail
  BY DEF EncodeForm
<1> HIDE DEF E, tail, b, N
<1>7. N \in 0..N /\ 0 \in 0..N /\ \A n \in 1..N : n \in 0..N /\ n - 1 \in 0..N /\ n - 1 \in 0..n /\ n \in 0..N
  BY <1>1
<1>8. /\ b \in Seq(BodyPieces) /\ Len(b) = Len(E(N)) + 3
      /\ \A i \in 1..Len(E(N)) : b[i] = E(N)[i]
      /\ \A i \in 1..3 : b[Len(E(N)) + i] = tail[i]
  <2>1. E(N) \in Seq(BodyPieces) /\ tail \in Seq(BodyPieces)
    BY <1>2, <1>5, <1>7
  <2>2. /\ b \in Seq(BodyPieces) /\ Len(b) = Len(E(N)) + Len(tail)
        /\ \A i \in 1..Len(E(N)) : b[i] = E(N)[i]
        /\ \A i \in 1..Len(tail) : b[Len(E(N)) + i] = tail[i]
    BY <1>6, <2>1, SeqJoined
  <2> QED BY <1>5, <2>2
<1>9. \A n \in 0..N : Len(E(n)) \in Nat /\ at[n] = Len(E(n))
  BY <1>2
<1>10. at \in [0..N -> Nat]
  BY <1>9
<1> HIDE DEF at
<1>11. at[0] = 0
  <2>1. Len(<<>>) = 0
    OBVIOUS
  <2> QED BY <1>4, <1>7, <1>9, <2>1
<1>12. ASSUME NEW n \in 1..N PROVE at[n] <= at[N] /\ IsPart(b, f[n], at[n - 1], at[n])
  <2> DEFINE e == EncodePart(f[n])
  <2>1. IsEncoded(e, f[n])
    BY <1>1, PartEncoded
  <2>2. e \in Seq(BodyPieces) /\ E(n - 1) \in Seq(BodyPieces) /\ E(n) = E(n - 1) \o e
    BY <1>2, <1>4, <1>7, <2>1 DEF IsEncoded
  <2> HIDE DEF e
  <2>3. /\ Len(E(n)) = Len(E(n - 1)) + Len(e) /\ Len(e) \in Nat
        /\ \A i \in 1..Len(e) : E(n)[Len(E(n - 1)) + i] = e[i]
    BY <2>2, SeqJoined
  <2>4. n \in 0..N /\ N \in 0..N /\ n \in 0..N /\ n - 1 \in 0..N
    BY <1>7
  <2>5. Begins(E(n), E(N))
    BY <1>3, <2>4
  <2>6. at[n] <= at[N]
    BY <1>9, <2>4, <2>5 DEF Begins
  <2>7. at[n] = at[n - 1] + Len(e)
    BY <1>9, <2>3, <2>4
  <2>8. ASSUME NEW i \in 1..Len(e) PROVE b[at[n - 1] + i] = e[i]
    <3> DEFINE j == at[n - 1] + i
    <3>1. at[n - 1] \in Nat /\ at[n] \in Nat /\ at[N] \in Nat
      BY <1>9, <2>4
    <3>2. j \in 1..at[n] /\ j \in 1..at[N]
      BY <2>3, <2>6, <2>7, <3>1
    <3> HIDE DEF j
    <3>3. b[j] = E(N)[j]
      BY <1>8, <1>9, <2>4, <3>2
    <3>4. E(N)[j] = E(n)[j]
      BY <1>9, <2>4, <2>5, <3>2 DEF Begins
    <3>5. E(n)[j] = e[i]
      BY <1>9, <2>3, <2>4 DEF j
    <3> QED BY <3>3, <3>4, <3>5 DEF j
  <2> QED BY <2>1, <2>6, <2>7, <2>8 DEF IsPart
<1>13. b[at[N] + 1] = Sep /\ b[at[N] + 2] = Dashes /\ b[at[N] + 3] = Crlf
  <2>1. at[N] = Len(E(N))
    BY <1>7, <1>9
  <2> QED BY <1>5, <1>8, <2>1
<1>14. Len(b) = at[N] + 3
  BY <1>7, <1>8, <1>9
<1>15. IsBody(b, f, at, N)
  <2>1. N = Len(f)
    BY DEF N
  <2> QED BY <1>1, <1>8, <1>10, <1>11, <1>12, <1>13, <1>14, <2>1 DEF IsBody
<1>16. \E u : IsBody(b, f, u, N)
  BY <1>15
<1> QED BY <1>16 DEF b, N

\* An encoded part begins with its separator.
LEMMA EncodedLength ==
  ASSUME NEW e, NEW p, IsEncoded(e, p)
  PROVE  Len(e) \in Nat /\ Len(e) >= 2 /\ 1 \in 1..Len(e) /\ e[1] = Sep
<1>1. Len(p.content) \in Nat /\ Len(e) = Heading(p) + Len(p.content) + 1 /\ e[1] = Sep
  BY DEF IsEncoded
<1>2. Heading(p) \in {5, 7}
  BY DEF Heading
<1> QED BY <1>1, <1>2

\* Before every part, and after the last one, there is a separator.
LEMMA SeparatorAt ==
  ASSUME NEW b, NEW f, NEW at, NEW N, IsBody(b, f, at, N), NEW n \in 0..N
  PROVE  b[at[n] + 1] = Sep /\ at[n] \in Nat /\ at[n] <= at[N]
<1>1. N \in Nat /\ at \in [0..N -> Nat]
  BY DEF IsBody
<1>2. CASE n = N
  BY <1>1, <1>2 DEF IsBody
<1>3. CASE n # N
  <2>1. n + 1 \in 1..N /\ (n + 1) - 1 = n
    BY <1>1, <1>3
  <2>2. IsPart(b, f[n + 1], at[n], at[n + 1])
    BY <2>1 DEF IsBody
  <2>3. PICK e : IsEncoded(e, f[n + 1]) /\ \A i \in 1..Len(e) : b[at[n] + i] = e[i]
    BY <2>2 DEF IsPart
  <2>4. e[1] = Sep /\ 1 \in 1..Len(e)
    BY <2>3, EncodedLength
  <2>5. CASE n = 0
    BY <1>1, <2>3, <2>4, <2>5 DEF IsBody
  <2>6. CASE n # 0
    <3>1. n \in 1..N
      BY <1>1, <2>6
    <3> QED BY <1>1, <2>3, <2>4, <3>1 DEF IsBody
  <2> QED BY <2>5, <2>6
<1> QED BY <1>2, <1>3

\* Where no segment ends nothing is read.
LEMMA Quiet ==
  ASSUME NEW b, Len(b) \in Nat, NEW lo \in 0..Len(b)+1, NEW hi \in lo..Len(b)+1,
         \A i \in lo+1..hi : ~EndsSegment(b, i)
  PROVE  ReadSoFar(b)[hi] = ReadSoFar(b)[lo]
<1> DEFINE R(i) == ReadSoFar(b)[i]
           K == hi - lo
           S == {k \in 0..K : R(lo + k) = R(lo)}
<1>1. \A i \in 1..Len(b)+1 : R(i) = ReadOn(b, R(i - 1), i)
  BY ReadSoFarLevels
<1> HIDE DEF R
<1>2. K \in Nat /\ lo + K = hi /\ lo + 0 = lo
  OBVIOUS
<1>3. 0 \in S
  BY <1>2
<1>4. ASSUME NEW k \in 1..K, k - 1 \in S PROVE k \in S
  <2> DEFINE i == lo + k
  <2>1. i \in lo+1..hi /\ i \in 1..Len(b)+1 /\ i - 1 = lo + (k - 1) /\ k \in 0..K
    BY <1>2
  <2> HIDE DEF i
  <2>2. R(i) = R(i - 1)
    BY <1>1, <2>1 DEF ReadOn
  <2>3. R(lo + (k - 1)) = R(lo)
    BY <1>4
  <2> QED BY <2>1, <2>2, <2>3 DEF i
<1> HIDE DEF S, K
<1>5. \A k \in 0..K : k \in S
  BY <1>2, <1>3, <1>4, Upward
<1>6. K \in S
  BY <1>2, <1>5
<1> QED BY <1>2, <1>6 DEF S, R

\* From one separator to where the next one is, or the end.
LEMMA Between ==
  ASSUME NEW b, Len(b) \in Nat, NEW from \in Nat, NEW to \in Nat, from + 1 <= to, to <= Len(b),
         b[from + 1] = Sep, \A j \in from+2..to : b[j] # Sep, to = Len(b) \/ b[to + 1] = Sep
  PROVE  /\ ReadSoFar(b)[to] = ReadSoFar(b)[from + 1]
         /\ ReadSoFar(b)[to + 1] = Step(ReadSoFar(b)[to], SubSeq(b, from + 2, to))
<1>1. ReadSoFar(b)[to] = ReadSoFar(b)[from + 1]
  <2>1. from + 1 \in 0..Len(b)+1 /\ to \in from+1..Len(b)+1
    OBVIOUS
  <2>2. ASSUME NEW i \in from+1+1..to PROVE ~EndsSegment(b, i)
    <3>1. i \in from+2..to /\ ~(i > Len(b))
      OBVIOUS
    <3> QED BY <3>1 DEF EndsSegment
  <2> QED BY <2>1, <2>2, Quiet
<1> DEFINE S == Separators(b, to + 1)
           k == CHOOSE j \in S : \A l \in S : l <= j
<1>2. from + 1 \in S /\ \A j \in S : j \in Nat /\ j <= from + 1
  <2>1. from + 1 \in S
    BY DEF Separators
  <2>2. ASSUME NEW j \in S PROVE j \in Nat /\ j <= from + 1
    <3>1. j \in Nat /\ 1 <= j /\ j <= to /\ b[j] = Sep
      BY DEF Separators
    <3>2. ~(from + 2 <= j)
      BY <3>1
    <3> QED BY <3>1, <3>2
  <2> QED BY <2>1, <2>2
<1>3. EndsSegment(b, to + 1)
  <2>1. S # {}
    BY <1>2
  <2>2. to + 1 > Len(b) \/ b[to + 1] = Sep
    OBVIOUS
  <2> QED BY <2>1, <2>2 DEF EndsSegment
<1>4. Segment(b, to + 1) = SubSeq(b, from + 2, to)
  <2> HIDE DEF S
  <2>1. k \in S /\ \A l \in S : l <= k
    BY <1>2
  <2>2. Segment(b, to + 1) = SubSeq(b, k + 1, (to + 1) - 1)
    BY DEF Segment, S
  <2> HIDE DEF k
  <2>3. k \in Nat /\ k <= from + 1 /\ from + 1 <= k
    BY <1>2, <2>1
  <2>4. k + 1 = from + 2 /\ (to + 1) - 1 = to
    BY <2>3
  <2> QED BY <2>2, <2>4
<1>5. to + 1 \in 1..Len(b)+1 /\ (to + 1) - 1 = to
  OBVIOUS
<1>6. ReadSoFar(b)[to + 1] = ReadOn(b, ReadSoFar(b)[to], to + 1)
  BY <1>5, ReadSoFarLevels
<1> QED BY <1>1, <1>3, <1>4, <1>6 DEF ReadOn

\* The first n parts of a form, and the next one.
LEMMA Prefix ==
  ASSUME NEW f \in Seq(FormParts), NEW n \in 1..Len(f)
  PROVE  /\ SubSeq(f, 1, n - 1) \in Seq(FormParts) /\ f[n] \in FormParts
         /\ SubSeq(f, 1, n) = Append(SubSeq(f, 1, n - 1), f[n])
<1> HIDE DEF FormParts
<1> QED OBVIOUS

\* When the separator after n parts comes, the first n parts have been read.
LEMMA PartsRead ==
  ASSUME NEW f \in Seq(FormParts), NEW b, NEW at, NEW N, IsBody(b, f, at, N), NEW n \in 1..N,
         Says(ReadSoFar(b)[at[n - 1] + 1], SubSeq(f, 1, n - 1))
  PROVE  Says(ReadSoFar(b)[at[n] + 1], SubSeq(f, 1, n))
<1> DEFINE from == at[n - 1]
           to == at[n]
           seg == SubSeq(b, from + 2, to)
<1>1. N \in Nat /\ N = Len(f) /\ n \in 0..N /\ n - 1 \in 0..N
  BY DEF IsBody
<1>2. b \in Seq(BodyPieces) /\ Len(b) \in Nat /\ Len(b) = at[N] + 3 /\ at[N] \in Nat
  <2>1. N \in 0..N
    BY <1>1
  <2> QED BY <2>1 DEF IsBody
<1>3. b[from + 1] = Sep /\ from \in Nat /\ b[to + 1] = Sep /\ to \in Nat /\ to <= at[N]
  BY <1>1, SeparatorAt
<1>4. PICK e : IsEncoded(e, f[n]) /\ to = from + Len(e) /\ \A i \in 1..Len(e) : b[from + i] = e[i]
  BY DEF IsBody, IsPart
<1>5. Len(e) \in Nat /\ Len(e) >= 2 /\ \A i \in 2..Len(e) : e[i] # Sep
  <2>1. Len(e) \in Nat /\ Len(e) >= 2
    BY <1>4, EncodedLength
  <2> QED BY <1>4, <2>1 DEF IsEncoded
<1> HIDE DEF from, to
<1>6. from + 1 <= to /\ to <= Len(b)
  <2> DEFINE k == Len(e)
             l == Len(b)
             final == at[N]
  <2>1. k \in Nat /\ k >= 2 /\ to = from + k
    BY <1>4, <1>5
  <2>2. from \in Nat /\ to \in Nat /\ final \in Nat /\ l = final + 3 /\ to <= final
    BY <1>2, <1>3
  <2> HIDE DEF k, l, final
  <2>3. from + 1 <= to /\ to <= l
    BY <2>1, <2>2
  <2> QED BY <2>3 DEF l
<1>7. ASSUME NEW j \in from+2..to PROVE b[j] # Sep
  <2>1. j - from \in 2..Len(e) /\ j - from \in 1..Len(e) /\ j = from + (j - from)
    BY <1>3, <1>4, <1>5
  <2>2. b[from + (j - from)] = e[j - from]
    BY <1>4, <2>1
  <2> QED BY <1>5, <2>1, <2>2
<1>8. /\ ReadSoFar(b)[to] = ReadSoFar(b)[from + 1]
      /\ ReadSoFar(b)[to + 1] = Step(ReadSoFar(b)[to], seg)
  BY <1>2, <1>3, <1>6, <1>7, Between
<1>9. IsSegment(seg, f[n])
  <2>1. from + 2 \in 1..Len(b)+1 /\ to \in (from+2)-1..Len(b) /\ to - (from + 2) + 1 = Len(e) - 1
    <3>1. to = from + Len(e)
      BY <1>4
    <3> DEFINE k == Len(e)
               l == Len(b)
    <3>2. k \in Nat /\ k >= 2 /\ l \in Nat /\ from \in Nat /\ to \in Nat /\ to = from + k /\ to <= l
      BY <1>2, <1>3, <1>5, <1>6, <3>1
    <3> HIDE DEF k, l
    <3>3. from + 2 \in 1..l+1 /\ to \in (from+2)-1..l /\ to - (from + 2) + 1 = k - 1
      BY <3>2
    <3> QED BY <3>3 DEF k, l
  <2> DEFINE lo == from + 2
  <2> HIDE DEF lo
  <2>2. /\ SubSeq(b, lo, to) \in Seq(BodyPieces) /\ Len(SubSeq(b, lo, to)) = to - lo + 1
        /\ \A i \in 1..to-lo+1 : SubSeq(b, lo, to)[i] = b[lo - 1 + i]
    <3>1. lo \in 1..Len(b)+1 /\ to \in lo-1..Len(b)
      BY <2>1 DEF lo
    <3> QED BY <1>2, <3>1, SeqCut
  <2>3. seg \in Seq(BodyPieces) /\ Len(seg) = Len(e) - 1 /\ \A i \in 1..Len(e)-1 : seg[i] = b[(from + 2) - 1 + i]
    BY <2>1, <2>2 DEF lo
  <2> HIDE DEF seg
  <2>4. ASSUME NEW i \in 1..Len(seg) PROVE seg[i] = e[1 + i]
    <3>1. i \in 1..Len(e)-1 /\ 1 + i \in 1..Len(e) /\ (from + 2) - 1 + i = from + (1 + i)
      BY <1>3, <1>5, <2>3
    <3>2. seg[i] = b[from + (1 + i)]
      BY <2>3, <3>1
    <3> QED BY <1>4, <3>1, <3>2
  <2> QED BY <1>4, <2>3, <2>4 DEF IsSegment
<1>10. Says(ReadSoFar(b)[to], SubSeq(f, 1, n - 1))
  BY <1>8 DEF from
<1>11. /\ SubSeq(f, 1, n - 1) \in Seq(FormParts) /\ f[n] \in FormParts
       /\ SubSeq(f, 1, n) = Append(SubSeq(f, 1, n - 1), f[n])
  BY <1>1, Prefix
<1>12. Says(Step(ReadSoFar(b)[to], seg), Append(SubSeq(f, 1, n - 1), f[n]))
  BY <1>9, <1>10, <1>11, StepSays
<1> QED BY <1>8, <1>11, <1>12 DEF to

\* Before the first separator nothing has been said.
LEMMA NothingRead ==
  ASSUME NEW f \in Seq(FormParts), NEW b, NEW at, NEW N, IsBody(b, f, at, N)
  PROVE  Says(ReadSoFar(b)[at[0] + 1], SubSeq(f, 1, 0))
<1>1. N \in Nat /\ 0 \in 0..N /\ at[0] = 0 /\ b \in Seq(BodyPieces) /\ Len(b) \in Nat
  BY DEF IsBody
<1>2. b[1] = Sep
  BY <1>1, SeparatorAt
<1>3. 1 <= Len(b)
  <2>1. Len(b) = at[N] + 3 /\ at[N] \in Nat
    BY <1>1 DEF IsBody
  <2> QED BY <2>1
<1>4. ReadSoFar(b)[1] = ReadSoFar(b)[0]
  <2>1. 0 \in 0..Len(b)+1 /\ 1 \in 0..Len(b)+1
    BY <1>1
  <2>2. ASSUME NEW i \in 0+1..1 PROVE ~EndsSegment(b, i)
    <3>1. i = 1
      OBVIOUS
    <3>2. Separators(b, 1) = {}
      BY DEF Separators
    <3> QED BY <3>1, <3>2 DEF EndsSegment
  <2> QED BY <1>1, <2>1, <2>2, Quiet
<1>5. ReadSoFar(b)[0] = Saying(0, 0, NoneYet, NoneYet)
  <2>1. 1 \in Separators(b, Len(b) + 1)
    BY <1>1, <1>2, <1>3 DEF Separators
  <2> QED BY <1>1, <2>1, ReadSoFarLevels DEF Start, Saying
<1>6. SubSeq(f, 1, 0) = <<>>
  <2> HIDE DEF FormParts
  <2> QED OBVIOUS
<1>7. /\ DOMAIN <<>> = {} /\ Len(<<>>) = 0 /\ FilesOf(<<>>) = {} /\ FieldsOf(<<>>) = {}
  BY DEF FilesOf, FieldsOf
<1>8. Cardinality(FilesOf(<<>>)) = 0
  BY <1>7, FS_EmptySet
<1>9. NamesOf(<<>>, {}) = {}
  BY DEF NamesOf
<1>10. FieldsRead(<<>>) = NoneYet /\ FilesSaid(<<>>) = NoneYet
  BY <1>7, <1>9 DEF FieldsRead, FilesSaid, NoneYet
<1>11. Acceptable(<<>>)
  BY <1>7, <1>8, MultipartAssumption DEF Acceptable
<1>12. Says(Saying(0, 0, NoneYet, NoneYet), <<>>)
  BY <1>7, <1>8, <1>10, <1>11 DEF Says
<1>13. ReadSoFar(b)[at[0] + 1] = Saying(0, 0, NoneYet, NoneYet)
  BY <1>1, <1>4, <1>5
<1> QED BY <1>6, <1>12, <1>13

\* A sequence of two has a head.
LEMMA FirstOf ==
  ASSUME NEW S, NEW s \in Seq(S), Len(s) = 2
  PROVE  s # <<>> /\ Head(s) = s[1]
<1>1. Len(<<>>) = 0
  OBVIOUS
<1> QED BY <1>1

\* What is text is decoded to what it was.
LEMMA TextDecoded ==
  ASSUME NEW f \in Seq(FormParts), NEW name \in NamesOf(f, FieldsOf(f)), IsText(LastOf(f, name, FieldsOf(f)).content)
  PROVE  Decode(LastOf(f, name, FieldsOf(f)).content) = LastOf(f, name, FieldsOf(f)).content
<1> DEFINE own == Named(f, name, FieldsOf(f))
           last == CHOOSE i \in own : \A j \in own : j <= i
           c == LastOf(f, name, FieldsOf(f)).content
<1>1. PICK i \in FieldsOf(f) : f[i].name = name
  BY DEF NamesOf
<1>2. own # {} /\ own \subseteq 1..Len(f) /\ Len(f) \in Nat
  BY <1>1 DEF Named, FieldsOf
<1> HIDE DEF own
<1>3. last \in own
  <2>1. \E k \in own : \A j \in own : j <= k
    <3> DEFINE n == Len(f)
    <3>1. n \in Nat /\ own \in SUBSET (1..n) /\ own # {}
      BY <1>2
    <3> HIDE DEF n
    <3> QED BY <3>1, HighestOf
  <2> QED BY <2>1
<1>4. f[last] \in FormParts /\ LastOf(f, name, FieldsOf(f)) = f[last]
  BY <1>2, <1>3 DEF LastOf, own
<1> HIDE DEF last
<1>5. c \in Seq(Pieces)
  BY <1>4 DEF FormParts
<1> HIDE DEF c
<1>6. c = [k \in DOMAIN c |-> c[k]]
  BY <1>5
<1>7. IsText(c) => Decode(c) = c
  BY <1>6 DEF IsText, Decode
<1> QED BY <1>7 DEF c

\* A form is read as it was written.
LEMMA FormRead ==
  ASSUME NEW f \in Seq(FormParts)
  PROVE  RoundTrips(f)
<1> DEFINE b == EncodeForm(f)
           N == Len(f)
           R(i) == ReadSoFar(b)[i]
<1>1. PICK at : IsBody(b, f, at, N)
  BY FormBody
<1>2. N \in Nat /\ 0 \in 0..N /\ N \in 0..N
  <2>1. N \in Nat
    BY <1>1 DEF IsBody
  <2> QED BY <2>1
<1>3. f = SubSeq(f, 1, N)
  <2> HIDE DEF FormParts
  <2> QED OBVIOUS
<1> HIDE DEF b, N, R
<1>4. /\ b \in Seq(BodyPieces) /\ Len(b) = at[N] + 3 /\ b[at[N] + 1] = Sep
      /\ b[at[N] + 2] = Dashes /\ b[at[N] + 3] = Crlf /\ at[N] \in Nat /\ Len(b) \in Nat
  BY <1>1, <1>2 DEF IsBody
<1>5. Says(R(at[N] + 1), f)
  <2> DEFINE S == {n \in 0..N : Says(R(at[n] + 1), SubSeq(f, 1, n))}
  <2>1. 0 \in S
    BY <1>1, <1>2, NothingRead DEF R
  <2>2. ASSUME NEW n \in 1..N, n - 1 \in S PROVE n \in S
    <3>1. n \in 0..N
      BY <1>2
    <3>2. Says(R(at[n - 1] + 1), SubSeq(f, 1, n - 1))
      BY <2>2
    <3>3. Says(R(at[n] + 1), SubSeq(f, 1, n))
      BY <1>1, <3>2, PartsRead DEF R
    <3> QED BY <3>1, <3>3
  <2> HIDE DEF S
  <2>3. \A n \in 0..N : n \in S
    BY <1>2, <2>1, <2>2, Upward
  <2>4. Says(R(at[N] + 1), SubSeq(f, 1, N))
    BY <1>2, <2>3 DEF S
  <2> QED BY <1>3, <2>4
<1> DEFINE l == Len(b)
           final == SubSeq(b, at[N] + 2, l)
           st == R(at[N] + 1)
<1>6. R(l) = st /\ R(l + 1) = Step(R(l), final)
  <2>1. at[N] + 1 <= l /\ l <= l
    BY <1>4
  <2>2. ASSUME NEW j \in at[N]+2..l PROVE b[j] # Sep
    <3>1. j = at[N] + 2 \/ j = at[N] + 3
      BY <1>4
    <3> QED BY <1>4, <3>1, PieceTags
  <2>3. /\ ReadSoFar(b)[l] = ReadSoFar(b)[at[N] + 1]
        /\ ReadSoFar(b)[l + 1] = Step(ReadSoFar(b)[l], final)
    BY <1>4, <2>1, <2>2, Between
  <2> QED BY <2>3 DEF R
<1>7. StartsWith(final, Dashes)
  <2> DEFINE k == at[N]
             lo == k + 2
  <2>1. lo \in 1..Len(b)+1 /\ l \in lo-1..Len(b) /\ l - lo + 1 = 2 /\ lo - 1 + 1 = k + 2
    <3>1. k \in Nat /\ l = k + 3 /\ Len(b) = l
      BY <1>4
    <3> HIDE DEF k, l
    <3> QED BY <3>1
  <2> HIDE DEF k
  <2>2. /\ SubSeq(b, lo, l) \in Seq(BodyPieces) /\ Len(SubSeq(b, lo, l)) = l - lo + 1
        /\ \A i \in 1..l-lo+1 : SubSeq(b, lo, l)[i] = b[lo - 1 + i]
    <3>1. b \in Seq(BodyPieces)
      BY <1>4
    <3> HIDE DEF lo, l
    <3> QED BY <2>1, <3>1, SeqCut
  <2>3. final \in Seq(BodyPieces) /\ Len(final) = 2 /\ \A i \in 1..2 : final[i] = b[lo - 1 + i]
    <3>1. final = SubSeq(b, lo, l)
      BY DEF k
    <3> HIDE DEF final, lo, l
    <3> QED BY <2>1, <2>2, <3>1
  <2> HIDE DEF final, l
  <2>4. final[1] = Dashes
    <3>1. final[1] = b[lo - 1 + 1]
      <4> HIDE DEF lo
      <4> QED BY <2>3
    <3>2. b[k + 2] = Dashes
      BY <1>4 DEF k
    <3> HIDE DEF lo
    <3> QED BY <2>1, <3>1, <3>2
  <2>5. final # <<>> /\ Head(final) = final[1]
    <3>1. final \in Seq(BodyPieces) /\ Len(final) = 2
      BY <2>3
    <3> QED BY <3>1, FirstOf
  <2> QED BY <2>4, <2>5 DEF StartsWith
<1> DEFINE r == Parse(b)
<1> HIDE DEF final
<1>8. r = [R(l + 1) EXCEPT !.status = IF @ = 0 THEN 200 ELSE @]
  BY DEF Parse, R
<1> HIDE DEF l, st
<1>9. CASE Acceptable(f)
  <2> DEFINE c == Cardinality(FilesOf(f))
             x == FieldsRead(f)
             y == FilesSaid(f)
  <2>1. st = Saying(N, c, x, y)
    BY <1>5, <1>9 DEF Says, N, st
  <2> HIDE DEF r, c, x, y
  <2>2. R(l + 1) = [st EXCEPT !.status = 200]
    BY <1>6, <1>7, <2>1 DEF Step, Saying
  <2>3. R(l + 1) = [status |-> 200, part_count |-> N, file_count |-> c, fields |-> x, files |-> y]
    BY <2>1, <2>2 DEF Saying
  <2>4. r.status = 200 /\ r.fields = x /\ r.files = y
    BY <1>8, <2>3
  <2>5. DOMAIN x = DOMAIN FieldsSaid(f)
    BY DEF x, FieldsRead, FieldsSaid
  <2>6. ASSUME NEW name \in DOMAIN x, IsText(FieldsSaid(f)[name]) PROVE x[name] = FieldsSaid(f)[name]
    <3>1. /\ name \in NamesOf(f, FieldsOf(f)) /\ x[name] = Decode(LastOf(f, name, FieldsOf(f)).content)
          /\ FieldsSaid(f)[name] = LastOf(f, name, FieldsOf(f)).content
      BY DEF x, FieldsRead, FieldsSaid
    <3> QED BY <2>6, <3>1, TextDecoded
  <2>7. /\ Parse(EncodeForm(f)).status = 200 /\ Parse(EncodeForm(f)).fields = x
        /\ Parse(EncodeForm(f)).files = FilesSaid(f)
    BY <2>4 DEF r, b, y
  <2> QED BY <1>9, <2>5, <2>6, <2>7 DEF RoundTrips
<1>10. CASE ~Acceptable(f)
  <2>1. IsRefused(st)
    BY <1>5, <1>10 DEF Says, st
  <2> HIDE DEF r
  <2>2. R(l + 1) = st
    BY <1>6, <2>1, RefusedStatus DEF Step
  <2>3. r.status \in {413, 415}
    BY <1>8, <2>1, <2>2, RefusedStatus
  <2> QED BY <1>10, <2>3 DEF RoundTrips, r, b
<1> QED BY <1>9, <1>10

\* The form that waits is one that is sent, and is read as it was written:
\* its files piece by piece, its fields where they are text, the last part of
\* a name winning.  Or it is refused as a whole.
THEOREM UploadsRoundTrip == UploadSpec => []FormRoundTrip
<1> DEFINE Pending == form \in [pending : BOOLEAN, parts : Seq(FormParts)]
<1>1. UploadInit => Pending
  <2>1. Forms \subseteq Seq(FormParts)
    BY FormsAssumption DEF FormParts
  <2>2. UploadInit => form.pending \in BOOLEAN /\ form = [pending |-> form.pending, parts |-> form.parts] /\ form.parts \in Forms
    BY DEF UploadInit
  <2> QED BY <2>1, <2>2
<1>2. Pending /\ [UploadNext]_<<deliveryVars, form, uploads>> => Pending'
  <2> SUFFICES ASSUME Pending, [UploadNext]_<<deliveryVars, form, uploads>> PROVE Pending'
    OBVIOUS
  <2>1. form' = form \/ form' = NoForm
    BY DEF UploadNext, ReceiveForm
  <2>2. NoForm \in [pending : BOOLEAN, parts : Seq(FormParts)]
    <3>1. <<>> \in Seq(FormParts)
      OBVIOUS
    <3> QED BY <3>1 DEF NoForm
  <2> QED BY <2>1, <2>2
<1>3. Pending => FormRoundTrip
  BY FormRead DEF FormRoundTrip
<1> QED BY <1>1, <1>2, <1>3, PTL DEF UploadSpec

-----------------------------------------------------------------------------
(* RequestReader.                                                          *)

Kinds == {"length", "chunked", "invalid", "field", "blank", "line", "byte", "size"}
Tokens == Kinds \X Nat

LEMMA TokenTypes ==
  /\ Byte \in Tokens /\ Field \in Tokens /\ LineEnd \in Tokens /\ Blank \in Tokens
  /\ \A k \in Kinds, n \in Nat : Token(k, n) \in Tokens
  /\ Byte # LineEnd /\ Byte # Blank /\ Field # LineEnd /\ Field # Blank /\ LineEnd # Blank /\ Field # Byte
BY DEF Byte, Field, LineEnd, Blank, Token, Tokens, Kinds

LEMMA ManyTypes ==
  ASSUME NEW t \in Tokens, NEW n \in Nat
  PROVE  Many(t, n) \in Seq(Tokens) /\ Len(Many(t, n)) = n /\ \A i \in 1..n : Many(t, n)[i] = t
BY DEF Many

LEMMA Joins ==
  ASSUME NEW a \in Seq(Tokens), NEW b \in Seq(Tokens)
  PROVE  /\ a \o b \in Seq(Tokens) /\ Len(a \o b) = Len(a) + Len(b)
         /\ \A i \in 1..Len(a) : (a \o b)[i] = a[i]
         /\ \A i \in 1..Len(b) : (a \o b)[Len(a) + i] = b[i]
OBVIOUS

LEMMA Assoc ==
  ASSUME NEW a \in Seq(Tokens), NEW b \in Seq(Tokens), NEW c \in Seq(Tokens)
  PROVE  (a \o b) \o c = a \o (b \o c) /\ a \o b \in Seq(Tokens) /\ b \o c \in Seq(Tokens)
BY SMTT(40)

LEMMA EndingTypes ==
  ASSUME NEW r
  PROVE  /\ Ending(r) \in Seq(Tokens)
         /\ r.trailer => /\ Len(Ending(r)) = 3 /\ Ending(r)[1] = Field
                         /\ Ending(r)[2] = LineEnd /\ Ending(r)[3] = LineEnd
         /\ ~r.trailer => Len(Ending(r)) = 1 /\ Ending(r)[1] = LineEnd
<1>1. CASE r.trailer
  <2>1. Ending(r) = <<Field, LineEnd>> \o <<LineEnd>>
    BY <1>1 DEF Ending
  <2> DEFINE a == <<Field, LineEnd>>
             b == <<LineEnd>>
  <2>2. a \in Seq(Tokens) /\ b \in Seq(Tokens) /\ Len(a) = 2 /\ Len(b) = 1
        /\ a[1] = Field /\ a[2] = LineEnd /\ b[1] = LineEnd
    BY TokenTypes
  <2> HIDE DEF a, b
  <2>3. a \o b \in Seq(Tokens) /\ Len(a \o b) = 3 /\ (a \o b)[1] = Field /\ (a \o b)[2] = LineEnd
        /\ (a \o b)[3] = LineEnd
    <3>1. 1 \in 1..Len(a) /\ 2 \in 1..Len(a) /\ 1 \in 1..Len(b) /\ Len(a) + 1 = 3
      BY <2>2
    <3>2. a \o b \in Seq(Tokens) /\ Len(a \o b) = Len(a) + Len(b)
      BY <2>2, Joins
    <3>3. (a \o b)[1] = a[1] /\ (a \o b)[2] = a[2]
      BY <2>2, <3>1, Joins
    <3>4. (a \o b)[Len(a) + 1] = b[1]
      BY <2>2, <3>1, Joins
    <3>5. QED BY <2>2, <3>1, <3>2, <3>3, <3>4
  <2>4. QED BY <1>1, <2>1, <2>3 DEF a, b
<1>2. CASE ~r.trailer
  <2> DEFINE b == <<LineEnd>>
  <2>1. Ending(r) = <<>> \o b
    BY <1>2 DEF Ending
  <2>2. b \in Seq(Tokens) /\ Len(b) = 1 /\ b[1] = LineEnd
    BY TokenTypes
  <2> HIDE DEF b
  <2>3. <<>> \o b = b
    BY <2>2
  <2>4. QED BY <1>2, <2>1, <2>2, <2>3
<1>3. QED BY <1>1, <1>2

LEMMA ChunkTypes ==
  ASSUME NEW n \in Nat
  PROVE  Chunk(n) \in Seq(Tokens) /\ Chunk(n) = <<Token("size", n), LineEnd>> \o (Many(Byte, n) \o <<LineEnd>>)
<1>1. Token("size", n) \in Tokens
  BY TokenTypes DEF Kinds
<1>2. Many(Byte, n) \in Seq(Tokens) /\ <<LineEnd>> \in Seq(Tokens) /\ <<Token("size", n), LineEnd>> \in Seq(Tokens)
  BY <1>1, TokenTypes, ManyTypes
<1> DEFINE a == <<Token("size", n), LineEnd>>
           b == Many(Byte, n)
           c == <<LineEnd>>
<1> HIDE DEF a, b, c
<1>3. a \in Seq(Tokens) /\ b \in Seq(Tokens) /\ c \in Seq(Tokens)
  BY <1>2 DEF a, b, c
<1>4. (a \o b) \o c \in Seq(Tokens) /\ (a \o b) \o c = a \o (b \o c)
  BY <1>3
<1>5. QED BY <1>4 DEF Chunk, a, b, c

(* The recursive definitions of the module are what they say.              *)
LEMMA SumEquation ==
  ASSUME NEW s \in Seq(Nat)
  PROVE  /\ SumFrom(s) \in [1..Len(s)+1 -> Nat]
         /\ SumFrom(s)[Len(s) + 1] = 0
         /\ \A i \in 1..Len(s) : SumFrom(s)[i] = s[i] + SumFrom(s)[i + 1]
<1> DEFINE n == Len(s)
           F == [i \in 1..n |-> [x \in Nat |-> s[i] + x]]
           Is(f) == f = [i \in 1..n+1 |-> IF i = n + 1 THEN 0 ELSE s[i] + f[i + 1]]
<1>1. n \in Nat /\ \A i \in 1..n : s[i] \in Nat
  OBVIOUS
<1>2. F \in Steps(n, Nat)
  BY <1>1 DEF Steps
<1>3. PICK f \in [1..n+1 -> Nat] : f[n+1] = 0 /\ \A i \in 1..n : f[i] = F[i][f[i+1]]
  <2>1. 0 \in Nat
    OBVIOUS
  <2> HIDE DEF F, n
  <2>2. Defined(n, Nat, 0, F)
    BY <1>1, <1>2, <2>1, BackwardFunction
  <2>3. QED BY <2>2 DEF Defined
<1>4. \A i \in 1..n : f[i] = s[i] + f[i+1]
  <2> SUFFICES ASSUME NEW i \in 1..n PROVE f[i] = s[i] + f[i+1]
    OBVIOUS
  <2>1. f[i+1] \in Nat /\ f[i] = F[i][f[i+1]]
    <3> HIDE DEF F, n
    <3>1. QED BY <1>1, <1>3
  <2>2. QED BY <2>1
<1>5. Is(f)
  <2>1. \A i \in 1..n+1 : f[i] = IF i = n + 1 THEN 0 ELSE s[i] + f[i + 1]
    BY <1>1, <1>3, <1>4
  <2> HIDE DEF F
  <2>2. QED BY <1>3, <2>1
<1>6. Is(SumFrom(s))
  <2>1. \E g : Is(g)
    BY <1>5
  <2>2. QED BY <2>1 DEF SumFrom
<1> DEFINE t == SumFrom(s)
<1>7. t = [i \in 1..n+1 |-> IF i = n + 1 THEN 0 ELSE s[i] + t[i + 1]]
  BY <1>6
<1> HIDE DEF t
<1>8. t[n+1] = 0 /\ \A i \in 1..n : t[i] = s[i] + t[i+1]
  BY SMTT(30), <1>1, <1>7
<1> DEFINE S == {i \in 1..n+1 : t[i] \in Nat}
<1>9. 1..n+1 \subseteq S
  <2>1. n + 1 \in S
    BY <1>1, <1>8
  <2>2. ASSUME NEW i \in 1..n, i + 1 \in S PROVE i \in S
    <3>1. i \in 1..n+1 /\ t[i + 1] \in Nat
      BY <1>1, <2>2
    <3>2. t[i] = s[i] + t[i + 1] /\ s[i] \in Nat
      BY <1>1, <1>8
    <3>3. QED BY <3>1, <3>2
  <2> HIDE DEF S, n
  <2>3. QED BY <1>1, <2>1, <2>2, Downward
<1>10. t \in [1..n+1 -> Nat]
  BY <1>7, <1>9
<1>11. QED BY <1>8, <1>10 DEF t

LEMMA ChunksEquation ==
  ASSUME NEW r, r.sizes \in Seq(Nat)
  PROVE  /\ \A i \in 1..Len(r.sizes)+1 : ChunksFrom(r)[i] \in Seq(Tokens)
         /\ ChunksFrom(r)[Len(r.sizes) + 1] = <<Token("size", 0), LineEnd>> \o Ending(r)
         /\ \A i \in 1..Len(r.sizes) : ChunksFrom(r)[i] = Chunk(r.sizes[i]) \o ChunksFrom(r)[i + 1]
<1> DEFINE s == r.sizes
           n == Len(s)
           base == <<Token("size", 0), LineEnd>> \o Ending(r)
           F == [i \in 1..n |-> [x \in Seq(Tokens) |-> Chunk(s[i]) \o x]]
           Is(f) == f = [i \in 1..n+1 |-> IF i = n + 1 THEN base ELSE Chunk(s[i]) \o f[i + 1]]
<1>1. n \in Nat /\ \A i \in 1..n : s[i] \in Nat
  OBVIOUS
<1>2. \A i \in 1..n : Chunk(s[i]) \in Seq(Tokens)
  BY <1>1, ChunkTypes
<1>3. base \in Seq(Tokens)
  <2>1. <<Token("size", 0), LineEnd>> \in Seq(Tokens)
    BY TokenTypes DEF Kinds
  <2>2. QED BY <2>1, EndingTypes
<1>4. F \in Steps(n, Seq(Tokens))
  <2>1. ASSUME NEW i \in 1..n, NEW x \in Seq(Tokens) PROVE Chunk(s[i]) \o x \in Seq(Tokens)
    <3> DEFINE c == Chunk(s[i])
    <3>1. c \in Seq(Tokens)
      BY <1>2
    <3> HIDE DEF c
    <3>2. c \o x \in Seq(Tokens)
      BY <3>1
    <3>3. QED BY <3>2 DEF c
  <2>2. \A i \in 1..n : [x \in Seq(Tokens) |-> Chunk(s[i]) \o x] \in [Seq(Tokens) -> Seq(Tokens)]
    BY <2>1
  <2>3. QED BY <2>2 DEF Steps
<1>5. PICK f \in [1..n+1 -> Seq(Tokens)] : f[n+1] = base /\ \A i \in 1..n : f[i] = F[i][f[i+1]]
  <2> HIDE DEF F, n, base
  <2>1. Defined(n, Seq(Tokens), base, F)
    BY <1>1, <1>3, <1>4, BackwardFunction
  <2>2. QED BY <2>1 DEF Defined
<1>6. \A i \in 1..n : f[i] = Chunk(s[i]) \o f[i+1]
  <2> SUFFICES ASSUME NEW i \in 1..n PROVE f[i] = Chunk(s[i]) \o f[i+1]
    OBVIOUS
  <2>1. f[i+1] \in Seq(Tokens) /\ f[i] = F[i][f[i+1]]
    <3> HIDE DEF F, n
    <3>1. QED BY <1>1, <1>5
  <2>2. F[i] = [x \in Seq(Tokens) |-> Chunk(s[i]) \o x]
    OBVIOUS
  <2> HIDE DEF F
  <2>3. QED BY <2>1, <2>2
<1>7. Is(f)
  <2>1. \A i \in 1..n+1 : f[i] = IF i = n + 1 THEN base ELSE Chunk(s[i]) \o f[i + 1]
    <3> SUFFICES ASSUME NEW i \in 1..n+1
                 PROVE  f[i] = IF i = n + 1 THEN base ELSE Chunk(s[i]) \o f[i + 1]
      OBVIOUS
    <3> HIDE DEF base, F, n, s
    <3>1. CASE i = n + 1
      BY <1>5, <3>1
    <3>2. CASE i # n + 1
      <4>1. i \in 1..n
        BY <1>1, <3>2
      <4>2. QED BY <1>6, <3>2, <4>1
    <3>3. QED BY <3>1, <3>2
  <2> HIDE DEF F, base
  <2>2. QED BY <1>5, <2>1
<1>8. Is(ChunksFrom(r))
  <2>1. \E g : Is(g)
    BY <1>7
  <2>2. QED BY <2>1 DEF ChunksFrom
<1> DEFINE t == ChunksFrom(r)
<1> HIDE DEF base
<1>9. t = [i \in 1..n+1 |-> IF i = n + 1 THEN base ELSE Chunk(s[i]) \o t[i + 1]]
  BY <1>8
<1> HIDE DEF t
<1>10. t[n+1] = base /\ \A i \in 1..n : t[i] = Chunk(s[i]) \o t[i+1]
  <2> HIDE DEF n, s
  <2>1. n + 1 \in 1..n+1 /\ \A i \in 1..n : i \in 1..n+1 /\ i # n + 1
    BY <1>1
  <2>2. \A i \in 1..n+1 : t[i] = IF i = n + 1 THEN base ELSE Chunk(s[i]) \o t[i + 1]
    BY <1>9
  <2>3. QED BY <2>1, <2>2
<1> DEFINE S == {i \in 1..n+1 : t[i] \in Seq(Tokens)}
<1>11. 1..n+1 \subseteq S
  <2>1. n + 1 \in S
    <3> HIDE DEF n, s
    <3>1. n + 1 \in 1..n+1
      BY <1>1
    <3>2. QED BY <1>3, <1>10, <3>1
  <2>2. ASSUME NEW i \in 1..n, i + 1 \in S PROVE i \in S
    <3>1. i \in 1..n+1 /\ Chunk(s[i]) \in Seq(Tokens) /\ t[i+1] \in Seq(Tokens) /\ t[i] = Chunk(s[i]) \o t[i+1]
      <4>1. t[i+1] \in Seq(Tokens)
        BY <2>2
      <4> HIDE DEF n, s
      <4>2. i \in 1..n+1
        BY <1>1
      <4>3. QED BY <1>2, <1>10, <4>1, <4>2
    <3>2. Chunk(s[i]) \o t[i+1] \in Seq(Tokens)
      <4> DEFINE a == Chunk(s[i])
                 b == t[i+1]
      <4>1. a \in Seq(Tokens) /\ b \in Seq(Tokens)
        BY <3>1
      <4> HIDE DEF a, b
      <4>2. a \o b \in Seq(Tokens)
        BY <4>1
      <4>3. QED BY <4>2 DEF a, b
    <3>3. QED BY <3>1, <3>2
  <2> HIDE DEF S, n
  <2>3. QED BY <1>1, <2>1, <2>2, Downward
<1>12. QED BY <1>10, <1>11 DEF t, base

(* What a request is on the wire.                                          *)
LEMMA StreamTypes ==
  ASSUME NEW r \in Requests
  PROVE  /\ HeadOf(r) \in Seq(Tokens) /\ Len(HeadOf(r)) = r.fields + 2
         /\ HeadOf(r)[1] = Framing(r) /\ HeadOf(r)[r.fields + 2] = Blank
         /\ \A i \in 2..r.fields+1 : HeadOf(r)[i] = Field
         /\ BodyStream(r) \in Seq(Tokens) /\ Stream(r) \in Seq(Tokens)
<1>1. /\ r.kind \in {"length", "chunked", "invalid", "junk", "overrun"}
      /\ r.fields \in Nat /\ r.trailer \in BOOLEAN /\ r.sizes \in Seq(Nat)
      /\ r.kind \in {"length", "overrun"} => Len(r.sizes) = 1
  BY RequestsAssumption
<1>2. r.kind \in {"length", "overrun"} => r.sizes[1] \in Nat
  BY <1>1
<1>3. Framing(r) \in Tokens
  BY <1>1, <1>2, TokenTypes DEF Framing, Kinds
<1>4. /\ HeadOf(r) \in Seq(Tokens) /\ Len(HeadOf(r)) = r.fields + 2
      /\ HeadOf(r)[1] = Framing(r) /\ HeadOf(r)[r.fields + 2] = Blank
      /\ \A i \in 2..r.fields+1 : HeadOf(r)[i] = Field
  <2> DEFINE a == Framing(r)
             b == Many(Field, r.fields)
             m == r.fields
  <2>1. b \in Seq(Tokens) /\ Len(b) = m /\ \A i \in 1..m : b[i] = Field
    BY <1>1, TokenTypes, ManyTypes
  <2>2. HeadOf(r) = (<<a>> \o b) \o <<Blank>> /\ m \in Nat
    BY <1>1 DEF HeadOf
  <2> HIDE DEF a, b, m
  <2>3. a \in Tokens /\ Blank \in Tokens
    BY <1>3, TokenTypes DEF a
  <2>4. <<a>> \o b \in Seq(Tokens) /\ Len(<<a>> \o b) = m + 1 /\ (<<a>> \o b)[1] = a
        /\ \A i \in 2..m+1 : (<<a>> \o b)[i] = Field
    BY <2>1, <2>2, <2>3
  <2> DEFINE c == <<a>> \o b
  <2> HIDE DEF c
  <2>5. c \in Seq(Tokens) /\ Len(c) = m + 1 /\ c[1] = a /\ \A i \in 2..m+1 : c[i] = Field
    BY <2>4 DEF c
  <2>6. /\ c \o <<Blank>> \in Seq(Tokens) /\ Len(c \o <<Blank>>) = m + 2 /\ (c \o <<Blank>>)[1] = a
        /\ (c \o <<Blank>>)[m+2] = Blank /\ \A i \in 2..m+1 : (c \o <<Blank>>)[i] = Field
    BY <2>2, <2>3, <2>5
  <2>7. QED BY <2>2, <2>6 DEF c, a, m
<1>5. BodyStream(r) \in Seq(Tokens)
  <2>1. CASE r.kind = "length"
    BY <1>2, <2>1, TokenTypes, ManyTypes DEF BodyStream
  <2>2. CASE r.kind = "chunked"
    <3>1. 1 \in 1..Len(r.sizes)+1
      BY <1>1
    <3>2. QED BY <1>1, <2>2, <3>1, ChunksEquation DEF BodyStream
  <2>3. CASE r.kind = "junk"
    <3>1. BodyStream(r) = Many(Field, r.fields + 4) \o <<LineEnd>>
      BY <2>3 DEF BodyStream
    <3>2. r.fields + 4 \in Nat
      BY <1>1
    <3>3. Many(Field, r.fields + 4) \in Seq(Tokens) /\ <<LineEnd>> \in Seq(Tokens)
      BY <3>2, TokenTypes, ManyTypes
    <3>4. QED BY <3>1, <3>3
  <2>4. CASE r.kind = "overrun"
    <3>1. BodyStream(r) = <<Token("size", r.sizes[1]), LineEnd>> \o Many(Byte, r.sizes[1] + 1)
      BY <2>4 DEF BodyStream
    <3>2. r.sizes[1] + 1 \in Nat
      BY <1>2, <2>4
    <3>3. Many(Byte, r.sizes[1] + 1) \in Seq(Tokens)
      BY <3>2, TokenTypes, ManyTypes
    <3>4. <<Token("size", r.sizes[1]), LineEnd>> \in Seq(Tokens)
      BY <1>2, <2>4, TokenTypes DEF Kinds
    <3>5. QED BY <3>1, <3>3, <3>4
  <2>5. CASE r.kind = "invalid"
    BY <2>5 DEF BodyStream
  <2>6. QED BY <1>1, <2>1, <2>2, <2>3, <2>4, <2>5
<1>6. Stream(r) \in Seq(Tokens)
  BY <1>4, <1>5 DEF Stream
<1>7. QED BY <1>4, <1>5, <1>6

LEMMA GreatestOf ==
  ASSUME NEW a \in Nat, NEW b \in Nat, NEW c \in Nat
  PROVE  /\ Greatest({a, b, c}) \in Nat
         /\ a <= Greatest({a, b, c}) /\ b <= Greatest({a, b, c}) /\ c <= Greatest({a, b, c})
<1> DEFINE S == {a, b, c}
<1>1. \E n \in S : \A m \in S : m <= n
  OBVIOUS
<1>2. Greatest(S) \in S /\ \A m \in S : m <= Greatest(S)
  BY <1>1 DEF Greatest
<1>3. QED BY <1>2

Most == Greatest({MaxHead, MaxLine, MaxBody})
LongestIdle == Greatest({HeadIdle, BodyIdle})

LEMMA Limits ==
  /\ Most \in Nat /\ MaxHead <= Most /\ MaxLine <= Most /\ MaxBody <= Most /\ 1 <= Most
  /\ LongestIdle \in Nat /\ HeadIdle <= LongestIdle /\ BodyIdle <= LongestIdle
<1>1. MaxHead \in Nat \ {0} /\ MaxLine \in Nat /\ MaxBody \in Nat /\ HeadIdle \in Nat /\ BodyIdle \in Nat
  BY ReaderAssumption
<1>2. Most \in Nat /\ MaxHead <= Most /\ MaxLine <= Most /\ MaxBody <= Most
  BY <1>1, GreatestOf DEF Most
<1>3. {HeadIdle, HeadIdle, BodyIdle} = {HeadIdle, BodyIdle}
  OBVIOUS
<1>4. LongestIdle \in Nat /\ HeadIdle <= LongestIdle /\ BodyIdle <= LongestIdle
  <2> DEFINE g == Greatest({HeadIdle, HeadIdle, BodyIdle})
  <2>1. g \in Nat /\ HeadIdle <= g /\ BodyIdle <= g
    BY <1>1, GreatestOf
  <2>2. g = LongestIdle
    BY <1>3 DEF LongestIdle
  <2> HIDE DEF g
  <2>3. QED BY <2>1, <2>2
<1>5. 1 <= MaxHead
  BY <1>1
<1>6. QED BY <1>1, <1>2, <1>4, <1>5

Modes == Reading \cup {"serve", "refused", "closed"}
GotKinds == {"none", "length", "chunked", "garbled"}
RequestRead == [kind : GotKinds, sizes : Seq(Nat), total : Nat]

ReaderTypes ==
  /\ sent \in Seq(Requests) /\ gone \in BOOLEAN /\ firm \in Nat
  /\ wire \in Seq(Tokens) /\ buffer \in Seq(Tokens)
  /\ need \in Nat /\ got \in RequestRead /\ parsed \in Seq(RequestRead)
  /\ mode \in Modes /\ status \in {0, 400, 408, 413, 431}
  /\ age \in Nat /\ left \in Nat /\ receiving \in BOOLEAN

(* Parts of what holds between them.                                       *)
RefusedHasStatus == (status # 0) = (mode = "refused")
BufferBounded == Len(buffer) <= Most + RecvSize /\ (receiving => Len(buffer) <= Most)
Waits == receiving => mode \in Reading /\ ~Complete /\ age + left <= Absolute
Clocks == age <= Absolute /\ left <= LongestIdle
Declared ==
  /\ mode \in Reading => got.total <= MaxBody
  /\ mode \in {"body", "chunk"} => need <= MaxBody
  /\ mode = "end of chunk" => need = 1
Sendings == firm <= Len(sent) /\ Len(sent) <= MaxSent

Bounds == RefusedHasStatus /\ BufferBounded /\ Waits /\ Clocks /\ Declared /\ Sendings

(* The first line of the buffer, once it is complete.                      *)
LEMMA LineTypes ==
  ASSUME ReaderTypes, mode \in Lines, Complete
  PROVE  /\ LineLength \in 1..Len(buffer) /\ buffer[LineLength] = Marker
         /\ \A j \in 1..LineLength-1 : buffer[j] # Marker
         /\ Line \in Seq(Tokens) /\ Len(Line) = LineLength - 1
         /\ \A j \in 1..LineLength-1 : Line[j] = buffer[j]
<1> DEFINE S == {i \in 1..Len(buffer) : buffer[i] = Marker}
           P(i) == buffer[i] = Marker /\ \A j \in 1..(i - 1) : buffer[j] # Marker
<1>1. buffer \in Seq(Tokens) /\ Len(buffer) \in Nat /\ DOMAIN buffer = 1..Len(buffer)
  BY DEF ReaderTypes
<1>2. S # {} /\ S \in SUBSET Nat
  BY <1>1 DEF Complete
<1>3. PICK n \in S : \A m \in S : n <= m
  <2> HIDE DEF S
  <2>1. QED BY <1>2, LeastOf
<1>4. n \in 1..Len(buffer) /\ P(n)
  BY <1>1, <1>3
<1>5. LineLength \in 1..Len(buffer) /\ P(LineLength)
  <2>1. LineLength = CHOOSE i \in DOMAIN buffer : P(i)
    BY DEF LineLength
  <2> HIDE DEF P
  <2>2. QED BY <1>1, <1>4, <2>1
<1>6. Line = SubSeq(buffer, 1, LineLength - 1)
  BY DEF Line
<1> DEFINE m == LineLength - 1
<1>7. m \in Nat /\ m <= Len(buffer)
  BY <1>1, <1>5
<1> HIDE DEF m
<1>8. SubSeq(buffer, 1, m) \in Seq(Tokens) /\ Len(SubSeq(buffer, 1, m)) = m
      /\ \A j \in 1..m : SubSeq(buffer, 1, m)[j] = buffer[j]
  BY <1>1, <1>7
<1>9. QED BY <1>5, <1>6, <1>8 DEF m

LEMMA RestTypes ==
  ASSUME ReaderTypes, NEW n \in Nat, n <= Len(buffer)
  PROVE  Rest(n) \in Seq(Tokens) /\ Len(Rest(n)) = Len(buffer) - n
BY DEF ReaderTypes, Rest

(* What the head of a request leads to.                                    *)
LEMMA BodyOfTypes ==
  ASSUME ReaderTypes, NEW start \in Tokens, NEW kind \in GotKinds, BodyOf(start, kind)
  PROVE  /\ got' \in RequestRead /\ got'.total = 0 /\ need' \in Nat /\ parsed' \in Seq(RequestRead)
         /\ mode' \in {"size", "serve", "refused", "body"} /\ status' \in {status, 413}
         /\ mode' = "refused" => status' = 413
         /\ mode' # "refused" => status' = status
         /\ mode' = "body" => need' <= MaxBody
<1>1. start[2] \in Nat /\ MaxBody \in Nat
  BY ReaderAssumption DEF Tokens
<1>2. got' = [kind |-> kind, sizes |-> <<>>, total |-> 0]
  BY DEF BodyOf, Nothing
<1>3. got' \in RequestRead /\ got'.total = 0
  <2>1. <<>> \in Seq(Nat) /\ 0 \in Nat
    OBVIOUS
  <2>2. QED BY <1>2, <2>1 DEF RequestRead
<1>4. CASE start[1] = "chunked" /\ Expect("size", 0)
  BY <1>3, <1>4 DEF Expect, result, ReaderTypes
<1>5. CASE start[2] = 0 /\ Done([kind |-> kind, sizes |-> <<0>>, total |-> 0])
  <2> DEFINE q == [kind |-> kind, sizes |-> <<0>>, total |-> 0]
  <2>1. Done(q)
    BY <1>5
  <2>2. <<0>> \in Seq(Nat) /\ 0 \in Nat
    OBVIOUS
  <2>3. q \in RequestRead
    BY <2>2 DEF RequestRead
  <2> HIDE DEF q
  <2>4. QED BY <1>3, <2>1, <2>3 DEF Done, ReaderTypes
<1>6. CASE Abort(413)
  BY <1>1, <1>3, <1>6 DEF Abort, Reject, ReaderTypes
<1>7. CASE start[2] \in 1..MaxBody /\ Expect("body", start[2])
  BY <1>1, <1>3, <1>7 DEF Expect, result, ReaderTypes
<1>8. QED BY <1>4, <1>5, <1>6, <1>7 DEF BodyOf

ReaderInv == ReaderTypes /\ Bounds

LEMMA Constants ==
  /\ RecvSize \in Nat \ {0} /\ HeadIdle \in Nat \ {0} /\ BodyIdle \in Nat \ {0} /\ Absolute \in Nat \ {0}
  /\ MaxBody \in Nat /\ MaxSent \in Nat /\ MaxHead \in Nat \ {0} /\ MaxLine \in Nat \ {0}
BY ReaderAssumption

LEMMA ReaderInitInv == ReaderInit => ReaderInv
<1> SUFFICES ASSUME ReaderInit PROVE ReaderInv
  OBVIOUS
<1> USE DEF ReaderInit
<1>1. <<>> \in Seq(Nat) /\ <<>> \in Seq(Tokens) /\ <<>> \in Seq(Requests) /\ <<>> \in Seq(RequestRead) /\ 0 \in Nat
  OBVIOUS
<1>2. got \in RequestRead
  BY <1>1 DEF Nothing, RequestRead, GotKinds
<1>3. ReaderTypes
  BY <1>1, <1>2 DEF ReaderTypes, Modes, Reading
<1>4. RefusedHasStatus /\ Waits /\ Sendings
  BY Constants DEF RefusedHasStatus, Waits, Sendings
<1>5. BufferBounded /\ Clocks
  BY Limits, Constants DEF BufferBounded, Clocks
<1>6. Declared
  BY Constants DEF Declared, Nothing, Reading
<1>7. QED BY <1>3, <1>4, <1>5, <1>6 DEF ReaderInv, Bounds

(* What no step of recv() or of time changes.                              *)
LEMMA BeginRecvInv == ReaderInv /\ BeginRecv => ReaderInv'
<1> SUFFICES ASSUME ReaderInv, BeginRecv PROVE ReaderInv'
  OBVIOUS
<1> USE DEF ReaderInv, Bounds
<1>1. UNCHANGED <<sent, gone, firm, wire, buffer, need, got, parsed>> /\ mode \in Reading /\ ~Complete /\ ~receiving
  BY DEF BeginRecv, sender, reader
<1>2. CASE mode' = "refused" /\ status' \in {408, 431} /\ UNCHANGED timing
  <2>1. ReaderTypes'
    BY <1>1, <1>2 DEF ReaderTypes, timing, Modes
  <2>2. Bounds'
    <3>1. (RefusedHasStatus /\ Sendings)'
      BY <1>1, <1>2 DEF RefusedHasStatus, Sendings
    <3>2. (BufferBounded /\ Clocks)'
      BY <1>1, <1>2 DEF BufferBounded, Clocks, timing
    <3>3. Waits'
      BY <1>1, <1>2 DEF Waits, timing
    <3>4. Declared'
      BY <1>2 DEF Declared, Reading
    <3>5. QED BY <3>1, <3>2, <3>3, <3>4
  <2>3. QED BY <2>1, <2>2
<1>3. CASE /\ ~(mode \in Lines /\ Len(buffer) > Limit) /\ age < Absolute
           /\ receiving' = TRUE /\ left' = Least(IdleTimeout, Absolute - age) /\ UNCHANGED <<mode, status, age>>
  <2>1. IdleTimeout \in Nat /\ IdleTimeout <= LongestIdle /\ age \in Nat /\ Absolute \in Nat
    BY Constants, Limits DEF IdleTimeout, ReaderTypes
  <2>2. left' \in Nat /\ age' + left' <= Absolute /\ left' <= LongestIdle
    BY <1>3, <2>1, Limits DEF Least
  <2>3. Len(buffer) <= Most
    <3>1. CASE mode \in Lines
      BY <1>3, <3>1, Limits, Constants DEF Limit, ReaderTypes
    <3>2. CASE mode \notin Lines
      <4>1. Len(buffer) < need
        BY <1>1, <3>2 DEF Complete, ReaderTypes
      <4>2. mode \in {"body", "chunk", "end of chunk"}
        BY <1>1, <3>2 DEF Reading, Lines
      <4>3. need <= MaxBody \/ need = 1
        BY <4>2 DEF Declared
      <4>4. QED BY <4>1, <4>3, Limits, Constants DEF ReaderTypes
    <3>3. QED BY <3>1, <3>2
  <2>4. ReaderTypes'
    BY <1>1, <1>3, <2>2 DEF ReaderTypes
  <2>5. ~Complete'
    BY <1>1, <1>3 DEF Complete, Marker
  <2>6. Bounds'
    <3>1. (RefusedHasStatus /\ Sendings /\ Declared)'
      BY <1>1, <1>3 DEF RefusedHasStatus, Sendings, Declared
    <3>2. BufferBounded'
      BY <1>1, <2>3 DEF BufferBounded
    <3>3. Waits'
      BY <1>1, <1>3, <2>2, <2>5 DEF Waits
    <3>4. Clocks'
      BY <1>3, <2>2 DEF Clocks
    <3>5. QED BY <3>1, <3>2, <3>3, <3>4
  <2>7. QED BY <2>4, <2>6
<1>4. QED
  <2>1. age \in Nat /\ Absolute \in Nat
    BY Constants DEF ReaderTypes
  <2>2. \/ mode \in Lines /\ Len(buffer) > Limit /\ Reject(431) /\ UNCHANGED timing
        \/ age >= Absolute /\ Reject(408) /\ UNCHANGED timing
        \/ /\ ~(mode \in Lines /\ Len(buffer) > Limit) /\ ~(age >= Absolute)
           /\ receiving' = TRUE /\ left' = Least(IdleTimeout, Absolute - age) /\ UNCHANGED <<mode, status, age>>
    BY DEF BeginRecv
  <2>3. CASE mode \in Lines /\ Len(buffer) > Limit /\ Reject(431) /\ UNCHANGED timing
    BY <1>2, <2>3 DEF Reject
  <2>4. CASE age >= Absolute /\ Reject(408) /\ UNCHANGED timing
    BY <1>2, <2>4 DEF Reject
  <2>5. CASE /\ ~(mode \in Lines /\ Len(buffer) > Limit) /\ ~(age >= Absolute)
             /\ receiving' = TRUE /\ left' = Least(IdleTimeout, Absolute - age) /\ UNCHANGED <<mode, status, age>>
    <3>1. age < Absolute
      BY <2>1, <2>5
    <3>2. QED BY <1>3, <2>5, <3>1
  <2>6. QED BY <2>2, <2>3, <2>4, <2>5

(* A recv() of k tokens moves them from the wire to the buffer.            *)
LEMMA Moved ==
  ASSUME NEW a \in Seq(Tokens), NEW b \in Seq(Tokens), NEW k \in 1..Len(b)
  PROVE  /\ a \o SubSeq(b, 1, k) \in Seq(Tokens) /\ Len(a \o SubSeq(b, 1, k)) = Len(a) + k
         /\ SubSeq(b, k + 1, Len(b)) \in Seq(Tokens)
         /\ (a \o SubSeq(b, 1, k)) \o SubSeq(b, k + 1, Len(b)) = a \o b
<1> DEFINE p == SubSeq(b, 1, k)
           q == SubSeq(b, k + 1, Len(b))
<1>1. p \in Seq(Tokens) /\ Len(p) = k /\ q \in Seq(Tokens) /\ Len(q) = Len(b) - k
  OBVIOUS
<1>2. p \o q = b
  <2>1. \A i \in 1..k : p[i] = b[i]
    OBVIOUS
  <2>2. \A i \in 1..Len(b)-k : q[i] = b[k + i]
    OBVIOUS
  <2>3. k \in Nat /\ k <= Len(b) /\ Len(b) \in Nat
    OBVIOUS
  <2> HIDE DEF p, q
  <2>4. p \o q \in Seq(Tokens) /\ Len(p \o q) = Len(b)
    <3>1. p \o q \in Seq(Tokens) /\ Len(p \o q) = Len(p) + Len(q)
      BY <1>1, Joins
    <3>2. Len(p) + Len(q) = Len(b)
      BY <1>1, <2>3
    <3>3. QED BY <3>1, <3>2
  <2>5. \A i \in 1..Len(b) : (p \o q)[i] = b[i]
    <3> SUFFICES ASSUME NEW i \in 1..Len(b) PROVE (p \o q)[i] = b[i]
      OBVIOUS
    <3>1. CASE i <= k
      <4>1. i \in 1..k
        BY <2>3, <3>1
      <4>2. (p \o q)[i] = p[i]
        BY <1>1, <4>1
      <4>3. p[i] = b[i]
        BY <2>1, <4>1
      <4>4. QED BY <4>2, <4>3
    <3>2. CASE i > k
      <4>1. i - k \in 1..Len(b) - k /\ k + (i - k) = i
        BY <2>3, <3>2
      <4>2. (p \o q)[i] = q[i - k]
        BY <1>1, <2>3, <3>2, <4>1
      <4>3. QED BY <2>2, <4>1, <4>2
    <3>3. i <= k \/ i > k
      BY <2>3
    <3>4. QED BY <3>1, <3>2, <3>3
  <2> DEFINE c == p \o q
  <2> HIDE DEF c
  <2>6. c \in Seq(Tokens) /\ Len(c) = Len(b) /\ \A i \in 1..Len(b) : c[i] = b[i]
    BY <2>4, <2>5 DEF c
  <2>7. c = b
    BY <2>6
  <2>8. QED BY <2>7 DEF c
<1> HIDE DEF p, q
<1>3. a \o p \in Seq(Tokens) /\ Len(a \o p) = Len(a) + k
  BY <1>1, Joins
<1>31. (a \o p) \o q = a \o (p \o q)
  BY SMTT(30), <1>1
<1>4. QED BY <1>1, <1>2, <1>3, <1>31 DEF p, q

LEMMA ReceiveInv == ReaderInv /\ Receive => ReaderInv'
<1> SUFFICES ASSUME ReaderInv, Receive PROVE ReaderInv'
  OBVIOUS
<1> USE DEF ReaderInv, Bounds
<1>1. PICK k \in 1..Least(RecvSize, Len(wire)) : buffer' = buffer \o SubSeq(wire, 1, k) /\ wire' = SubSeq(wire, k + 1, Len(wire))
  BY DEF Receive
<1>2. /\ UNCHANGED <<sent, gone, firm, mode, status, parsed, need, got, age>>
      /\ receiving /\ receiving' = FALSE /\ left' = 0
  BY DEF Receive, sender, result
<1>3. buffer \in Seq(Tokens) /\ wire \in Seq(Tokens) /\ k \in 1..Len(wire) /\ k <= RecvSize
  BY <1>1, Constants DEF ReaderTypes, Least
<1>4. buffer' \in Seq(Tokens) /\ Len(buffer') = Len(buffer) + k /\ wire' \in Seq(Tokens)
  BY <1>1, <1>3, Moved
<1>5. ReaderTypes'
  BY ZenonT(60), <1>2, <1>4 DEF ReaderTypes
<1>6. BufferBounded'
  <2>1. Len(buffer) <= Most /\ Len(buffer') = Len(buffer) + k /\ k <= RecvSize /\ Len(buffer) \in Nat
    BY <1>2, <1>3, <1>4 DEF BufferBounded
  <2>2. Len(buffer') <= Most + RecvSize
    BY <1>3, <2>1, Limits, Constants
  <2>3. QED BY <1>2, <2>2 DEF BufferBounded
<1>7. Clocks'
  <2>1. left' <= LongestIdle
    BY <1>2, Limits
  <2>2. QED BY <1>2, <2>1 DEF Clocks
<1>8. (RefusedHasStatus /\ Sendings /\ Declared /\ Waits)'
  BY <1>2 DEF RefusedHasStatus, Sendings, Declared, Waits
<1>9. QED BY <1>5, <1>6, <1>7, <1>8

LEMMA RecvTimeoutInv == ReaderInv /\ (RecvTimeout \/ StreamEnds) => ReaderInv'
<1> SUFFICES ASSUME ReaderInv, RecvTimeout \/ StreamEnds PROVE ReaderInv'
  OBVIOUS
<1> USE DEF ReaderInv, Bounds
<1>1. UNCHANGED <<sent, gone, firm, wire, buffer, need, got, parsed, age>> /\ receiving /\ receiving' = FALSE /\ left' \in {left, 0}
  BY DEF RecvTimeout, StreamEnds, sender, reader, result
<1>2. (mode' = "refused" /\ status' = 408) \/ (mode' = "closed" /\ status' = status)
  BY DEF RecvTimeout, StreamEnds, Reject, result
<1>3. ReaderTypes'
  <2>1. mode' \in Modes /\ status' \in {0, 400, 408, 413, 431} /\ left' \in Nat
    BY <1>1, <1>2 DEF ReaderTypes, Modes
  <2>2. QED BY ZenonT(60), <1>1, <2>1 DEF ReaderTypes
<1>4. status = 0 \/ mode' = "refused"
  BY <1>1, <1>2 DEF RefusedHasStatus, Waits, Reading
<1>5. (RefusedHasStatus /\ Sendings)'
  BY <1>1, <1>2, <1>4 DEF RefusedHasStatus, Sendings
<1>6. (BufferBounded /\ Waits)'
  BY <1>1 DEF BufferBounded, Waits
<1>7. Clocks'
  <2>1. left' <= LongestIdle
    BY <1>1, Limits DEF Clocks
  <2>2. QED BY <1>1, <2>1 DEF Clocks
<1>8. Declared'
  BY <1>2 DEF Declared, Reading
<1>9. QED BY <1>3, <1>5, <1>6, <1>7, <1>8

LEMMA TimePassesInv == ReaderInv /\ TimePasses => ReaderInv'
<1> SUFFICES ASSUME ReaderInv, TimePasses PROVE ReaderInv'
  OBVIOUS
<1> USE DEF ReaderInv, Bounds
<1>1. /\ UNCHANGED <<sent, gone, firm, wire, buffer, need, got, parsed, mode, status, receiving>> /\ mode \in Reading
      /\ age' = (IF age < Absolute THEN age + 1 ELSE age) /\ left' = (IF receiving THEN left - 1 ELSE left)
      /\ receiving => left > 0
  BY DEF TimePasses, sender, reader, result
<1>2. age \in Nat /\ left \in Nat /\ receiving \in BOOLEAN /\ Absolute \in Nat
  BY Constants DEF ReaderTypes
<1>3. age' \in Nat /\ left' \in Nat /\ left' <= left
  BY <1>1, <1>2
<1>4. ReaderTypes'
  BY <1>1, <1>3 DEF ReaderTypes
<1>5. (age <= Absolute => age' <= Absolute) /\ (receiving /\ age + left <= Absolute => age' + left' <= Absolute)
  BY <1>1, <1>2
<1>6. Complete' = Complete
  BY <1>1 DEF Complete, Marker
<1>7. (RefusedHasStatus /\ Sendings /\ Declared /\ BufferBounded)'
  BY <1>1 DEF RefusedHasStatus, Sendings, Declared, BufferBounded
<1>8. Waits'
  BY <1>1, <1>5, <1>6 DEF Waits
<1>9. Clocks'
  <2>1. left' <= LongestIdle
    BY <1>2, <1>3, Limits DEF Clocks
  <2>2. QED BY <1>5, <2>1 DEF Clocks
<1>10. QED BY <1>4, <1>7, <1>8, <1>9

LEMMA SendRequestInv == ReaderInv /\ SendRequest => ReaderInv'
<1> SUFFICES ASSUME ReaderInv, SendRequest PROVE ReaderInv'
  OBVIOUS
<1> USE DEF ReaderInv, Bounds
<1>1. PICK r \in Requests : /\ sent' = Append(sent, r) /\ wire' = wire \o Stream(r)
                            /\ firm' = IF InOrder THEN firm + 1 ELSE firm
  BY DEF SendRequest
<1>2. UNCHANGED <<gone, mode, status, parsed, buffer, need, got, age, receiving, left>> /\ Len(sent) < MaxSent
  BY DEF SendRequest, reader, result, timing
<1>3. Stream(r) \in Seq(Tokens)
  BY StreamTypes
<1>4. wire' \in Seq(Tokens)
  <2> DEFINE s == Stream(r)
  <2> HIDE DEF s
  <2>1. s \in Seq(Tokens)
    BY <1>3 DEF s
  <2>2. wire \o s \in Seq(Tokens)
    BY <2>1 DEF ReaderTypes
  <2>3. QED BY <1>1, <2>2 DEF s
<1>5. sent' \in Seq(Requests) /\ Len(sent') = Len(sent) + 1
  BY <1>1 DEF ReaderTypes
<1>6. firm' \in Nat /\ firm' <= Len(sent')
  BY <1>1, <1>5 DEF ReaderTypes, Sendings, InOrder
<1>7. ReaderTypes'
  BY <1>2, <1>4, <1>5, <1>6 DEF ReaderTypes
<1>8. Complete' = Complete
  BY <1>2 DEF Complete, Marker
<1>9. (RefusedHasStatus /\ Declared /\ BufferBounded /\ Waits /\ Clocks)'
  BY <1>2, <1>8 DEF RefusedHasStatus, Declared, BufferBounded, Waits, Clocks
<1>10. Sendings'
  <2>1. Len(sent) \in Nat /\ MaxSent \in Nat
    BY Constants DEF ReaderTypes
  <2>2. QED BY <1>2, <1>5, <1>6, <2>1 DEF Sendings
<1>11. QED BY <1>7, <1>9, <1>10

LEMMA QuitInv == ReaderInv /\ Quit => ReaderInv'
<1> SUFFICES ASSUME ReaderInv, Quit PROVE ReaderInv'
  OBVIOUS
<1> USE DEF ReaderInv, Bounds
<1>1. PICK k \in 0..Len(wire) : wire' = SubSeq(wire, 1, k)
  BY DEF Quit
<1>2. UNCHANGED <<sent, firm, mode, status, parsed, buffer, need, got, age, receiving, left>> /\ gone' = TRUE
  BY DEF Quit, reader, result, timing
<1>3. wire' \in Seq(Tokens)
  BY <1>1 DEF ReaderTypes
<1>4. ReaderTypes'
  BY <1>2, <1>3 DEF ReaderTypes
<1>5. Complete' = Complete
  BY <1>2 DEF Complete, Marker
<1>6. Bounds'
  BY <1>2, <1>5 DEF RefusedHasStatus, Declared, BufferBounded, Waits, Clocks, Sendings
<1>7. QED BY <1>4, <1>6

LEMMA RespondInv == ReaderInv /\ Respond => ReaderInv'
<1> SUFFICES ASSUME ReaderInv, Respond PROVE ReaderInv'
  OBVIOUS
<1> USE DEF ReaderInv, Bounds
<1>1. /\ UNCHANGED <<sent, gone, firm, wire, status, parsed, receiving, left>>
      /\ mode = "serve" /\ buffer' = <<>> /\ need' = 0 /\ got' = Nothing
      /\ mode' \in {"head", "closed"} /\ age' \in {0, age}
  BY DEF Respond, sender, result
<1>2. <<>> \in Seq(Nat) /\ <<>> \in Seq(Tokens) /\ 0 \in Nat /\ Len(<<>>) = 0
  OBVIOUS
<1>3. Nothing \in RequestRead /\ Nothing.total = 0
  BY <1>2 DEF Nothing, RequestRead, GotKinds
<1>4. ReaderTypes'
  <2>1. mode' \in Modes /\ age' \in Nat
    BY ZenonT(60), <1>1, <1>2 DEF ReaderTypes, Modes, Reading
  <2>2. need' \in Nat /\ buffer' \in Seq(Tokens)
    BY <1>1, <1>2
  <2>3. got' \in RequestRead
    BY <1>1, <1>3
  <2>4. QED BY <1>1, <2>1, <2>2, <2>3 DEF ReaderTypes
<1>5. ~receiving'
  BY <1>1 DEF Waits, Reading
<1>6. (RefusedHasStatus /\ Sendings /\ Waits)'
  BY <1>1, <1>5 DEF RefusedHasStatus, Sendings, Waits
<1>7. BufferBounded'
  <2>1. Len(buffer') <= Most + RecvSize
    BY <1>1, <1>2, Limits, Constants
  <2>2. QED BY <1>5, <2>1 DEF BufferBounded
<1>8. Clocks'
  <2>1. age' <= Absolute
    BY <1>1, Constants DEF Clocks
  <2>2. QED BY <1>1, <2>1 DEF Clocks
<1>9. Declared'
  <2>1. got'.total = 0 /\ 0 <= MaxBody
    BY <1>1, <1>3, Constants
  <2>2. QED BY <1>1, <2>1 DEF Declared
<1>10. QED BY <1>4, <1>6, <1>7, <1>8, <1>9

(* What a step of parse_request leaves as it is.                           *)
LEMMA ParseKeeps ==
  ASSUME ReaderInv, Complete, UNCHANGED <<sender, wire, timing>>, NEW n \in Nat, n <= Len(buffer), buffer' = Rest(n),
         mode' \in Modes, status' \in {0, 400, 408, 413, 431}, need' \in Nat, got' \in RequestRead, parsed' \in Seq(RequestRead),
         RefusedHasStatus', Declared'
  PROVE  ReaderInv'
<1> USE DEF ReaderInv, Bounds
<1>1. UNCHANGED <<sent, gone, firm, wire, age, receiving, left>>
  BY DEF sender, timing
<1>2. buffer' \in Seq(Tokens) /\ Len(buffer') = Len(buffer) - n
  BY RestTypes
<1>3. ReaderTypes'
  BY <1>1, <1>2 DEF ReaderTypes
<1>4. ~receiving'
  BY <1>1 DEF Waits
<1>5. BufferBounded'
  <2>1. Len(buffer) \in Nat /\ Len(buffer) <= Most + RecvSize
    BY DEF ReaderTypes, BufferBounded
  <2>2. Len(buffer') <= Most + RecvSize
    BY <1>2, <2>1, Limits, Constants
  <2>3. QED BY <1>4, <2>2 DEF BufferBounded
<1>6. (Waits /\ Clocks /\ Sendings)'
  BY <1>1, <1>4 DEF Waits, Clocks, Sendings
<1>7. QED BY <1>3, <1>5, <1>6

(* A reading that is over has not failed.                                  *)
LEMMA ReadingHasNoStatus == ReaderInv /\ mode \in Reading => status = 0
BY DEF ReaderInv, Bounds, RefusedHasStatus, Reading

LEMMA ParseHeadInv == ReaderInv /\ ParseHead => ReaderInv'
<1> SUFFICES ASSUME ReaderInv, ParseHead PROVE ReaderInv'
  OBVIOUS
<1>1. mode = "head" /\ Complete /\ buffer' = Rest(LineLength) /\ UNCHANGED <<sender, wire, timing>>
  BY DEF ParseHead
<1>2. ReaderTypes /\ mode \in Lines /\ mode \in Reading
  BY <1>1 DEF ReaderInv, Lines, Reading
<1>3. /\ LineLength \in 1..Len(buffer) /\ Line \in Seq(Tokens) /\ Len(Line) = LineLength - 1
  BY <1>1, <1>2, LineTypes
<1>4. LineLength \in Nat /\ LineLength <= Len(buffer)
  BY <1>2, <1>3 DEF ReaderTypes
<1>5. status = 0
  BY <1>2, ReadingHasNoStatus
<1> DEFINE starts == {i \in DOMAIN Line : Line[i][1] \in {"length", "chunked"}}
<1>6. \/ \E start \in Tokens, kind \in GotKinds : BodyOf(start, kind)
      \/ Abort(400) /\ UNCHANGED got
  <2>1. \/ 1 \in starts /\ BodyOf(Line[1], Line[1][1])
        \/ Abort(400) /\ UNCHANGED got
        \/ \E i \in starts : BodyOf(Line[i], "garbled")
    BY DEF ParseHead
  <2>2. \A i \in starts : Line[i] \in Tokens /\ Line[i][1] \in GotKinds
    BY <1>3 DEF GotKinds
  <2>3. "garbled" \in GotKinds
    BY DEF GotKinds
  <2> HIDE DEF starts
  <2>4. QED BY <2>1, <2>2, <2>3
<1>7. CASE Abort(400) /\ UNCHANGED got
  <2>1. mode' = "refused" /\ status' = 400 /\ UNCHANGED <<need, parsed, got>>
    BY <1>7 DEF Abort, Reject
  <2>2. (RefusedHasStatus /\ Declared)'
    BY <2>1 DEF RefusedHasStatus, Declared, Reading
  <2>3. mode' \in Modes /\ need' \in Nat /\ got' \in RequestRead /\ parsed' \in Seq(RequestRead)
    BY <1>2, <2>1 DEF Modes, ReaderTypes
  <2>4. QED BY <1>1, <1>4, <2>1, <2>2, <2>3, ParseKeeps
<1>8. ASSUME NEW start \in Tokens, NEW kind \in GotKinds, BodyOf(start, kind) PROVE ReaderInv'
  <2>1. /\ got' \in RequestRead /\ got'.total = 0 /\ need' \in Nat /\ parsed' \in Seq(RequestRead)
        /\ mode' \in {"size", "serve", "refused", "body"} /\ status' \in {status, 413}
        /\ mode' = "refused" => status' = 413
        /\ mode' # "refused" => status' = status
        /\ mode' = "body" => need' <= MaxBody
    BY <1>2, <1>8, BodyOfTypes
  <2>2. RefusedHasStatus'
    BY <1>5, <2>1 DEF RefusedHasStatus
  <2>3. Declared'
    <3>1. got'.total <= MaxBody
      BY <2>1, Constants
    <3>2. QED BY <2>1, <3>1 DEF Declared
  <2>4. mode' \in Modes /\ status' \in {0, 400, 408, 413, 431}
    BY ZenonT(60), <1>5, <2>1 DEF Modes, Reading
  <2>5. QED BY <1>1, <1>4, <2>1, <2>2, <2>3, <2>4, ParseKeeps
<1>9. QED BY <1>6, <1>7, <1>8

LEMMA DoneTypes ==
  ASSUME ReaderInv, mode \in Reading, NEW answer \in RequestRead, Done(answer)
  PROVE  /\ mode' = "serve" /\ status' = 0 /\ need' \in Nat /\ parsed' \in Seq(RequestRead)
         /\ RefusedHasStatus' /\ Declared'
<1>1. mode' = "serve" /\ status' = 0 /\ need' = 0 /\ parsed' = Append(parsed, answer)
  BY ReadingHasNoStatus DEF Done
<1>2. parsed' \in Seq(RequestRead)
  BY <1>1 DEF ReaderInv, ReaderTypes
<1>3. (RefusedHasStatus /\ Declared)'
  BY <1>1 DEF RefusedHasStatus, Declared, Reading
<1>4. QED BY <1>1, <1>2, <1>3

(* got is a record, and a field of it may be changed.                      *)
LEMMA GotTypes ==
  ASSUME NEW a \in RequestRead
  PROVE  /\ a.kind \in GotKinds /\ a.sizes \in Seq(Nat) /\ a.total \in Nat
         /\ a = [kind |-> a.kind, sizes |-> a.sizes, total |-> a.total]
BY DEF RequestRead

LEMMA SizesChanged ==
  ASSUME NEW a \in RequestRead, NEW s, s \in Seq(Nat), NEW b, b = [a EXCEPT !.sizes = s]
  PROVE  b \in RequestRead /\ b.kind = a.kind /\ b.sizes = s /\ b.total = a.total
<1>1. a = [kind |-> a.kind, sizes |-> a.sizes, total |-> a.total] /\ a.kind \in GotKinds /\ a.total \in Nat
  BY DEF RequestRead
<1>2. b = [kind |-> a.kind, sizes |-> s, total |-> a.total]
  BY <1>1
<1>3. b \in RequestRead
  BY <1>1, <1>2 DEF RequestRead
<1>4. QED BY <1>2, <1>3

LEMMA TotalChanged ==
  ASSUME NEW a \in RequestRead, NEW t \in Nat, NEW b, b = [a EXCEPT !.total = t]
  PROVE  b \in RequestRead /\ b.kind = a.kind /\ b.sizes = a.sizes /\ b.total = t
<1>1. a = [kind |-> a.kind, sizes |-> a.sizes, total |-> a.total] /\ a.kind \in GotKinds /\ a.sizes \in Seq(Nat)
  BY DEF RequestRead
<1>2. b = [kind |-> a.kind, sizes |-> a.sizes, total |-> t]
  BY <1>1
<1>3. b \in RequestRead
  BY <1>1, <1>2 DEF RequestRead
<1>4. QED BY <1>2, <1>3

LEMMA ReadBodyInv == ReaderInv /\ ReadBody => ReaderInv'
<1> SUFFICES ASSUME ReaderInv, ReadBody PROVE ReaderInv'
  OBVIOUS
<1>1. mode = "body" /\ Complete /\ buffer' = Rest(need) /\ UNCHANGED <<sender, wire, got, timing>>
  BY DEF ReadBody
<1>2. mode \in Reading /\ need \in Nat /\ need <= Len(buffer) /\ got \in RequestRead /\ Len(buffer) \in Nat
  BY <1>1 DEF ReaderInv, ReaderTypes, Reading, Complete, Lines
<1> DEFINE answer == [got EXCEPT !.sizes = <<need>>, !.total = need]
<1>3. answer \in RequestRead
  <2>1. <<need>> \in Seq(Nat)
    BY <1>2
  <2> DEFINE s == <<need>>
             b == [got EXCEPT !.sizes = s]
  <2>2. s \in Seq(Nat)
    BY <2>1
  <2>3. answer = [b EXCEPT !.total = need]
    OBVIOUS
  <2> HIDE DEF s
  <2>4. b \in RequestRead
    BY <1>2, <2>2, SizesChanged
  <2> HIDE DEF answer, b
  <2>5. QED BY <1>2, <2>3, <2>4, TotalChanged
<1>4. Done(answer)
  BY DEF ReadBody
<1> HIDE DEF answer
<1>5. /\ mode' = "serve" /\ status' = 0 /\ need' \in Nat /\ parsed' \in Seq(RequestRead)
      /\ RefusedHasStatus' /\ Declared'
  BY <1>2, <1>3, <1>4, DoneTypes
<1>6. mode' \in Modes /\ status' \in {0, 400, 408, 413, 431} /\ got' \in RequestRead /\ UNCHANGED <<sender, wire, timing>>
  BY <1>1, <1>2, <1>5 DEF Modes
<1>7. QED BY <1>1, <1>2, <1>5, <1>6, ParseKeeps

LEMMA ReadLastInv == ReaderInv /\ ReadLast => ReaderInv'
<1> SUFFICES ASSUME ReaderInv, ReadLast PROVE ReaderInv'
  OBVIOUS
<1>1. mode = "last" /\ Complete /\ buffer' = Rest(LineLength) /\ UNCHANGED <<sender, wire, got, timing>> /\ Done(got)
  BY DEF ReadLast
<1>2. ReaderTypes /\ mode \in Lines /\ mode \in Reading /\ got \in RequestRead /\ Len(buffer) \in Nat
  BY <1>1 DEF ReaderInv, ReaderTypes, Reading, Lines
<1>3. LineLength \in Nat /\ LineLength <= Len(buffer)
  BY <1>1, <1>2, LineTypes
<1>5. /\ mode' = "serve" /\ status' = 0 /\ need' \in Nat /\ parsed' \in Seq(RequestRead)
      /\ RefusedHasStatus' /\ Declared'
  BY <1>1, <1>2, DoneTypes
<1>6. mode' \in Modes /\ status' \in {0, 400, 408, 413, 431} /\ got' \in RequestRead /\ UNCHANGED <<sender, wire, timing>>
  BY <1>1, <1>2, <1>5 DEF Modes
<1>7. QED BY <1>1, <1>3, <1>5, <1>6, ParseKeeps

LEMMA SizeTypes ==
  ASSUME ReaderTypes, mode \in Lines, Complete
  PROVE  Size \in Nat \cup {-1}
<1>1. Line \in Seq(Tokens)
  BY LineTypes
<1>2. CASE Len(Line) = 1 /\ Line[1][1] = "size"
  <2>1. Line[1] \in Tokens
    BY SMTT(30), <1>1, <1>2
  <2>2. QED BY <1>2, <2>1 DEF Size, Tokens
<1>3. CASE ~(Len(Line) = 1 /\ Line[1][1] = "size")
  BY <1>3 DEF Size
<1>4. QED BY <1>2, <1>3

LEMMA ReadSizeInv == ReaderInv /\ ReadSize => ReaderInv'
<1> SUFFICES ASSUME ReaderInv, ReadSize PROVE ReaderInv'
  OBVIOUS
<1>1. mode = "size" /\ Complete /\ buffer' = Rest(LineLength) /\ UNCHANGED <<sender, wire, timing>>
  BY DEF ReadSize
<1>2. /\ ReaderTypes /\ mode \in Lines /\ mode \in Reading /\ got \in RequestRead /\ Len(buffer) \in Nat
      /\ got.total <= MaxBody /\ need \in Nat /\ parsed \in Seq(RequestRead)
  BY <1>1 DEF ReaderInv, ReaderTypes, Bounds, Declared, Reading, Lines
<1>3. LineLength \in Nat /\ LineLength <= Len(buffer)
  BY <1>1, <1>2, LineTypes
<1>4. Size \in Nat \cup {-1} /\ got.total \in Nat /\ status = 0
  BY <1>1, <1>2, SizeTypes, GotTypes, ReadingHasNoStatus
<1>5. CASE Size = -1 /\ Abort(400) /\ UNCHANGED got
  <2>1. mode' = "refused" /\ status' = 400 /\ UNCHANGED <<need, parsed, got>>
    BY <1>5 DEF Abort, Reject
  <2>2. (RefusedHasStatus /\ Declared)'
    BY <2>1 DEF RefusedHasStatus, Declared, Reading
  <2>3. mode' \in Modes /\ need' \in Nat /\ got' \in RequestRead /\ parsed' \in Seq(RequestRead) /\ status' \in {0, 400, 408, 413, 431}
    BY <1>2, <2>1 DEF Modes
  <2>4. QED BY <1>1, <1>3, <2>2, <2>3, ParseKeeps
<1>6. CASE Size = 0 /\ Expect("last", 0) /\ UNCHANGED got
  <2>1. mode' = "last" /\ need' = 0 /\ status' = 0 /\ UNCHANGED <<parsed, got>>
    BY <1>4, <1>6 DEF Expect, result
  <2>2. (RefusedHasStatus /\ Declared)'
    BY <1>2, <2>1 DEF RefusedHasStatus, Declared
  <2>3. mode' \in Modes /\ need' \in Nat /\ got' \in RequestRead /\ parsed' \in Seq(RequestRead) /\ status' \in {0, 400, 408, 413, 431}
    BY <1>2, <2>1 DEF Modes, Reading
  <2>4. QED BY <1>1, <1>3, <2>2, <2>3, ParseKeeps
<1>7. CASE Size > 0 /\ Grow
  <2> DEFINE total == got.total + Size
  <2>1. total \in Nat /\ Size <= total
    BY <1>4, <1>7
  <2>2. got' = [got EXCEPT !.total = total]
    BY <1>7 DEF Grow
  <2> HIDE DEF total
  <2>3. got' \in RequestRead /\ got'.total = total
    BY <1>2, <2>1, <2>2, TotalChanged
  <2>4. CASE total > MaxBody
    <3>1. mode' = "refused" /\ status' = 413 /\ UNCHANGED <<need, parsed>>
      BY <1>7, <2>3, <2>4 DEF Grow, Abort, Reject
    <3>2. (RefusedHasStatus /\ Declared)'
      BY <3>1 DEF RefusedHasStatus, Declared, Reading
    <3>3. mode' \in Modes /\ need' \in Nat /\ parsed' \in Seq(RequestRead) /\ status' \in {0, 400, 408, 413, 431}
      BY <1>2, <3>1 DEF Modes
    <3>4. QED BY <1>1, <1>3, <2>3, <3>2, <3>3, ParseKeeps
  <2>5. CASE ~(total > MaxBody)
    <3>1. mode' = "chunk" /\ need' = Size /\ status' = 0 /\ UNCHANGED <<parsed>>
      BY <1>4, <1>7, <2>3, <2>5 DEF Grow, Expect, result
    <3>2. need' \in Nat /\ need' <= MaxBody /\ got'.total <= MaxBody
      BY <1>4, <1>7, <2>1, <2>3, <2>5, <3>1, Constants
    <3>3. (RefusedHasStatus /\ Declared)'
      BY <3>1, <3>2 DEF RefusedHasStatus, Declared
    <3>4. mode' \in Modes /\ parsed' \in Seq(RequestRead) /\ status' \in {0, 400, 408, 413, 431}
      BY <1>2, <3>1 DEF Modes, Reading
    <3>5. QED BY <1>1, <1>3, <2>3, <3>2, <3>3, <3>4, ParseKeeps
  <2>6. QED BY <2>4, <2>5
<1>8. QED BY <1>5, <1>6, <1>7 DEF ReadSize

LEMMA ReadChunkInv == ReaderInv /\ ReadChunk => ReaderInv'
<1> SUFFICES ASSUME ReaderInv, ReadChunk PROVE ReaderInv'
  OBVIOUS
<1>1. /\ mode = "chunk" /\ Complete /\ buffer' = Rest(need) /\ UNCHANGED <<sender, wire, timing>>
      /\ got' = [got EXCEPT !.sizes = Append(got.sizes, need)]
      /\ mode' = "end of chunk" /\ need' = 1 /\ UNCHANGED <<status, parsed>>
  BY DEF ReadChunk, Expect, result
<1>2. /\ mode \in Reading /\ need \in Nat /\ need <= Len(buffer) /\ got \in RequestRead /\ Len(buffer) \in Nat
      /\ got.total <= MaxBody /\ parsed \in Seq(RequestRead)
  <2>1. mode \in Reading /\ need \in Nat /\ got \in RequestRead /\ Len(buffer) \in Nat /\ parsed \in Seq(RequestRead)
    <3>1. mode \in Reading
      BY <1>1 DEF Reading
    <3>2. need \in Nat /\ got \in RequestRead /\ Len(buffer) \in Nat /\ parsed \in Seq(RequestRead)
      BY DEF ReaderInv, ReaderTypes
    <3>3. QED BY <3>1, <3>2
  <2>2. need <= Len(buffer)
    BY <1>1, <2>1 DEF Complete, Lines
  <2>3. got.total <= MaxBody
    BY <2>1 DEF ReaderInv, Bounds, Declared
  <2>4. QED BY <2>1, <2>2, <2>3
<1> DEFINE s == Append(got.sizes, need)
<1>3. s \in Seq(Nat) /\ status = 0
  <2>1. got.sizes \in Seq(Nat)
    BY <1>2, GotTypes
  <2>2. QED BY <1>2, <2>1, ReadingHasNoStatus
<1> HIDE DEF s
<1>4. got' \in RequestRead /\ got'.total = got.total
  <2>1. got' = [got EXCEPT !.sizes = s]
    BY <1>1 DEF s
  <2>2. QED BY <1>2, <1>3, <2>1, SizesChanged
<1>5. (RefusedHasStatus /\ Declared)'
  BY <1>1, <1>2, <1>3, <1>4 DEF RefusedHasStatus, Declared
<1>6. mode' \in Modes /\ need' \in Nat /\ parsed' \in Seq(RequestRead) /\ status' \in {0, 400, 408, 413, 431}
  BY <1>1, <1>2, <1>3 DEF Modes, Reading
<1>7. QED BY ZenonT(40), <1>1, <1>2, <1>4, <1>5, <1>6, ParseKeeps

LEMMA EndOfChunkInv == ReaderInv /\ EndOfChunk => ReaderInv'
<1> SUFFICES ASSUME ReaderInv, EndOfChunk PROVE ReaderInv'
  OBVIOUS
<1>1. mode = "end of chunk" /\ Complete /\ buffer' = Rest(1) /\ UNCHANGED <<sender, wire, got, timing>>
  BY DEF EndOfChunk
<1>2. /\ mode \in Reading /\ need = 1 /\ 1 <= Len(buffer) /\ got \in RequestRead
      /\ got.total <= MaxBody /\ parsed \in Seq(RequestRead) /\ status = 0
  <2>1. mode \in Reading /\ need \in Nat /\ got \in RequestRead /\ Len(buffer) \in Nat /\ parsed \in Seq(RequestRead)
    <3>1. mode \in Reading
      BY <1>1 DEF Reading
    <3>2. need \in Nat /\ got \in RequestRead /\ Len(buffer) \in Nat /\ parsed \in Seq(RequestRead)
      BY DEF ReaderInv, ReaderTypes
    <3>3. QED BY <3>1, <3>2
  <2>2. need = 1 /\ got.total <= MaxBody
    BY <1>1, <2>1 DEF ReaderInv, Bounds, Declared
  <2>3. 1 <= Len(buffer)
    BY <1>1, <2>1, <2>2 DEF Complete, Lines
  <2>4. QED BY <2>1, <2>2, <2>3, ReadingHasNoStatus
<1>3. \/ mode' = "size" /\ need' = 0 /\ status' = 0 /\ UNCHANGED parsed
      \/ mode' = "refused" /\ need' = need /\ status' = 400 /\ UNCHANGED parsed
  BY <1>2 DEF EndOfChunk, Expect, result, Abort, Reject
<1>4. (RefusedHasStatus /\ Declared)'
  <2>1. got'.total <= MaxBody
    BY <1>1, <1>2
  <2>2. Declared'
    BY <1>3, <2>1 DEF Declared, Reading
  <2>3. RefusedHasStatus'
    BY <1>3 DEF RefusedHasStatus
  <2>4. QED BY <2>2, <2>3
<1>5. mode' \in Modes /\ need' \in Nat /\ parsed' \in Seq(RequestRead) /\ status' \in {0, 400, 408, 413, 431} /\ got' \in RequestRead
  <2>1. mode' \in Modes
    BY <1>3 DEF Modes, Reading
  <2>2. parsed' \in Seq(RequestRead)
    BY <1>2, <1>3
  <2>3. need' \in Nat /\ status' \in {0, 400, 408, 413, 431}
    BY <1>2, <1>3
  <2>4. got' \in RequestRead
    BY <1>1, <1>2
  <2>5. QED BY <2>1, <2>2, <2>3, <2>4
<1> DEFINE n == 1
<1>6. n \in Nat /\ n <= Len(buffer) /\ buffer' = Rest(n) /\ UNCHANGED <<sender, wire, timing>>
  BY <1>1, <1>2
<1> HIDE DEF n
<1>7. QED BY ZenonT(60), <1>1, <1>4, <1>5, <1>6, ParseKeeps

LEMMA ReaderStepInv == ReaderInv /\ [ReaderNext]_readerVars => ReaderInv'
<1> SUFFICES ASSUME ReaderInv, [ReaderNext]_readerVars PROVE ReaderInv'
  OBVIOUS
<1>1. CASE RecvSome
  BY <1>1, BeginRecvInv, ReceiveInv, RecvTimeoutInv DEF RecvSome
<1>2. CASE ParseRequest
  BY <1>2, ParseHeadInv, ReadBodyInv, ReadSizeInv, ReadChunkInv, EndOfChunkInv, ReadLastInv DEF ParseRequest
<1>3. CASE Respond \/ SendRequest \/ Quit \/ TimePasses
  BY <1>3, RespondInv, SendRequestInv, QuitInv, TimePassesInv
<1>4. CASE UNCHANGED readerVars
  <2>1. UNCHANGED <<sent, gone, firm, wire, mode, status, parsed, buffer, need, got, age, receiving, left>>
    BY <1>4 DEF readerVars, sender, result, reader, timing
  <2>2. Complete' = Complete
    BY <2>1 DEF Complete, Marker
  <2>3. ReaderTypes'
    BY <2>1 DEF ReaderInv, ReaderTypes
  <2>4. Bounds'
    BY <2>1, <2>2 DEF ReaderInv, Bounds, RefusedHasStatus, BufferBounded, Waits, Clocks, Declared, Sendings
  <2>5. QED BY <2>3, <2>4 DEF ReaderInv
<1>5. QED BY <1>1, <1>2, <1>3, <1>4 DEF ReaderNext

(* The types of the reader, and what holds between its parts, at every     *)
(* step of recv(), parse_request(), the client and time.                   *)
THEOREM ReaderInvariant == ReaderSpec => []ReaderInv
<1>1. QED BY ReaderInitInv, ReaderStepInv, PTL DEF ReaderSpec

(* TypeOK for every set of requests and every limit: the buffer never      *)
(* passes the greatest limit by more than one recv(), and the declared     *)
(* sizes never pass max_body_bytes.                                        *)
THEOREM ReaderTypeOK == ReaderSpec => []TypeOK
<1>1. ReaderInv => TypeOK
  <2> SUFFICES ASSUME ReaderInv PROVE TypeOK
    OBVIOUS
  <2> USE DEF ReaderInv, Bounds
  <2>1. mode \in Reading \cup {"serve", "refused", "closed"} /\ status \in {0, 400, 408, 413, 431} /\ receiving \in BOOLEAN
    BY DEF ReaderTypes, Modes
  <2>2. (status # 0) = (mode = "refused") /\ (mode \in Reading => got.total <= MaxBody) /\ (receiving => mode \in Reading)
    BY DEF RefusedHasStatus, Declared, Waits
  <2>3. Len(buffer) <= Greatest({MaxHead, MaxLine, MaxBody}) + RecvSize
    BY DEF BufferBounded, Most
  <2>4. age \in 0..Absolute
    BY Constants DEF ReaderTypes, Clocks
  <2>5. left \in 0..Greatest({HeadIdle, BodyIdle})
    <3>1. left \in Nat /\ left <= LongestIdle /\ LongestIdle \in Nat
      BY Limits DEF ReaderTypes, Clocks
    <3>2. left \in 0..LongestIdle
      BY <3>1
    <3>3. QED BY <3>2 DEF LongestIdle
  <2>6. firm <= Len(sent) /\ Len(sent) <= MaxSent
    BY DEF Sendings
  <2>7. QED BY <2>1, <2>2, <2>3, <2>4, <2>5, <2>6 DEF TypeOK
<1>2. QED BY <1>1, ReaderInvariant, PTL

(* DeadlineKept: the timeout of recv() is cut to what is left of the       *)
(* absolute one, and time moves both.                                      *)
THEOREM DeadlineIsKept == ReaderSpec => []DeadlineKept
<1>1. ReaderInv => DeadlineKept
  BY DEF ReaderInv, Bounds, Waits, DeadlineKept
<1>2. QED BY <1>1, ReaderInvariant, PTL

(* What the client has sent and the server has not parsed.                 *)
Under == buffer \o wire

(* u begins as R does, has all of it if nothing was cut off, and no more   *)
(* if nothing else was sent.                                               *)
Fit(u, R, cut, only) ==
  /\ R \in Seq(Tokens)
  /\ \A i \in 1..Len(u) : i <= Len(R) => u[i] = R[i]
  /\ ~cut => Len(R) <= Len(u)
  /\ only => Len(u) <= Len(R)

(* v is u without its first n tokens.                                      *)
Behind(u, n, v) ==
  /\ u \in Seq(Tokens) /\ v \in Seq(Tokens) /\ n \in Nat /\ Len(u) = n + Len(v)
  /\ \A i \in 1..Len(v) : v[i] = u[n + i]

Fits(R) == Fit(Under, R, gone, firm = Len(sent))

(* The first chunks of r are in got, its sizes up to the k-th counted.     *)
Counted(r, k) ==
  /\ got.kind = "chunked" /\ k \in 1..Len(r.sizes) + 1
  /\ Len(got.sizes) <= Len(r.sizes) /\ \A i \in 1..Len(got.sizes) : got.sizes[i] = r.sizes[i]
  /\ got.total + SumFrom(r.sizes)[k] = BodySize(r.sizes)

(* r is being read, and what is under way begins with the rest of it.      *)
Underway(r) ==
  \/ mode = "refused" /\ Deserved(r)
  \/ mode = "closed"
  \/ mode = "head" /\ Fits(Stream(r))
  \/ mode = "body" /\ r.kind = "length" /\ got.kind = "length" /\ need = r.sizes[1] /\ Fits(Many(Byte, need))
  \/ mode = "size" /\ r.kind = "chunked" /\ Counted(r, Len(got.sizes) + 1) /\ Fits(ChunksFrom(r)[Len(got.sizes) + 1])
  \/ mode = "size" /\ r.kind \in {"junk", "overrun"} /\ got = [kind |-> "chunked", sizes |-> <<>>, total |-> 0]
                   /\ Fits(BodyStream(r))
  \/ mode = "chunk" /\ r.kind = "chunked" /\ Counted(r, Len(got.sizes) + 2) /\ need = r.sizes[Len(got.sizes) + 1]
                    /\ Fits(Many(Byte, need) \o (<<LineEnd>> \o ChunksFrom(r)[Len(got.sizes) + 2]))
  \/ mode = "chunk" /\ r.kind = "overrun" /\ Fits(Many(Byte, need + 1))
  \/ mode = "end of chunk" /\ r.kind = "chunked" /\ Counted(r, Len(got.sizes) + 1)
                           /\ Fits(<<LineEnd>> \o ChunksFrom(r)[Len(got.sizes) + 1])
  \/ mode = "end of chunk" /\ r.kind = "overrun" /\ Fits(<<Byte>>)
  \/ mode = "last" /\ r.kind = "chunked" /\ got = Meant(r) /\ Fits(Ending(r))

(* Nothing is left but the end of a trailer.                               *)
Over(trailer) ==
  /\ mode \in {"head", "serve", "refused", "closed"} /\ status \in {0, 408}
  /\ Len(Under) <= 1 /\ (\A i \in 1..Len(Under) : Under[i] # Blank) /\ (trailer \/ Len(Under) = 0)

Trailers == \E i \in 1..Len(sent) : sent[i].trailer

(* What was read of the requests sent in order is what they were.          *)
Faithful ==
  /\ \A i \in 1..Len(parsed) : i <= firm => parsed[i] = Meant(sent[i])
  /\ firm <= Len(parsed) + 1
  /\ firm = Len(sent) => Len(parsed) <= firm
  /\ firm = Len(sent) /\ Len(parsed) = firm => Over(Trailers)
  /\ firm = Len(parsed) + 1 => Underway(sent[firm])

LEMMA Consumed ==
  ASSUME NEW u, NEW R, NEW v, NEW Q, NEW n \in Nat, NEW cut, NEW only,
         Behind(u, n, v), Behind(R, n, Q), Fit(u, R, cut, only)
  PROVE  Fit(v, Q, cut, only)
<1>1. /\ Len(u) \in Nat /\ Len(v) \in Nat /\ Len(R) \in Nat /\ Len(Q) \in Nat
      /\ Len(u) = n + Len(v) /\ Len(R) = n + Len(Q)
  BY DEF Behind
<1>2. ASSUME NEW i \in 1..Len(v), i <= Len(Q) PROVE v[i] = Q[i]
  <2>1. v[i] = u[n + i]
    BY DEF Behind
  <2>2. i \in 1..Len(Q)
    BY <1>1, <1>2
  <2>3. Q[i] = R[n + i]
    BY <2>2 DEF Behind
  <2>4. n + i \in 1..Len(u) /\ n + i <= Len(R)
    BY <1>1, <1>2
  <2>5. u[n + i] = R[n + i]
    BY <2>4 DEF Fit
  <2>6. QED BY <2>1, <2>3, <2>5
<1>3. (~cut => Len(Q) <= Len(v)) /\ (only => Len(v) <= Len(Q))
  BY <1>1 DEF Fit
<1>4. Q \in Seq(Tokens)
  BY DEF Behind
<1>5. QED BY <1>2, <1>3, <1>4 DEF Fit

LEMMA BehindJoin ==
  ASSUME NEW a \in Seq(Tokens), NEW b \in Seq(Tokens)
  PROVE  Behind(a \o b, Len(a), b)
<1>1. a \o b \in Seq(Tokens) /\ Len(a \o b) = Len(a) + Len(b) /\ Len(a) \in Nat
  BY Joins
<1>2. ASSUME NEW i \in 1..Len(b) PROVE (a \o b)[Len(a) + i] = b[i]
  OBVIOUS
<1>3. QED BY <1>1, <1>2 DEF Behind

(* The tokens of a \o b behind the first n of a.                           *)
LEMMA BehindPart ==
  ASSUME NEW a \in Seq(Tokens), NEW b \in Seq(Tokens), NEW n \in Nat, n <= Len(a)
  PROVE  Behind(a \o b, n, SubSeq(a, n + 1, Len(a)) \o b)
<1> DEFINE c == SubSeq(a, n + 1, Len(a))
<1>1. c \in Seq(Tokens) /\ Len(c) = Len(a) - n
  OBVIOUS
<1>2. \A i \in 1..Len(a)-n : c[i] = a[n + i]
  OBVIOUS
<1> HIDE DEF c
<1>3. /\ a \o b \in Seq(Tokens) /\ Len(a \o b) = Len(a) + Len(b)
      /\ c \o b \in Seq(Tokens) /\ Len(c \o b) = Len(c) + Len(b)
      /\ Len(a) \in Nat /\ Len(b) \in Nat
  <2>1. a \o b \in Seq(Tokens) /\ Len(a \o b) = Len(a) + Len(b)
    BY Joins
  <2>2. c \o b \in Seq(Tokens) /\ Len(c \o b) = Len(c) + Len(b)
    BY <1>1, Joins
  <2>3. Len(a) \in Nat /\ Len(b) \in Nat
    OBVIOUS
  <2>4. QED BY <2>1, <2>2, <2>3
<1>4. ASSUME NEW i \in 1..Len(c \o b) PROVE (c \o b)[i] = (a \o b)[n + i]
  <2>1. CASE i <= Len(c)
    <3>1. i \in 1..Len(c) /\ i \in 1..Len(a)-n /\ n + i \in 1..Len(a)
      BY <1>1, <1>3, <2>1
    <3>2. (c \o b)[i] = c[i]
      BY <1>1, <3>1, Joins
    <3>3. (a \o b)[n + i] = a[n + i]
      BY <3>1, Joins
    <3>4. QED BY <1>2, <3>1, <3>2, <3>3
  <2>2. CASE i > Len(c)
    <3> DEFINE j == i - Len(c)
    <3>1. j \in 1..Len(b) /\ Len(c) + j = i /\ Len(a) + j = n + i
      BY <1>1, <1>3, <2>2
    <3> HIDE DEF j
    <3>2. (c \o b)[Len(c) + j] = b[j]
      BY <1>1, <3>1, Joins
    <3>3. (a \o b)[Len(a) + j] = b[j]
      BY <3>1, Joins
    <3>4. QED BY <3>1, <3>2, <3>3
  <2>3. i <= Len(c) \/ i > Len(c)
    BY <1>1, <1>3
  <2>4. QED BY <2>1, <2>2, <2>3
<1>5. Len(a \o b) = n + Len(c \o b)
  BY <1>1, <1>3
<1>6. QED BY <1>3, <1>4, <1>5 DEF Behind, c

LEMMA UnderTypes == ReaderTypes => Under \in Seq(Tokens) /\ Len(Under) = Len(buffer) + Len(wire)
<1> SUFFICES ASSUME ReaderTypes PROVE Under \in Seq(Tokens) /\ Len(Under) = Len(buffer) + Len(wire)
  OBVIOUS
<1>1. buffer \in Seq(Tokens) /\ wire \in Seq(Tokens)
  BY DEF ReaderTypes
<1>2. QED BY <1>1, Joins DEF Under

(* What a step of parse_request that takes n tokens leaves.                *)
LEMMA Taken ==
  ASSUME ReaderTypes, NEW n \in Nat, n <= Len(buffer), buffer' = Rest(n), wire' = wire
  PROVE  Behind(Under, n, Under')
<1>1. buffer \in Seq(Tokens) /\ wire \in Seq(Tokens)
  BY DEF ReaderTypes
<1>2. Behind(buffer \o wire, n, SubSeq(buffer, n + 1, Len(buffer)) \o wire)
  BY <1>1, BehindPart
<1>3. Under' = SubSeq(buffer, n + 1, Len(buffer)) \o wire
  BY DEF Under, Rest
<1>4. QED BY <1>2, <1>3 DEF Under

(* What is buffered of R.                                                  *)
LEMMA BufferedIs ==
  ASSUME ReaderTypes, NEW R \in Seq(Tokens), Fits(R), NEW i \in 1..Len(buffer), i <= Len(R)
  PROVE  buffer[i] = R[i]
<1>1. buffer \in Seq(Tokens) /\ wire \in Seq(Tokens) /\ Len(buffer) \in Nat /\ Len(wire) \in Nat
  BY DEF ReaderTypes
<1>2. Under[i] = buffer[i]
  BY <1>1, Joins DEF Under
<1>3. i \in 1..Len(Under)
  BY <1>1, UnderTypes
<1>4. Under[i] = R[i]
  BY <1>3 DEF Fits, Fit
<1>5. QED BY <1>2, <1>4

(* The first line of the buffer is the first of R.                         *)
LEMMA FirstLine ==
  ASSUME ReaderTypes, mode \in Lines, Complete, NEW R \in Seq(Tokens), Fits(R),
         NEW m \in 1..Len(R), R[m] = Marker, \A j \in 1..m-1 : R[j] # Marker
  PROVE  LineLength = m /\ Len(Line) = m - 1 /\ \A j \in 1..m-1 : Line[j] = R[j]
<1>1. /\ LineLength \in 1..Len(buffer) /\ buffer[LineLength] = Marker
      /\ \A j \in 1..LineLength-1 : buffer[j] # Marker
      /\ Len(Line) = LineLength - 1
      /\ \A j \in 1..LineLength-1 : Line[j] = buffer[j]
  BY LineTypes
<1>2. Len(buffer) \in Nat /\ Len(R) \in Nat /\ LineLength \in Nat /\ m \in Nat
  BY <1>1 DEF ReaderTypes
<1>3. ~(LineLength < m)
  <2> SUFFICES ASSUME LineLength < m PROVE FALSE
    OBVIOUS
  <2>1. LineLength <= Len(R) /\ LineLength \in 1..m-1
    BY <1>1, <1>2
  <2>2. buffer[LineLength] = R[LineLength]
    BY <1>1, <2>1, BufferedIs
  <2>3. QED BY <1>1, <2>1, <2>2
<1>4. ~(LineLength > m)
  <2> SUFFICES ASSUME LineLength > m PROVE FALSE
    OBVIOUS
  <2>1. m \in 1..Len(buffer) /\ m <= Len(R) /\ m \in 1..LineLength-1
    BY <1>1, <1>2
  <2>2. buffer[m] = R[m]
    BY <2>1, BufferedIs
  <2>3. QED BY <1>1, <2>1, <2>2
<1>5. LineLength = m
  BY <1>2, <1>3, <1>4
<1>6. ASSUME NEW j \in 1..m-1 PROVE Line[j] = R[j]
  <2>1. j \in 1..Len(buffer) /\ j <= Len(R) /\ j \in 1..LineLength-1
    BY <1>1, <1>2, <1>5
  <2>2. buffer[j] = R[j]
    BY <2>1, BufferedIs
  <2>3. QED BY <1>1, <2>1, <2>2
<1>7. QED BY <1>1, <1>5, <1>6

LEMMA RequestTypes ==
  ASSUME NEW r \in Requests
  PROVE  /\ r.kind \in {"length", "chunked", "invalid", "junk", "overrun"}
         /\ r.fields \in Nat /\ r.sizes \in Seq(Nat) /\ Len(r.sizes) \in Nat
         /\ r.kind \in {"length", "overrun"} => Len(r.sizes) = 1 /\ r.sizes[1] \in Nat
         /\ \A i \in 1..Len(r.sizes) : r.sizes[i] \in Nat /\ (r.kind \in {"chunked", "overrun"} => r.sizes[i] > 0)
<1>1. /\ r.kind \in {"length", "chunked", "invalid", "junk", "overrun"}
      /\ r.fields \in Nat /\ r.sizes \in Seq(Nat) /\ Len(r.sizes) \in Nat
      /\ r.kind \in {"length", "overrun"} => Len(r.sizes) = 1
      /\ r.kind \in {"chunked", "overrun"} => \A i \in 1..Len(r.sizes) : r.sizes[i] # 0
  BY RequestsAssumption
<1>2. \A i \in 1..Len(r.sizes) : r.sizes[i] \in Nat
  BY <1>1
<1>3. QED BY <1>1, <1>2

LEMMA Sums ==
  ASSUME NEW r \in Requests
  PROVE  /\ BodySize(r.sizes) = SumFrom(r.sizes)[1]
         /\ \A i \in 1..Len(r.sizes)+1 : SumFrom(r.sizes)[i] \in Nat
         /\ SumFrom(r.sizes)[Len(r.sizes) + 1] = 0
         /\ \A i \in 1..Len(r.sizes) : SumFrom(r.sizes)[i] = r.sizes[i] + SumFrom(r.sizes)[i + 1]
         /\ Len(r.sizes) = 1 => BodySize(r.sizes) = r.sizes[1]
<1> DEFINE s == r.sizes
           t == SumFrom(s)
           n == Len(s)
<1>1. s \in Seq(Nat) /\ n \in Nat
  BY RequestTypes
<1>2. n = 1 => s[1] \in Nat
  BY <1>1
<1> HIDE DEF s
<1>3. t \in [1..n+1 -> Nat] /\ t[n + 1] = 0 /\ \A i \in 1..n : t[i] = s[i] + t[i + 1]
  BY <1>1, SumEquation
<1>4. BodySize(s) = t[1]
  BY DEF BodySize
<1> HIDE DEF t, n
<1>5. \A i \in 1..n+1 : t[i] \in Nat
  BY <1>3
<1>6. n = 1 => BodySize(s) = s[1]
  <2>1. n = 1 => t[2] = 0 /\ t[1] = s[1] + t[2]
    BY <1>3
  <2>2. QED BY <1>2, <1>4, <2>1
<1>7. QED BY <1>3, <1>4, <1>5, <1>6 DEF s, t, n

LEMMA Chunks ==
  ASSUME NEW r \in Requests
  PROVE  /\ \A i \in 1..Len(r.sizes)+1 : ChunksFrom(r)[i] \in Seq(Tokens)
         /\ ChunksFrom(r)[Len(r.sizes) + 1] = <<Token("size", 0), LineEnd>> \o Ending(r)
         /\ \A i \in 1..Len(r.sizes) : ChunksFrom(r)[i] = Chunk(r.sizes[i]) \o ChunksFrom(r)[i + 1]
BY RequestTypes, ChunksEquation

(* A step of parse_request takes n tokens, and Q is the rest of R.         *)
LEMMA FitsOn ==
  ASSUME ReaderTypes, UNCHANGED <<sender, wire>>, NEW n \in Nat, n <= Len(buffer), buffer' = Rest(n),
         NEW R, NEW Q, Behind(R, n, Q), Fits(R)
  PROVE  Fits(Q)'
<1>1. wire' = wire /\ gone' = gone /\ firm' = firm /\ sent' = sent
  BY DEF sender
<1>2. Behind(Under, n, Under')
  BY <1>1, Taken
<1> DEFINE cut == gone
           only == firm = Len(sent)
<1>3. Fit(Under, R, cut, only)
  BY DEF Fits
<1> HIDE DEF cut, only
<1>4. Fit(Under', Q, cut, only)
  BY <1>2, <1>3, Consumed
<1>5. QED BY <1>1, <1>4 DEF Fits, cut, only

(* What the head of r is, and what is behind it.                           *)
LEMMA HeadLine ==
  ASSUME ReaderTypes, mode = "head", Complete, NEW r \in Requests, Fits(Stream(r))
  PROVE  /\ LineLength = r.fields + 2 /\ Line[1] = Framing(r) /\ DOMAIN Line = 1..r.fields+1
         /\ \A i \in 2..r.fields+1 : Line[i] = Field
         /\ Behind(Stream(r), LineLength, BodyStream(r))
<1> DEFINE R == Stream(r)
           H == HeadOf(r)
           B == BodyStream(r)
           m == r.fields + 2
<1>1. /\ H \in Seq(Tokens) /\ Len(H) = m /\ H[1] = Framing(r) /\ H[m] = Blank
      /\ \A i \in 2..m-1 : H[i] = Field
      /\ B \in Seq(Tokens) /\ m \in Nat /\ m >= 2 /\ r.fields \in Nat
  BY StreamTypes, RequestTypes
<1>2. R = H \o B
  BY DEF Stream
<1>3. Framing(r) # Blank /\ Field # Blank
  BY DEF Framing, Blank, Field, Token
<1>4. mode \in Lines /\ Marker = Blank
  BY DEF Lines, Marker
<1>5. Fits(R)
  OBVIOUS
<1> HIDE DEF R, H, B, m
<1>6. /\ R \in Seq(Tokens) /\ Len(R) = m + Len(B) /\ Len(B) \in Nat /\ Behind(R, m, B)
      /\ \A i \in 1..m : R[i] = H[i]
  <2>1. Behind(H \o B, Len(H), B)
    BY <1>1, BehindJoin
  <2>2. H \o B \in Seq(Tokens) /\ Len(H \o B) = Len(H) + Len(B) /\ \A i \in 1..Len(H) : (H \o B)[i] = H[i]
    BY <1>1, Joins
  <2>3. QED BY <1>1, <1>2, <2>1, <2>2
<1>7. m \in 1..Len(R) /\ R[m] = Marker /\ \A j \in 1..m-1 : R[j] # Marker
  <2>1. m \in 1..Len(R)
    BY <1>1, <1>6
  <2>2. R[m] = Marker
    BY <1>1, <1>4, <1>6
  <2>3. ASSUME NEW j \in 1..m-1 PROVE R[j] # Marker
    <3>1. j \in 1..m /\ (j = 1 \/ j \in 2..m-1)
      BY <1>1
    <3>2. QED BY <1>1, <1>3, <1>4, <1>6, <3>1
  <2>4. QED BY <2>1, <2>2, <2>3
<1>8. LineLength = m /\ Len(Line) = m - 1 /\ \A j \in 1..m-1 : Line[j] = R[j]
  BY <1>4, <1>5, <1>6, <1>7, FirstLine
<1>9. Line[1] = Framing(r)
  BY <1>1, <1>6, <1>8
<1>10. ASSUME NEW i \in 2..m-1 PROVE Line[i] = Field
  <2>1. i \in 1..m-1 /\ i \in 1..m
    BY <1>1
  <2>2. QED BY <1>1, <1>6, <1>8, <2>1
<1>11. DOMAIN Line = 1..m-1
  <2>1. Line \in Seq(Tokens)
    BY <1>4, LineTypes
  <2>2. QED BY <1>8, <2>1
<1>12. m - 1 = r.fields + 1
  BY <1>1 DEF m
<1>13. QED BY <1>6, <1>8, <1>9, <1>10, <1>11, <1>12 DEF m, R, B

(* What a step of parse_request makes of r: it goes on, it is refused for  *)
(* what it is, or it is answered as it was meant.                          *)
Outcome(r) ==
  \/ parsed' = parsed /\ Underway(r)'
  \/ parsed' = Append(parsed, Meant(r)) /\ (firm = Len(sent) => Over(r.trailer)')

LEMMA RefusedFor ==
  ASSUME NEW r, Abort(400), r.kind \in {"invalid", "junk", "overrun"}
  PROVE  Outcome(r)
BY DEF Abort, Reject, Outcome, Underway, Deserved

LEMMA RefusedAsTooLong ==
  ASSUME NEW r, Abort(413), BodySize(r.sizes) > MaxBody
  PROVE  Outcome(r)
<1>1. mode' = "refused" /\ status' = 413 /\ parsed' = parsed
  BY DEF Abort, Reject
<1>2. Deserved(r)'
  BY <1>1 DEF Deserved
<1>3. QED BY <1>1, <1>2 DEF Outcome, Underway

(* The request is complete, and all that was sent of it is taken.          *)
LEMMA Answered ==
  ASSUME ReaderInv, mode \in Reading, UNCHANGED <<sender, wire>>, NEW n \in Nat, n <= Len(buffer), buffer' = Rest(n),
         NEW r \in Requests, Done(Meant(r)), NEW R \in Seq(Tokens), Fits(R), Len(R) = n
  PROVE  Outcome(r)
<1>1. /\ mode' = "serve" /\ status' = 0 /\ parsed' = Append(parsed, Meant(r))
      /\ firm' = firm /\ sent' = sent /\ wire' = wire /\ ReaderTypes
  BY ReadingHasNoStatus DEF Done, sender, ReaderInv
<1>2. Behind(Under, n, Under')
  BY <1>1, Taken
<1>3. firm = Len(sent) => Len(Under') = 0
  BY <1>2 DEF Fits, Fit, Behind
<1>4. firm = Len(sent) => Over(r.trailer)'
  BY <1>1, <1>3 DEF Over
<1>5. QED BY <1>1, <1>4 DEF Outcome

LEMMA HeadRead ==
  ASSUME ReaderInv, ParseHead, NEW r \in Requests, Fits(Stream(r))
  PROVE  Outcome(r)
<1>1. /\ mode = "head" /\ Complete /\ buffer' = Rest(LineLength) /\ UNCHANGED <<sender, wire, timing>>
      /\ ReaderTypes /\ mode \in Lines /\ mode \in Reading
  BY DEF ParseHead, ReaderInv, Lines, Reading
<1>2. LineLength \in Nat /\ LineLength <= Len(buffer)
  BY <1>1, LineTypes DEF ReaderTypes
<1>3. /\ LineLength = r.fields + 2 /\ Line[1] = Framing(r) /\ DOMAIN Line = 1..r.fields+1
      /\ \A i \in 2..r.fields+1 : Line[i] = Field
      /\ Behind(Stream(r), LineLength, BodyStream(r))
  BY <1>1, HeadLine
<1>4. /\ r.kind \in {"length", "chunked", "invalid", "junk", "overrun"} /\ r.fields \in Nat
      /\ r.kind \in {"length", "overrun"} => Len(r.sizes) = 1 /\ r.sizes[1] \in Nat
      /\ r.sizes \in Seq(Nat)
  BY RequestTypes
<1> DEFINE starts == {i \in DOMAIN Line : Line[i][1] \in {"length", "chunked"}}
<1>5. starts \subseteq {1}
  <2>1. \A i \in 2..r.fields+1 : Line[i][1] = "field"
    BY <1>3 DEF Field, Token
  <2>2. QED BY <1>3, <1>4, <2>1
<1>6. 1 \in DOMAIN Line
  BY <1>3, <1>4
<1>7. \/ 1 \in starts /\ BodyOf(Line[1], Line[1][1])
      \/ 1 \notin starts /\ Abort(400)
  BY <1>5 DEF ParseHead
<1>8. CASE r.kind = "invalid"
  <2>1. Line[1][1] = "invalid"
    BY <1>3, <1>8 DEF Framing, Token
  <2>2. 1 \notin starts
    BY <2>1
  <2>3. QED BY <1>7, <1>8, <2>2, RefusedFor
<1>9. CASE r.kind = "length"
  <2> DEFINE n == r.sizes[1]
  <2>1. Line[1] = <<"length", n>> /\ n \in Nat /\ Len(r.sizes) = 1
    BY <1>3, <1>4, <1>9 DEF Framing, Token
  <2>2. Line[1][1] = "length" /\ Line[1][2] = n
    BY <2>1
  <2>3. BodyOf(Line[1], "length")
    BY <1>6, <1>7, <2>2
  <2>4. BodySize(r.sizes) = n
    BY <2>1, Sums
  <2>5. BodyStream(r) = Many(Byte, n)
    BY <1>9 DEF BodyStream
  <2>6. r.sizes = <<n>>
    BY <1>4, <2>1
  <2> HIDE DEF n
  <2>7. CASE n = 0 /\ Done([kind |-> "length", sizes |-> <<0>>, total |-> 0])
    <3>1. Meant(r) = [kind |-> "length", sizes |-> <<0>>, total |-> 0]
      BY <1>9, <2>4, <2>6, <2>7 DEF Meant
    <3>2. BodyStream(r) \in Seq(Tokens) /\ Len(BodyStream(r)) = 0
      BY <2>1, <2>5, <2>7, TokenTypes, ManyTypes
    <3>3. Stream(r) \in Seq(Tokens) /\ Len(Stream(r)) = LineLength
      BY <1>3, <3>2 DEF Behind
    <3>4. Done(Meant(r))
      BY <2>7, <3>1
    <3>5. QED BY <1>1, <1>2, <3>3, <3>4, Answered
  <2>8. CASE n > MaxBody /\ Abort(413)
    BY <2>4, <2>8, RefusedAsTooLong
  <2>9. CASE n \in 1..MaxBody /\ Expect("body", n) /\ got' = [Nothing EXCEPT !.kind = "length"]
    <3>1. mode' = "body" /\ need' = n /\ parsed' = parsed /\ got'.kind = "length"
      BY <2>9 DEF Expect, result, Nothing
    <3>2. Behind(Stream(r), LineLength, Many(Byte, n))
      BY <1>3, <2>5
    <3>3. Fits(Many(Byte, n))'
      <4> DEFINE R == Stream(r)
                 Q == Many(Byte, n)
                 k == LineLength
      <4>1. Behind(R, k, Q) /\ Fits(R) /\ k \in Nat /\ k <= Len(buffer) /\ buffer' = Rest(k)
        BY <1>1, <1>2, <3>2
      <4> HIDE DEF R, Q, k
      <4>2. Fits(Q)'
        BY <1>1, <4>1, FitsOn
      <4>3. QED BY <4>2 DEF Q
    <3>4. need' = r.sizes[1] /\ r.kind = "length"
      BY <1>9, <3>1 DEF n
    <3>5. Fits(Many(Byte, need))'
      BY <3>1, <3>3 DEF Fits
    <3>6. QED BY <3>1, <3>4, <3>5 DEF Outcome, Underway
  <2>10. QED
    <3>1. "length" # "chunked"
      OBVIOUS
    <3>2. QED BY <2>2, <2>3, <2>7, <2>8, <2>9, <3>1 DEF BodyOf
<1>10. CASE r.kind \in {"chunked", "junk", "overrun"}
  <2>1. Line[1] = <<"chunked", 0>>
    BY <1>3, <1>10 DEF Framing, Token
  <2>2. Line[1][1] = "chunked"
    BY <2>1
  <2>3. BodyOf(Line[1], "chunked")
    BY <1>6, <1>7, <2>2
  <2>4. mode' = "size" /\ parsed' = parsed /\ got' = [kind |-> "chunked", sizes |-> <<>>, total |-> 0]
    BY <2>2, <2>3 DEF BodyOf, Expect, result, Nothing
  <2>5. Fits(BodyStream(r))'
    <3> DEFINE R == Stream(r)
               Q == BodyStream(r)
               k == LineLength
    <3>1. Behind(R, k, Q) /\ Fits(R) /\ k \in Nat /\ k <= Len(buffer) /\ buffer' = Rest(k)
      BY <1>1, <1>2, <1>3
    <3> HIDE DEF R, Q, k
    <3>2. Fits(Q)'
      BY <1>1, <3>1, FitsOn
    <3>3. QED BY <3>2 DEF Q
  <2>6. CASE r.kind \in {"junk", "overrun"}
    BY <2>4, <2>5, <2>6 DEF Outcome, Underway
  <2>7. CASE r.kind = "chunked"
    <3>1. got'.kind = "chunked" /\ got'.sizes = <<>> /\ got'.total = 0 /\ Len(got'.sizes) = 0
      BY <2>4
    <3>2. 1 \in 1..Len(r.sizes)+1 /\ 0 <= Len(r.sizes) /\ 0 + SumFrom(r.sizes)[1] = BodySize(r.sizes)
      <4>1. Len(r.sizes) \in Nat
        BY <1>4
      <4>2. SumFrom(r.sizes)[1] \in Nat /\ BodySize(r.sizes) = SumFrom(r.sizes)[1]
        BY <4>1, Sums
      <4>3. QED BY <4>1, <4>2
    <3>3. Counted(r, 1)'
      BY <3>1, <3>2 DEF Counted
    <3>4. Len(got'.sizes) + 1 = 1
      BY <3>1
    <3>5. Counted(r, Len(got.sizes) + 1)'
      BY <3>3, <3>4 DEF Counted
    <3>6. BodyStream(r) = ChunksFrom(r)[1]
      BY <2>7 DEF BodyStream
    <3>7. Fits(ChunksFrom(r)[Len(got.sizes) + 1])'
      BY <2>5, <3>4, <3>6 DEF Fits
    <3>8. QED BY <2>4, <2>7, <3>5, <3>7 DEF Outcome, Underway
  <2>8. QED BY <1>10, <2>6, <2>7
<1>11. QED BY <1>4, <1>8, <1>9, <1>10

LEMMA BodyRead ==
  ASSUME ReaderInv, ReadBody, NEW r \in Requests, r.kind = "length", got.kind = "length",
         need = r.sizes[1], Fits(Many(Byte, need))
  PROVE  Outcome(r)
<1>1. /\ mode = "body" /\ Complete /\ buffer' = Rest(need) /\ UNCHANGED <<sender, wire, got, timing>>
      /\ Done([got EXCEPT !.sizes = <<need>>, !.total = need])
  BY DEF ReadBody
<1>2. mode \in Reading /\ need \in Nat /\ need <= Len(buffer) /\ got \in RequestRead
  <2>1. mode \in Reading /\ mode \notin Lines
    BY <1>1 DEF Reading, Lines
  <2>2. need \in Nat /\ got \in RequestRead
    BY DEF ReaderInv, ReaderTypes
  <2>3. QED BY <1>1, <2>1, <2>2 DEF ReaderInv, ReaderTypes, Complete
<1>3. Len(r.sizes) = 1 /\ r.sizes \in Seq(Nat)
  BY RequestTypes
<1>4. r.sizes = <<need>> /\ BodySize(r.sizes) = need
  BY <1>3, Sums
<1>5. [got EXCEPT !.sizes = <<need>>, !.total = need] = Meant(r)
  <2> DEFINE s == <<need>>
             b == [got EXCEPT !.sizes = s]
             c == [b EXCEPT !.total = need]
  <2>1. [got EXCEPT !.sizes = <<need>>, !.total = need] = c
    OBVIOUS
  <2>2. s \in Seq(Nat)
    BY <1>2
  <2> HIDE DEF s
  <2>3. b \in RequestRead /\ b.kind = got.kind /\ b.sizes = s
    BY <1>2, <2>2, SizesChanged
  <2> HIDE DEF b
  <2>4. c \in RequestRead /\ c.kind = b.kind /\ c.sizes = b.sizes /\ c.total = need
    BY <1>2, <2>3, TotalChanged
  <2> HIDE DEF c
  <2>5. c = [kind |-> c.kind, sizes |-> c.sizes, total |-> c.total]
    BY <2>4 DEF RequestRead
  <2>6. c = Meant(r)
    BY <1>4, <2>3, <2>4, <2>5 DEF Meant, s
  <2>7. QED BY <2>1, <2>6
<1>6. Many(Byte, need) \in Seq(Tokens) /\ Len(Many(Byte, need)) = need
  BY <1>2, TokenTypes, ManyTypes
<1>7. Done(Meant(r))
  BY <1>1, <1>5
<1>8. QED BY <1>1, <1>2, <1>6, <1>7, Answered

(* A line with the size of a chunk.                                        *)
LEMMA SizeLine ==
  ASSUME ReaderTypes, mode = "size", Complete, NEW n \in Nat, NEW Q \in Seq(Tokens), NEW R,
         R = <<Token("size", n), LineEnd>> \o Q, Fits(R)
  PROVE  LineLength = 2 /\ Size = n /\ Behind(R, LineLength, Q)
<1> DEFINE a == <<Token("size", n), LineEnd>>
<1>1. a \in Seq(Tokens) /\ Len(a) = 2 /\ a[1] = Token("size", n) /\ a[2] = LineEnd /\ LineEnd # Token("size", n)
  <2>1. Token("size", n) \in Tokens /\ LineEnd \in Tokens
    BY TokenTypes DEF Kinds
  <2>2. LineEnd # Token("size", n)
    BY DEF LineEnd, Token
  <2>3. QED BY <2>1, <2>2
<1> HIDE DEF a
<1>2. /\ R \in Seq(Tokens) /\ Len(R) = 2 + Len(Q) /\ Len(Q) \in Nat
      /\ R[1] = Token("size", n) /\ R[2] = LineEnd /\ Behind(R, 2, Q)
  <2>1. R = a \o Q
    BY DEF a
  <2>2. a \o Q \in Seq(Tokens) /\ Len(a \o Q) = Len(a) + Len(Q) /\ \A i \in 1..Len(a) : (a \o Q)[i] = a[i]
    BY <1>1, Joins
  <2>3. Behind(a \o Q, Len(a), Q)
    BY <1>1, BehindJoin
  <2>4. R \in Seq(Tokens) /\ Len(R) = 2 + Len(Q) /\ Len(Q) \in Nat
    BY <1>1, <2>1, <2>2
  <2>5. R[1] = Token("size", n) /\ R[2] = LineEnd
    <3>1. 1 \in 1..Len(a) /\ 2 \in 1..Len(a)
      BY <1>1
    <3>2. QED BY <1>1, <2>1, <2>2, <3>1
  <2>6. Behind(R, 2, Q)
    BY <1>1, <2>1, <2>3
  <2>7. QED BY <2>4, <2>5, <2>6
<1>3. mode \in Lines /\ Marker = LineEnd
  BY DEF Lines, Marker
<1>4. 2 \in 1..Len(R) /\ R[2] = Marker /\ \A j \in 1..2-1 : R[j] # Marker
  BY <1>1, <1>2, <1>3
<1>5. LineLength = 2 /\ Len(Line) = 2 - 1 /\ \A j \in 1..2-1 : Line[j] = R[j]
  <2> DEFINE m == 2
  <2>1. m \in 1..Len(R) /\ R[m] = Marker /\ \A j \in 1..m-1 : R[j] # Marker
    BY <1>4
  <2> HIDE DEF m
  <2>2. LineLength = m /\ Len(Line) = m - 1 /\ \A j \in 1..m-1 : Line[j] = R[j]
    BY <1>2, <1>3, <2>1, FirstLine
  <2>3. QED BY <2>2 DEF m
<1>6. Len(Line) = 1 /\ Line[1] = <<"size", n>>
  BY <1>2, <1>5 DEF Token
<1>7. Size = n
  BY <1>6 DEF Size
<1>8. QED BY <1>2, <1>5, <1>7

(* What a step that reads a size has in common.                            *)
LEMMA SizeStep ==
  ASSUME ReaderInv, ReadSize
  PROVE  /\ mode = "size" /\ Complete /\ buffer' = Rest(LineLength) /\ UNCHANGED <<sender, wire, timing>>
         /\ ReaderTypes /\ mode \in Lines /\ mode \in Reading /\ got \in RequestRead
         /\ LineLength \in Nat /\ LineLength <= Len(buffer)
<1>1. mode = "size" /\ Complete /\ buffer' = Rest(LineLength) /\ UNCHANGED <<sender, wire, timing>>
  BY DEF ReadSize
<1>2. ReaderTypes /\ mode \in Lines /\ mode \in Reading /\ got \in RequestRead
  BY <1>1 DEF ReaderInv, ReaderTypes, Reading, Lines
<1>3. LineLength \in Nat /\ LineLength <= Len(buffer)
  BY <1>1, <1>2, LineTypes DEF ReaderTypes
<1>4. QED BY <1>1, <1>2, <1>3

LEMMA JunkRead ==
  ASSUME ReaderInv, ReadSize, NEW r \in Requests, r.kind = "junk", Fits(BodyStream(r))
  PROVE  Outcome(r)
<1>1. /\ mode = "size" /\ Complete /\ ReaderTypes /\ mode \in Lines
  BY SizeStep
<1> DEFINE R == BodyStream(r)
           n == r.fields + 4
<1>2. R \in Seq(Tokens) /\ R[1] = Field /\ Len(R) >= 1
  <2>1. n \in Nat /\ n >= 4
    BY RequestTypes
  <2>2. R = Many(Field, n) \o <<LineEnd>>
    BY DEF BodyStream
  <2> HIDE DEF R, n
  <2> DEFINE a == Many(Field, n)
             b == <<LineEnd>>
  <2>3. a \in Seq(Tokens) /\ Len(a) = n /\ a[1] = Field /\ b \in Seq(Tokens) /\ Len(b) = 1
    BY <2>1, TokenTypes, ManyTypes
  <2> HIDE DEF a, b
  <2>4. a \o b \in Seq(Tokens) /\ Len(a \o b) = Len(a) + Len(b) /\ \A i \in 1..Len(a) : (a \o b)[i] = a[i]
    BY <2>3, Joins
  <2>5. QED BY <2>1, <2>2, <2>3, <2>4 DEF a, b
<1>3. Fits(R)
  OBVIOUS
<1> HIDE DEF R, n
<1>4. Size = -1
  <2>1. CASE Len(Line) = 1
    <3>1. /\ LineLength \in 1..Len(buffer) /\ Len(Line) = LineLength - 1
          /\ \A j \in 1..LineLength-1 : Line[j] = buffer[j]
      BY <1>1, LineTypes
    <3>2. 1 \in 1..Len(buffer) /\ 1 \in 1..LineLength-1
      <4>1. Len(buffer) \in Nat
        BY <1>1 DEF ReaderTypes
      <4>2. LineLength \in 1..Len(buffer) /\ LineLength - 1 = 1
        BY <2>1, <3>1
      <4>3. QED BY <4>1, <4>2
    <3>3. buffer[1] = R[1]
      BY <1>1, <1>2, <1>3, <3>2, BufferedIs
    <3>4. Line[1][1] = "field"
      BY <1>2, <3>1, <3>2, <3>3 DEF Field, Token
    <3>5. QED BY <3>4 DEF Size
  <2>2. CASE Len(Line) # 1
    BY <2>2 DEF Size
  <2>3. QED BY <2>1, <2>2
<1>5. Abort(400)
  BY <1>4 DEF ReadSize
<1>6. QED BY <1>5, RefusedFor

(* The size of a chunk, not the last.                                      *)
LEMMA SizeCounted ==
  ASSUME ReaderInv, ReadSize, NEW n \in Nat, Size = n, n > 0, NEW r \in Requests,
         got.total + n <= BodySize(r.sizes)
  PROVE  \/ Outcome(r)
         \/ /\ mode' = "chunk" /\ need' = n /\ parsed' = parsed
            /\ got'.kind = got.kind /\ got'.sizes = got.sizes /\ got'.total = got.total + n
<1>1. got \in RequestRead /\ got.total \in Nat
  <2>1. got \in RequestRead
    BY SizeStep
  <2>2. QED BY <2>1, GotTypes
<1>2. Grow
  BY DEF ReadSize
<1> DEFINE t == got.total + n
<1>3. t \in Nat /\ got' = [got EXCEPT !.total = t]
  BY <1>1, <1>2 DEF Grow
<1>4. t <= BodySize(r.sizes)
  OBVIOUS
<1>5. (t > MaxBody /\ Abort(413)) \/ (t <= MaxBody /\ Expect("chunk", n))
  <2>1. IF got'.total > MaxBody THEN Abort(413) ELSE Expect("chunk", n)
    BY <1>2 DEF Grow
  <2>2. got'.total = t
    <3> HIDE DEF t
    <3>1. QED BY <1>1, <1>3, TotalChanged
  <2> HIDE DEF t
  <2>3. QED BY <1>3, <2>1, <2>2, Constants
<1>6. got'.kind = got.kind /\ got'.sizes = got.sizes /\ got'.total = t
  <2> HIDE DEF t
  <2>1. QED BY <1>1, <1>3, TotalChanged
<1>7. CASE t > MaxBody /\ Abort(413)
  <2>1. BodySize(r.sizes) \in Nat
    <3>1. Len(r.sizes) \in Nat
      BY RequestTypes
    <3>2. 1 \in 1..Len(r.sizes)+1
      BY <3>1
    <3>3. SumFrom(r.sizes)[1] \in Nat /\ BodySize(r.sizes) = SumFrom(r.sizes)[1]
      BY <3>2, Sums
    <3>4. QED BY <3>3
  <2>2. BodySize(r.sizes) > MaxBody
    BY <1>3, <1>4, <1>7, <2>1, Constants
  <2>3. QED BY <1>7, <2>2, RefusedAsTooLong
<1>8. CASE t <= MaxBody /\ Expect("chunk", n)
  BY <1>6, <1>8 DEF Expect, result
<1>9. QED BY <1>5, <1>7, <1>8

LEMMA OverrunSizeRead ==
  ASSUME ReaderInv, ReadSize, NEW r \in Requests, r.kind = "overrun",
         got = [kind |-> "chunked", sizes |-> <<>>, total |-> 0], Fits(BodyStream(r))
  PROVE  Outcome(r)
<1> DEFINE n == r.sizes[1]
           R == BodyStream(r)
           Q == Many(Byte, n + 1)
<1>1. n \in Nat /\ n > 0 /\ BodySize(r.sizes) = n
  <2>1. n \in Nat /\ Len(r.sizes) = 1
    BY RequestTypes
  <2>2. n > 0
    BY <2>1, RequestTypes
  <2>3. QED BY <2>1, <2>2, Sums
<1>2. R = <<Token("size", n), LineEnd>> \o Q
  BY DEF BodyStream
<1>3. Q \in Seq(Tokens) /\ Fits(R)
  <2>1. n + 1 \in Nat
    BY <1>1
  <2>2. QED BY <2>1, TokenTypes, ManyTypes
<1> HIDE DEF R, Q, n
<1>4. /\ mode = "size" /\ Complete /\ buffer' = Rest(LineLength) /\ UNCHANGED <<sender, wire, timing>>
      /\ ReaderTypes /\ LineLength \in Nat /\ LineLength <= Len(buffer)
  BY SizeStep
<1>5. Size = n /\ Behind(R, LineLength, Q)
  BY <1>1, <1>2, <1>3, <1>4, SizeLine
<1>6. got.total + n <= BodySize(r.sizes)
  BY <1>1
<1>7. CASE /\ mode' = "chunk" /\ need' = n /\ parsed' = parsed
  <2>1. Fits(Q)'
    <3> DEFINE k == LineLength
    <3>1. Behind(R, k, Q) /\ k \in Nat /\ k <= Len(buffer) /\ buffer' = Rest(k)
      BY <1>4, <1>5
    <3> HIDE DEF k
    <3>2. QED BY <1>3, <1>4, <3>1, FitsOn
  <2>2. Fits(Many(Byte, need + 1))'
    BY <1>7, <2>1 DEF Fits, Q
  <2>3. QED BY <1>7, <2>2 DEF Outcome, Underway
<1>8. QED BY <1>1, <1>5, <1>6, <1>7, SizeCounted

LEMMA SameSizes ==
  ASSUME NEW a \in Seq(Nat), NEW b \in Seq(Nat), Len(a) = Len(b), \A i \in 1..Len(a) : a[i] = b[i]
  PROVE  a = b
BY SMTT(30)

LEMMA ChunkSizeRead ==
  ASSUME ReaderInv, ReadSize, NEW r \in Requests, r.kind = "chunked",
         NEW i, i = Len(got.sizes) + 1, Counted(r, i), Fits(ChunksFrom(r)[i])
  PROVE  Outcome(r)
<1> DEFINE s == r.sizes
           R == ChunksFrom(r)[i]
<1>1. /\ mode = "size" /\ Complete /\ buffer' = Rest(LineLength) /\ UNCHANGED <<sender, wire, timing>>
      /\ ReaderTypes /\ mode \in Reading /\ got \in RequestRead /\ LineLength \in Nat /\ LineLength <= Len(buffer)
  BY SizeStep
<1>2. got.sizes \in Seq(Nat) /\ got.total \in Nat /\ got = [kind |-> got.kind, sizes |-> got.sizes, total |-> got.total]
  BY <1>1, GotTypes
<1>3. s \in Seq(Nat) /\ Len(s) \in Nat /\ i \in Nat /\ i >= 1
  BY <1>2, RequestTypes
<1>4. /\ got.kind = "chunked" /\ i \in 1..Len(s)+1 /\ Len(got.sizes) <= Len(s)
      /\ \A j \in 1..Len(got.sizes) : got.sizes[j] = s[j]
      /\ got.total + SumFrom(s)[i] = BodySize(s)
  BY DEF Counted
<1>5. Fits(R)
  OBVIOUS
<1>6. CASE i = Len(s) + 1
  <2> DEFINE Q == Ending(r)
  <2>1. R = <<Token("size", 0), LineEnd>> \o Q
    BY <1>6, Chunks
  <2>2. Q \in Seq(Tokens)
    BY EndingTypes
  <2> HIDE DEF R, Q
  <2>3. Size = 0 /\ Behind(R, LineLength, Q)
    <3> DEFINE n == 0
    <3>1. n \in Nat /\ R = <<Token("size", n), LineEnd>> \o Q
      BY <2>1
    <3> HIDE DEF n
    <3>2. Size = n /\ Behind(R, LineLength, Q)
      BY <1>1, <1>5, <2>2, <3>1, SizeLine
    <3>3. QED BY <3>2 DEF n
  <2>4. mode' = "last" /\ parsed' = parsed /\ got' = got
    BY <2>3 DEF ReadSize, Expect, result
  <2>5. got.sizes = s
    <3> DEFINE g == got.sizes
    <3>1. g \in Seq(Nat) /\ Len(g) = Len(s) /\ \A j \in 1..Len(g) : g[j] = s[j]
      BY <1>2, <1>3, <1>4, <1>6
    <3>2. s \in Seq(Nat)
      BY <1>3
    <3>3. g = s
      <4> HIDE DEF g, s
      <4>1. QED BY <3>1, <3>2, SameSizes
    <3>4. QED BY <3>3 DEF g
  <2>6. got.total = BodySize(s)
    <3>1. SumFrom(s)[i] = 0
      BY <1>6, Sums
    <3>2. QED BY <1>2, <1>4, <3>1
  <2>7. got = Meant(r)
    BY <1>2, <1>4, <2>5, <2>6 DEF Meant
  <2>8. (got = Meant(r))'
    BY <2>4, <2>7
  <2>9. Fits(Q)'
    <3> DEFINE k == LineLength
    <3>1. Behind(R, k, Q) /\ k \in Nat /\ k <= Len(buffer) /\ buffer' = Rest(k)
      BY <1>1, <2>3
    <3> HIDE DEF k
    <3>2. QED BY <1>1, <1>5, <3>1, FitsOn
  <2>10. QED BY <2>4, <2>8, <2>9 DEF Outcome, Underway, Q
<1>7. CASE i # Len(s) + 1
  <2> DEFINE n == s[i]
             C == ChunksFrom(r)[i + 1]
             Q == Many(Byte, n) \o (<<LineEnd>> \o C)
  <2>1. i \in 1..Len(s) /\ i + 1 \in 1..Len(s)+1
    BY <1>3, <1>4, <1>7
  <2>2. n \in Nat /\ n > 0
    BY <2>1, RequestTypes
  <2>3. C \in Seq(Tokens)
    BY <2>1, Chunks
  <2>4. R = <<Token("size", n), LineEnd>> \o Q /\ Q \in Seq(Tokens)
    <3> DEFINE a == <<Token("size", n), LineEnd>>
               b == Many(Byte, n)
               c == <<LineEnd>>
    <3>1. R = Chunk(n) \o C
      BY <2>1, Chunks
    <3> HIDE DEF n
    <3>2. Chunk(n) = a \o (b \o c)
      BY <2>2, ChunkTypes
    <3>3. a \in Seq(Tokens) /\ b \in Seq(Tokens) /\ c \in Seq(Tokens)
      <4>1. Token("size", n) \in Tokens /\ LineEnd \in Tokens
        BY <2>2, TokenTypes DEF Kinds
      <4>2. QED BY <2>2, <4>1, TokenTypes, ManyTypes
    <3> HIDE DEF a, b, c, C, R
    <3>4. (a \o (b \o c)) \o C = a \o (b \o (c \o C)) /\ b \o (c \o C) \in Seq(Tokens)
      <4>1. b \o c \in Seq(Tokens) /\ c \o C \in Seq(Tokens)
        BY <2>3, <3>3
      <4>2. (a \o (b \o c)) \o C = a \o ((b \o c) \o C)
        <5> DEFINE d == b \o c
        <5>1. d \in Seq(Tokens)
          BY <4>1
        <5> HIDE DEF d
        <5>2. a \in Seq(Tokens)
          BY <3>3
        <5>3. (a \o d) \o C = a \o (d \o C) /\ a \o d \in Seq(Tokens) /\ d \o C \in Seq(Tokens)
          BY ZenonT(40), Assoc, <2>3, <5>1, <5>2
        <5>4. QED BY <5>3 DEF d
      <4>3. (b \o c) \o C = b \o (c \o C)
        BY SMTT(30), <2>3, <3>3
      <4>4. b \o (c \o C) \in Seq(Tokens)
        BY <3>3, <4>1
      <4>5. QED BY <4>2, <4>3, <4>4
    <3>5. QED BY <3>1, <3>2, <3>4 DEF a, b, c
  <2>5. SumFrom(s)[i] = n + SumFrom(s)[i + 1] /\ SumFrom(s)[i + 1] \in Nat
    BY <2>1, Sums
  <2>6. got.total + n <= BodySize(s) /\ (got.total + n) + SumFrom(s)[i + 1] = BodySize(s)
    <3> DEFINE u == SumFrom(s)[i + 1]
    <3>1. got.total + (n + u) = BodySize(s) /\ u \in Nat
      BY <1>4, <2>5
    <3> HIDE DEF u, n
    <3>2. got.total + n <= BodySize(s) /\ (got.total + n) + u = BodySize(s)
      BY <1>2, <2>2, <3>1
    <3>3. QED BY <3>2 DEF u
  <2> HIDE DEF R, Q, C, n
  <2>7. Size = n /\ Behind(R, LineLength, Q)
    BY <1>1, <1>5, <2>2, <2>4, SizeLine
  <2>8. CASE /\ mode' = "chunk" /\ need' = n /\ parsed' = parsed
             /\ got'.kind = got.kind /\ got'.sizes = got.sizes /\ got'.total = got.total + n
    <3>1. Fits(Q)'
      <4> DEFINE k == LineLength
      <4>1. Behind(R, k, Q) /\ k \in Nat /\ k <= Len(buffer) /\ buffer' = Rest(k)
        BY <1>1, <2>7
      <4> HIDE DEF k
      <4>2. QED BY <1>1, <1>5, <4>1, FitsOn
    <3>2. Len(got'.sizes) + 1 = i /\ Len(got'.sizes) + 2 = i + 1
      BY <1>2, <2>8
    <3>3. need' = r.sizes[Len(got'.sizes) + 1]
      BY <2>8, <3>2 DEF n
    <3>4. Counted(r, Len(got.sizes) + 2)'
      <4>1. /\ got'.kind = "chunked" /\ i + 1 \in 1..Len(s)+1 /\ Len(got'.sizes) <= Len(s)
            /\ \A j \in 1..Len(got'.sizes) : got'.sizes[j] = s[j]
            /\ got'.total + SumFrom(s)[i + 1] = BodySize(s)
        BY <1>4, <2>1, <2>6, <2>8
      <4>2. QED BY <3>2, <4>1 DEF Counted
    <3>5. Fits(Many(Byte, need) \o (<<LineEnd>> \o ChunksFrom(r)[Len(got.sizes) + 2]))'
      <4>1. (Many(Byte, need) \o (<<LineEnd>> \o ChunksFrom(r)[Len(got.sizes) + 2]))' = Q
        BY <2>8, <3>2 DEF Q, C
      <4>2. QED BY <3>1, <4>1 DEF Fits
    <3>6. QED BY <2>8, <3>3, <3>4, <3>5 DEF Outcome, Underway
  <2>9. QED BY <2>2, <2>6, <2>7, <2>8, SizeCounted
<1>8. QED BY <1>6, <1>7

LEMMA Appended ==
  ASSUME NEW a \in Seq(Nat), NEW n \in Nat, NEW b, b = Append(a, n)
  PROVE  /\ Len(b) = Len(a) + 1 /\ Len(a) \in Nat /\ b[Len(a) + 1] = n
         /\ \A i \in 1..Len(a) : b[i] = a[i]
OBVIOUS

LEMMA ChunkStep ==
  ASSUME ReaderInv, ReadChunk
  PROVE  /\ buffer' = Rest(need) /\ UNCHANGED <<sender, wire, timing>> /\ ReaderTypes
         /\ need \in Nat /\ need <= Len(buffer) /\ mode' = "end of chunk" /\ parsed' = parsed
         /\ got \in RequestRead /\ got.sizes \in Seq(Nat)
         /\ got'.kind = got.kind /\ got'.total = got.total /\ got'.sizes = Append(got.sizes, need)
<1>1. /\ mode = "chunk" /\ Complete /\ buffer' = Rest(need) /\ UNCHANGED <<sender, wire, timing>>
      /\ mode' = "end of chunk" /\ parsed' = parsed
      /\ got' = [got EXCEPT !.sizes = Append(got.sizes, need)]
  BY DEF ReadChunk, Expect, result
<1>2. ReaderTypes /\ need \in Nat /\ got \in RequestRead
  BY DEF ReaderInv, ReaderTypes
<1>3. need <= Len(buffer)
  BY ZenonT(40), <1>1, <1>2 DEF Complete, Lines, ReaderTypes
<1>4. got.sizes \in Seq(Nat)
  BY <1>2, GotTypes
<1> DEFINE s == Append(got.sizes, need)
<1>5. s \in Seq(Nat) /\ got' = [got EXCEPT !.sizes = s]
  <2>1. s \in Seq(Nat)
    BY <1>2, <1>4
  <2>2. got' = [got EXCEPT !.sizes = s]
    BY <1>1
  <2>3. QED BY <2>1, <2>2
<1> HIDE DEF s
<1>6. got'.kind = got.kind /\ got'.total = got.total /\ got'.sizes = s
  BY <1>2, <1>5, SizesChanged
<1>7. QED BY <1>1, <1>2, <1>3, <1>4, <1>6 DEF s

LEMMA ChunkRead ==
  ASSUME ReaderInv, ReadChunk, NEW r \in Requests, r.kind = "chunked",
         NEW i, i = Len(got.sizes) + 1, Counted(r, i + 1), need = r.sizes[i],
         Fits(Many(Byte, need) \o (<<LineEnd>> \o ChunksFrom(r)[i + 1]))
  PROVE  Outcome(r)
<1> DEFINE s == r.sizes
           n == s[i]
           b == Many(Byte, n)
           D == <<LineEnd>> \o ChunksFrom(r)[i + 1]
           R == b \o D
<1>1. /\ buffer' = Rest(need) /\ UNCHANGED <<sender, wire, timing>> /\ ReaderTypes
      /\ need \in Nat /\ need <= Len(buffer) /\ mode' = "end of chunk" /\ parsed' = parsed
      /\ got \in RequestRead /\ got.sizes \in Seq(Nat)
      /\ got'.kind = got.kind /\ got'.total = got.total /\ got'.sizes = Append(got.sizes, need)
  BY ChunkStep
<1>2. s \in Seq(Nat) /\ Len(s) \in Nat /\ i \in Nat /\ i >= 1
  <2>1. s \in Seq(Nat) /\ Len(s) \in Nat
    BY RequestTypes
  <2>2. got.sizes \in Seq(Nat)
    BY <1>1
  <2>3. Len(got.sizes) \in Nat
    BY <2>2
  <2>4. QED BY <2>1, <2>3
<1>3. /\ got.kind = "chunked" /\ i + 1 \in 1..Len(s)+1
      /\ \A j \in 1..Len(got.sizes) : got.sizes[j] = s[j]
      /\ got.total + SumFrom(s)[i + 1] = BodySize(s)
  BY DEF Counted
<1>4. D \in Seq(Tokens)
  <2> DEFINE C == ChunksFrom(r)[i + 1]
             c == <<LineEnd>>
  <2>1. C \in Seq(Tokens)
    BY <1>3, Chunks
  <2>2. c \in Seq(Tokens)
    BY TokenTypes
  <2> HIDE DEF C, c
  <2>3. c \o C \in Seq(Tokens)
    BY <2>1, <2>2
  <2>4. QED BY <2>3 DEF C, c
<1>5. need = n /\ n \in Nat /\ n <= Len(buffer) /\ buffer' = Rest(n)
  BY <1>1
<1>6. b \in Seq(Tokens) /\ Len(b) = n
  BY <1>5, TokenTypes, ManyTypes
<1>7. Fits(R)
  OBVIOUS
<1> HIDE DEF D, b, n
<1>8. Behind(R, n, D)
  BY <1>4, <1>6, BehindJoin
<1> HIDE DEF R
<1>9. Fits(D)'
  BY <1>1, <1>5, <1>7, <1>8, FitsOn
<1>10. /\ Len(got'.sizes) = i /\ i <= Len(s) /\ \A j \in 1..Len(got'.sizes) : got'.sizes[j] = s[j]
  <2>1. /\ Len(got'.sizes) = Len(got.sizes) + 1 /\ Len(got.sizes) \in Nat /\ got'.sizes[Len(got.sizes) + 1] = need
        /\ \A j \in 1..Len(got.sizes) : got'.sizes[j] = got.sizes[j]
    <3> DEFINE g == got'.sizes
               f == got.sizes
    <3>1. g = Append(f, need) /\ f \in Seq(Nat) /\ need \in Nat
      BY <1>1
    <3> HIDE DEF f, g
    <3>2. Len(g) = Len(f) + 1 /\ Len(f) \in Nat /\ g[Len(f) + 1] = need /\ \A j \in 1..Len(f) : g[j] = f[j]
      BY <3>1, Appended
    <3>3. QED BY <3>2 DEF f, g
  <2>2. i <= Len(s) /\ Len(got.sizes) = i - 1 /\ Len(got'.sizes) = i
    BY <1>2, <1>3, <2>1
  <2>3. ASSUME NEW j \in 1..i PROVE got'.sizes[j] = s[j]
    <3>1. CASE j = i
      BY <2>1, <3>1
    <3>2. CASE j # i
      <4>1. j \in 1..Len(got.sizes)
        BY <1>2, <2>2, <3>2
      <4>2. QED BY <1>3, <2>1, <4>1
    <3>3. QED BY <3>1, <3>2
  <2>4. QED BY <2>2, <2>3
<1>11. Counted(r, Len(got.sizes) + 1)'
  <2>1. Len(got'.sizes) + 1 = i + 1
    BY <1>10
  <2>2. got'.kind = "chunked" /\ got'.total + SumFrom(s)[i + 1] = BodySize(s)
    BY <1>1, <1>3
  <2>3. QED BY <1>3, <1>10, <2>1, <2>2 DEF Counted
<1>12. Fits(<<LineEnd>> \o ChunksFrom(r)[Len(got.sizes) + 1])'
  <2>1. (<<LineEnd>> \o ChunksFrom(r)[Len(got.sizes) + 1])' = D
    BY <1>10 DEF D
  <2>2. QED BY <1>9, <2>1 DEF Fits
<1>13. QED BY <1>1, <1>11, <1>12 DEF Outcome, Underway

LEMMA OverrunRead ==
  ASSUME ReaderInv, ReadChunk, NEW r \in Requests, r.kind = "overrun",
         NEW n, n = need, Fits(Many(Byte, n + 1))
  PROVE  Outcome(r)
<1> DEFINE R == Many(Byte, n + 1)
           Q == <<Byte>>
<1>1. /\ buffer' = Rest(n) /\ UNCHANGED <<sender, wire, timing>> /\ ReaderTypes
      /\ n \in Nat /\ n <= Len(buffer) /\ mode' = "end of chunk" /\ parsed' = parsed
  BY ChunkStep
<1>2. Behind(R, n, Q)
  <2>0. n \in Nat
    BY <1>1
  <2>1. n + 1 \in Nat /\ n + 1 \in 1..n+1
    BY <2>0
  <2>2. R \in Seq(Tokens) /\ Len(R) = n + 1 /\ R[n + 1] = Byte
    BY <2>1, TokenTypes, ManyTypes
  <2>3. Q \in Seq(Tokens) /\ Len(Q) = 1 /\ Q[1] = Byte
    BY TokenTypes
  <2> HIDE DEF R, Q
  <2>4. \A j \in 1..Len(Q) : Q[j] = R[n + j]
    BY <2>2, <2>3
  <2>5. QED BY <1>1, <2>2, <2>3, <2>4 DEF Behind
<1>3. Fits(R)
  OBVIOUS
<1> HIDE DEF R, Q
<1>4. Fits(Q)'
  BY <1>1, <1>2, <1>3, FitsOn
<1>5. QED BY <1>1, <1>4 DEF Outcome, Underway, Q

LEMMA EndStep ==
  ASSUME ReaderInv, EndOfChunk
  PROVE  /\ UNCHANGED <<sender, wire, got, timing>> /\ ReaderTypes
         /\ 1 <= Len(buffer) /\ Len(buffer) \in Nat /\ buffer' = Rest(1) /\ parsed' = parsed
         /\ IF buffer[1] = LineEnd THEN mode' = "size" ELSE Abort(400)
<1>1. /\ mode = "end of chunk" /\ Complete /\ buffer' = Rest(1) /\ UNCHANGED <<sender, wire, got, timing>>
      /\ IF buffer[1] = LineEnd THEN Expect("size", 0) ELSE Abort(400)
  BY DEF EndOfChunk
<1>2. ReaderTypes /\ need = 1 /\ Len(buffer) \in Nat
  <2>1. need = 1
    BY <1>1 DEF ReaderInv, Bounds, Declared
  <2>2. QED BY <2>1 DEF ReaderInv, ReaderTypes
<1>3. 1 <= Len(buffer)
  BY <1>1, <1>2 DEF Complete, Lines
<1>4. parsed' = parsed
  BY <1>1 DEF Expect, result, Abort
<1>5. QED BY <1>1, <1>2, <1>3, <1>4 DEF Expect

LEMMA ChunkEnded ==
  ASSUME ReaderInv, EndOfChunk, NEW r \in Requests, r.kind = "chunked",
         NEW i, i = Len(got.sizes) + 1, Counted(r, i), Fits(<<LineEnd>> \o ChunksFrom(r)[i])
  PROVE  Outcome(r)
<1> DEFINE a == <<LineEnd>>
           C == ChunksFrom(r)[i]
           R == a \o C
           n == 1
<1>1. /\ UNCHANGED <<sender, wire, got, timing>> /\ ReaderTypes
      /\ 1 <= Len(buffer) /\ Len(buffer) \in Nat /\ buffer' = Rest(n) /\ parsed' = parsed
      /\ IF buffer[1] = LineEnd THEN mode' = "size" ELSE Abort(400)
  BY EndStep
<1>2. C \in Seq(Tokens)
  <2>1. i \in 1..Len(r.sizes)+1
    BY DEF Counted
  <2>2. QED BY <2>1, Chunks
<1>3. a \in Seq(Tokens) /\ Len(a) = n /\ a[1] = LineEnd
  BY TokenTypes
<1>4. Fits(R) /\ n \in Nat /\ n <= Len(buffer)
  BY <1>1
<1>5. 1 \in 1..n
  OBVIOUS
<1> HIDE DEF a, C
<1>6. R \in Seq(Tokens) /\ Len(R) = n + Len(C) /\ R[1] = LineEnd /\ Len(C) \in Nat
  <2>1. R \in Seq(Tokens) /\ Len(R) = Len(a) + Len(C) /\ \A j \in 1..Len(a) : R[j] = a[j]
    BY <1>2, <1>3, Joins
  <2>2. QED BY <1>2, <1>3, <1>5, <2>1
<1>7. Behind(R, n, C)
  <2> HIDE DEF n
  <2>1. Behind(a \o C, Len(a), C)
    BY <1>2, <1>3, BehindJoin
  <2>2. QED BY <1>3, <2>1
<1> HIDE DEF R
<1>8. buffer[1] = LineEnd
  <2>1. 1 \in 1..Len(buffer) /\ 1 <= Len(R)
    BY <1>1, <1>6
  <2>2. buffer[1] = R[1]
    BY <1>1, <1>4, <1>6, <2>1, BufferedIs
  <2>3. QED BY <1>6, <2>2
<1> HIDE DEF n
<1>9. Fits(C)'
  BY <1>1, <1>4, <1>7, FitsOn
<1>10. mode' = "size" /\ got' = got
  BY <1>1, <1>8
<1>11. Counted(r, Len(got.sizes) + 1)'
  BY <1>10 DEF Counted
<1>12. Fits(ChunksFrom(r)[Len(got.sizes) + 1])'
  <2>1. (ChunksFrom(r)[Len(got.sizes) + 1])' = C
    BY <1>10 DEF C
  <2>2. QED BY <1>9, <2>1 DEF Fits
<1>13. QED BY <1>1, <1>10, <1>11, <1>12 DEF Outcome, Underway

LEMMA OverrunEnded ==
  ASSUME ReaderInv, EndOfChunk, NEW r \in Requests, r.kind = "overrun", Fits(<<Byte>>)
  PROVE  Outcome(r)
<1> DEFINE R == <<Byte>>
<1>1. /\ ReaderTypes /\ 1 <= Len(buffer) /\ Len(buffer) \in Nat
      /\ IF buffer[1] = LineEnd THEN mode' = "size" ELSE Abort(400)
  BY EndStep
<1>2. R \in Seq(Tokens) /\ Len(R) = 1 /\ R[1] = Byte /\ Fits(R)
  BY TokenTypes
<1> HIDE DEF R
<1>3. 1 \in 1..Len(buffer) /\ 1 <= Len(R)
  BY <1>1, <1>2
<1>4. buffer[1] = R[1]
  BY <1>1, <1>2, <1>3, BufferedIs
<1>5. Abort(400)
  BY <1>1, <1>2, <1>4, TokenTypes
<1>6. QED BY <1>5, RefusedFor

(* The line that ends a chunked body; behind a trailer one line is left.   *)
LEMMA LastRead ==
  ASSUME ReaderInv, ReadLast, NEW r \in Requests, got = Meant(r), Fits(Ending(r))
  PROVE  Outcome(r)
<1> DEFINE R == Ending(r)
<1>1. /\ mode = "last" /\ Complete /\ buffer' = Rest(LineLength) /\ UNCHANGED <<sender, wire>>
      /\ Done(Meant(r))
  BY DEF ReadLast
<1>2. ReaderTypes /\ mode \in Lines /\ mode \in Reading /\ Marker = LineEnd
  BY <1>1 DEF ReaderInv, Reading, Lines, Marker
<1>3. LineLength \in Nat /\ LineLength <= Len(buffer)
  <2>1. LineLength \in 1..Len(buffer) /\ Len(buffer) \in Nat
    BY <1>1, <1>2, LineTypes DEF ReaderTypes
  <2>2. QED BY <2>1
<1>4. Fits(R) /\ R \in Seq(Tokens)
  BY EndingTypes
<1>5. CASE ~r.trailer
  <2>1. Len(R) = 1 /\ R[1] = LineEnd
    BY <1>5, EndingTypes
  <2> DEFINE m == 1
  <2>2. m \in 1..Len(R) /\ R[m] = Marker /\ \A j \in 1..m-1 : R[j] # Marker
    BY <1>2, <2>1
  <2> HIDE DEF m, R
  <2>3. LineLength = m
    BY <1>1, <1>2, <1>4, <2>2, FirstLine
  <2>4. Len(R) = LineLength
    BY <2>1, <2>3 DEF m
  <2>5. QED BY <1>1, <1>2, <1>3, <1>4, <2>4, Answered
<1>6. CASE r.trailer
  <2>1. Len(R) = 3 /\ R[1] = Field /\ R[2] = LineEnd /\ R[3] = LineEnd
    BY <1>6, EndingTypes
  <2> DEFINE m == 2
  <2>2. m \in 1..Len(R) /\ R[m] = Marker /\ \A j \in 1..m-1 : R[j] # Marker
    BY <1>2, <2>1, TokenTypes
  <2> HIDE DEF m, R
  <2>3. LineLength = m
    BY <1>1, <1>2, <1>4, <2>2, FirstLine
  <2>4. Behind(Under, 2, Under')
    <3>1. Behind(Under, LineLength, Under')
      BY <1>1, <1>2, <1>3, Taken
    <3>2. QED BY <2>3, <3>1 DEF m
  <2>5. /\ mode' = "serve" /\ status' = 0 /\ parsed' = Append(parsed, Meant(r))
        /\ firm' = firm /\ sent' = sent
    BY <1>1, <1>2, ReadingHasNoStatus DEF Done, sender
  <2>6. ASSUME firm = Len(sent) PROVE Over(r.trailer)'
    <3>1. Len(Under) <= 3 /\ Len(Under) = 2 + Len(Under') /\ Len(Under') \in Nat /\ Len(Under) \in Nat
      <4>1. Len(Under) = 2 + Len(Under') /\ Len(Under') \in Nat /\ Len(Under) \in Nat
        BY <2>4 DEF Behind
      <4>2. Len(Under) <= Len(R)
        BY <1>4, <2>6 DEF Fits, Fit
      <4>3. QED BY <2>1, <4>1, <4>2
    <3>2. \A j \in 1..Len(Under') : Under'[j] = Under[2 + j]
      BY <2>4 DEF Behind
    <3>3. ASSUME NEW i \in 1..Len(Under') PROVE Under'[i] # Blank
      <4>1. i = 1 /\ 3 \in 1..Len(Under) /\ 3 <= Len(R)
        BY <2>1, <3>1
      <4>2. Under'[1] = Under[2 + 1]
        BY <3>2, <4>1
      <4>3. Under[3] = R[3]
        BY <1>4, <4>1 DEF Fits, Fit
      <4>4. QED BY <2>1, <4>1, <4>2, <4>3, TokenTypes
    <3>4. Len(Under') <= 1
      BY <3>1
    <3>5. QED BY <1>6, <2>5, <3>3, <3>4 DEF Over
  <2>7. QED BY <2>5, <2>6 DEF Outcome
<1>7. QED BY <1>5, <1>6

(* A step of parse_request on a request that is being read.                *)
LEMMA ParseStep ==
  ASSUME ReaderInv, ParseRequest, NEW r \in Requests, Underway(r)
  PROVE  Outcome(r)
<1>2. CASE ParseHead
  <2>1. mode = "head"
    BY <1>2 DEF ParseHead
  <2>2. Fits(Stream(r))
    BY <2>1 DEF Underway
  <2>3. QED BY <1>2, <2>2, HeadRead
<1>3. CASE ReadBody
  <2>1. mode = "body"
    BY <1>3 DEF ReadBody
  <2>2. r.kind = "length" /\ got.kind = "length" /\ need = r.sizes[1] /\ Fits(Many(Byte, need))
    BY <2>1 DEF Underway
  <2>3. QED BY <1>3, <2>2, BodyRead
<1>4. CASE ReadSize
  <2>1. mode = "size"
    BY <1>4 DEF ReadSize
  <2>2. \/ r.kind = "chunked" /\ Counted(r, Len(got.sizes) + 1) /\ Fits(ChunksFrom(r)[Len(got.sizes) + 1])
        \/ r.kind \in {"junk", "overrun"} /\ got = [kind |-> "chunked", sizes |-> <<>>, total |-> 0]
           /\ Fits(BodyStream(r))
    BY <2>1 DEF Underway
  <2>3. CASE r.kind = "chunked" /\ Counted(r, Len(got.sizes) + 1) /\ Fits(ChunksFrom(r)[Len(got.sizes) + 1])
    <3>1. PICK i : i = Len(got.sizes) + 1
      OBVIOUS
    <3>2. Counted(r, i) /\ Fits(ChunksFrom(r)[i])
      BY <2>3, <3>1
    <3>3. QED BY <1>4, <2>3, <3>1, <3>2, ChunkSizeRead
  <2>4. CASE r.kind \in {"junk", "overrun"} /\ got = [kind |-> "chunked", sizes |-> <<>>, total |-> 0]
             /\ Fits(BodyStream(r))
    BY <1>4, <2>4, JunkRead, OverrunSizeRead
  <2>5. QED BY <2>2, <2>3, <2>4
<1>5. CASE ReadChunk
  <2>1. mode = "chunk"
    BY <1>5 DEF ReadChunk
  <2>2. \/ r.kind = "chunked" /\ Counted(r, Len(got.sizes) + 2) /\ need = r.sizes[Len(got.sizes) + 1]
                    /\ Fits(Many(Byte, need) \o (<<LineEnd>> \o ChunksFrom(r)[Len(got.sizes) + 2]))
        \/ r.kind = "overrun" /\ Fits(Many(Byte, need + 1))
    BY <2>1 DEF Underway
  <2>3. CASE r.kind = "chunked" /\ Counted(r, Len(got.sizes) + 2) /\ need = r.sizes[Len(got.sizes) + 1]
                    /\ Fits(Many(Byte, need) \o (<<LineEnd>> \o ChunksFrom(r)[Len(got.sizes) + 2]))
    <3>1. PICK i : i = Len(got.sizes) + 1
      OBVIOUS
    <3>2. i + 1 = Len(got.sizes) + 2
      <4>1. got.sizes \in Seq(Nat)
        BY <1>5, ChunkStep
      <4>2. Len(got.sizes) \in Nat
        BY <4>1
      <4>3. QED BY <3>1, <4>2
    <3>3. Counted(r, i + 1) /\ need = r.sizes[i] /\ Fits(Many(Byte, need) \o (<<LineEnd>> \o ChunksFrom(r)[i + 1]))
      BY <2>3, <3>1, <3>2
    <3>4. QED BY <1>5, <2>3, <3>1, <3>3, ChunkRead
  <2>4. CASE r.kind = "overrun" /\ Fits(Many(Byte, need + 1))
    <3>1. PICK n : n = need
      OBVIOUS
    <3>2. Fits(Many(Byte, n + 1))
      BY <2>4, <3>1
    <3>3. QED BY <1>5, <2>4, <3>1, <3>2, OverrunRead
  <2>5. QED BY <2>2, <2>3, <2>4
<1>6. CASE EndOfChunk
  <2>1. mode = "end of chunk"
    BY <1>6 DEF EndOfChunk
  <2>2. \/ r.kind = "chunked" /\ Counted(r, Len(got.sizes) + 1)
                           /\ Fits(<<LineEnd>> \o ChunksFrom(r)[Len(got.sizes) + 1])
        \/ r.kind = "overrun" /\ Fits(<<Byte>>)
    BY <2>1 DEF Underway
  <2>3. CASE r.kind = "chunked" /\ Counted(r, Len(got.sizes) + 1)
                           /\ Fits(<<LineEnd>> \o ChunksFrom(r)[Len(got.sizes) + 1])
    <3>1. PICK i : i = Len(got.sizes) + 1
      OBVIOUS
    <3>2. Counted(r, i) /\ Fits(<<LineEnd>> \o ChunksFrom(r)[i])
      BY <2>3, <3>1
    <3>3. QED BY <1>6, <2>3, <3>1, <3>2, ChunkEnded
  <2>4. CASE r.kind = "overrun" /\ Fits(<<Byte>>)
    BY <1>6, <2>4, OverrunEnded
  <2>5. QED BY <2>2, <2>3, <2>4
<1>7. CASE ReadLast
  <2>1. mode = "last"
    BY <1>7 DEF ReadLast
  <2>2. got = Meant(r) /\ Fits(Ending(r))
    BY <2>1 DEF Underway
  <2>3. QED BY <1>7, <2>2, LastRead
<1>8. QED BY <1>2, <1>3, <1>4, <1>5, <1>6, <1>7 DEF ParseRequest

(* If whatever was under way still is, the request goes on.                *)
LEMMA GoesOn ==
  ASSUME UNCHANGED <<mode, status, need, got>>,
         \A R : Fit(Under, R, gone, firm = Len(sent)) => Fit(Under', R, gone', (firm = Len(sent))'),
         NEW r, Underway(r)
  PROVE  Underway(r)'
<1>1. CASE mode \in {"refused", "closed"}
  BY <1>1 DEF Underway, Deserved
<1>2. CASE mode \in {"head", "body", "last"}
  BY <1>2 DEF Underway, Fits
<1>3. CASE mode = "size"
  BY <1>3 DEF Underway, Fits, Counted
<1>4. CASE mode = "chunk"
  BY <1>4 DEF Underway, Fits, Counted
<1>5. CASE mode = "end of chunk"
  BY <1>5 DEF Underway, Fits, Counted
<1>6. mode \in {"refused", "closed", "head", "body", "last", "size", "chunk", "end of chunk"}
  BY DEF Underway
<1>7. QED BY <1>1, <1>2, <1>3, <1>4, <1>5, <1>6

(* As far as it is buffered, the line of R that ends at m is not complete. *)
LEMMA LineSoon ==
  ASSUME ReaderTypes, mode \in Lines, ~Complete, NEW R \in Seq(Tokens), Fits(R), NEW m \in 1..Len(R), R[m] = Marker
  PROVE  Len(buffer) < m
<1> SUFFICES ASSUME ~(Len(buffer) < m) PROVE FALSE
  OBVIOUS
<1>1. Len(buffer) \in Nat /\ Len(R) \in Nat /\ DOMAIN buffer = 1..Len(buffer)
  BY DEF ReaderTypes
<1>2. m \in 1..Len(buffer) /\ m <= Len(R)
  BY <1>1
<1>3. buffer[m] = Marker
  BY <1>2, BufferedIs
<1>4. QED BY <1>1, <1>2, <1>3 DEF Complete

LEMMA SizeBegins ==
  ASSUME NEW n \in Nat, NEW Q \in Seq(Tokens), NEW R, R = <<Token("size", n), LineEnd>> \o Q
  PROVE  R \in Seq(Tokens) /\ 2 \in 1..Len(R) /\ R[2] = LineEnd
<1> DEFINE a == <<Token("size", n), LineEnd>>
<1>1. a \in Seq(Tokens) /\ Len(a) = 2 /\ a[2] = LineEnd
  <2>1. Token("size", n) \in Tokens /\ LineEnd \in Tokens
    BY TokenTypes DEF Kinds
  <2>2. QED BY <2>1
<1> HIDE DEF a
<1>2. R \in Seq(Tokens) /\ Len(R) = 2 + Len(Q) /\ \A i \in 1..Len(a) : R[i] = a[i]
  BY <1>1, Joins DEF a
<1>3. QED BY <1>1, <1>2

LEMMA ChunksBegin ==
  ASSUME NEW r \in Requests, NEW i \in 1..Len(r.sizes)+1
  PROVE  ChunksFrom(r)[i] \in Seq(Tokens) /\ 2 \in 1..Len(ChunksFrom(r)[i]) /\ ChunksFrom(r)[i][2] = LineEnd
<1> DEFINE R == ChunksFrom(r)[i]
<1>1. Len(r.sizes) \in Nat
  BY RequestTypes
<1>2. CASE i = Len(r.sizes) + 1
  <2> DEFINE n == 0
             Q == Ending(r)
  <2>1. R = <<Token("size", n), LineEnd>> \o Q /\ Q \in Seq(Tokens) /\ n \in Nat
    BY <1>2, Chunks, EndingTypes
  <2> HIDE DEF n, Q, R
  <2>2. R \in Seq(Tokens) /\ 2 \in 1..Len(R) /\ R[2] = LineEnd
    BY <2>1, SizeBegins
  <2>3. QED BY <2>2 DEF R
<1>3. CASE i # Len(r.sizes) + 1
  <2> DEFINE n == r.sizes[i]
             C == ChunksFrom(r)[i + 1]
             a == <<Token("size", n), LineEnd>>
             b == Many(Byte, n) \o <<LineEnd>>
             Q == b \o C
  <2>1. i \in 1..Len(r.sizes) /\ i + 1 \in 1..Len(r.sizes)+1
    BY <1>1, <1>3
  <2>2. n \in Nat /\ C \in Seq(Tokens) /\ R = Chunk(n) \o C
    BY <2>1, RequestTypes, Chunks
  <2> HIDE DEF n, C, R
  <2>3. Chunk(n) = a \o b
    BY <2>2, ChunkTypes
  <2>4. a \in Seq(Tokens)
    <3>1. Token("size", n) \in Tokens /\ LineEnd \in Tokens
      BY <2>2, TokenTypes DEF Kinds
    <3>2. QED BY <3>1
  <2>5. b \in Seq(Tokens)
    <3> DEFINE d == Many(Byte, n)
               e == <<LineEnd>>
    <3>1. d \in Seq(Tokens) /\ e \in Seq(Tokens)
      BY <2>2, TokenTypes, ManyTypes
    <3> HIDE DEF d, e
    <3>2. d \o e \in Seq(Tokens)
      BY <3>1
    <3>3. QED BY <3>2 DEF d, e
  <2> HIDE DEF a, b
  <2>6. (a \o b) \o C = a \o (b \o C) /\ b \o C \in Seq(Tokens)
    <3>1. C \in Seq(Tokens)
      BY <2>2
    <3>2. QED BY ZenonT(40), Assoc, <2>4, <2>5, <3>1
  <2>7. R = a \o Q /\ Q \in Seq(Tokens)
    BY <2>2, <2>3, <2>6
  <2> HIDE DEF Q
  <2>8. R \in Seq(Tokens) /\ 2 \in 1..Len(R) /\ R[2] = LineEnd
    BY <2>2, <2>7, SizeBegins DEF a
  <2>9. QED BY <2>8 DEF R
<1>4. QED BY <1>2, <1>3

(* A request that is refused for a line that is too long has such a line.  *)
LEMMA TooLong ==
  ASSUME ReaderInv, mode \in Lines, ~Complete, Len(buffer) > Limit, NEW r \in Requests, Underway(r)
  PROVE  r.kind = "junk" \/ r.fields + 2 > MaxHead
<1>1. ReaderTypes /\ Len(buffer) \in Nat
  BY DEF ReaderInv, ReaderTypes
<1>2. CASE mode = "head"
  <2> DEFINE R == Stream(r)
             H == HeadOf(r)
             B == BodyStream(r)
             m == r.fields + 2
  <2>1. Fits(R)
    BY <1>2 DEF Underway
  <2>2. H \in Seq(Tokens) /\ Len(H) = m /\ H[m] = Blank /\ B \in Seq(Tokens) /\ R = H \o B /\ m \in Nat /\ m >= 1
    BY StreamTypes, RequestTypes DEF Stream
  <2> HIDE DEF R, H, B, m
  <2>3. R \in Seq(Tokens) /\ Len(R) = Len(H) + Len(B) /\ (\A i \in 1..Len(H) : R[i] = H[i]) /\ Len(B) \in Nat
    <3>1. H \o B \in Seq(Tokens) /\ Len(H \o B) = Len(H) + Len(B) /\ \A i \in 1..Len(H) : (H \o B)[i] = H[i]
      BY <2>2, Joins
    <3>2. Len(B) \in Nat
      BY <2>2
    <3>3. QED BY <2>2, <3>1, <3>2
  <2>4. m \in 1..Len(R) /\ R[m] = Marker
    BY <1>2, <2>2, <2>3 DEF Marker
  <2>5. Len(buffer) < m
    BY <1>1, <2>1, <2>3, <2>4, LineSoon
  <2>6. MaxHead < m
    BY <1>1, <1>2, <2>2, <2>5, Constants DEF Limit
  <2>7. QED BY <2>6 DEF m
<1>3. CASE mode # "head"
  <2>1. Marker = LineEnd /\ Len(buffer) > MaxLine /\ MaxLine \in Nat /\ MaxLine >= 1
    BY <1>3, Constants DEF Marker, Limit
  <2>2. ASSUME NEW R \in Seq(Tokens), Fits(R), NEW m \in 1..Len(R), m <= 2, R[m] = LineEnd PROVE FALSE
    <3>1. Len(buffer) < m
      BY <1>1, <2>1, <2>2, LineSoon
    <3>2. QED BY <1>1, <2>1, <2>2, <3>1
  <2>3. CASE mode = "size" /\ r.kind = "chunked"
    <3>1. Len(got.sizes) + 1 \in 1..Len(r.sizes)+1 /\ Fits(ChunksFrom(r)[Len(got.sizes) + 1])
      BY <2>3 DEF Underway, Counted
    <3> DEFINE R == ChunksFrom(r)[Len(got.sizes) + 1]
    <3>2. R \in Seq(Tokens) /\ 2 \in 1..Len(R) /\ R[2] = LineEnd /\ Fits(R)
      BY <3>1, ChunksBegin
    <3> HIDE DEF R
    <3>3. QED BY <2>2, <3>2
  <2>4. CASE mode = "size" /\ r.kind # "chunked"
    <3>1. r.kind = "junk" \/ (r.kind = "overrun" /\ Fits(BodyStream(r)))
      BY <2>4 DEF Underway
    <3>2. CASE r.kind = "overrun" /\ Fits(BodyStream(r))
      <4> DEFINE R == BodyStream(r)
                 n == r.sizes[1]
                 Q == Many(Byte, n + 1)
      <4>1. n \in Nat
        BY <3>2, RequestTypes
      <4>2. R = <<Token("size", n), LineEnd>> \o Q
        BY <3>2 DEF BodyStream
      <4>3. Fits(R)
        BY <3>2
      <4> HIDE DEF R, n
      <4>4. n + 1 \in Nat
        BY <4>1
      <4>5. Q \in Seq(Tokens)
        BY <4>4, TokenTypes, ManyTypes
      <4> HIDE DEF Q
      <4>6. R \in Seq(Tokens) /\ 2 \in 1..Len(R) /\ R[2] = LineEnd
        BY <4>1, <4>2, <4>5, SizeBegins
      <4>7. QED BY <2>2, <4>3, <4>6
    <3>3. QED BY <3>1, <3>2
  <2>5. CASE mode = "last"
    <3> DEFINE R == Ending(r)
    <3>1. Fits(R)
      BY <2>5 DEF Underway
    <3>2. R \in Seq(Tokens) /\ \E m \in 1..Len(R) : m <= 2 /\ R[m] = LineEnd
      <4>1. r.trailer => 2 \in 1..Len(R) /\ R[2] = LineEnd
        BY EndingTypes
      <4>2. ~r.trailer => 1 \in 1..Len(R) /\ R[1] = LineEnd
        BY EndingTypes
      <4>3. R \in Seq(Tokens)
        BY EndingTypes
      <4> HIDE DEF R
      <4>4. QED BY <4>1, <4>2, <4>3
    <3> HIDE DEF R
    <3>3. QED BY <2>2, <3>1, <3>2
  <2>6. mode \in {"size", "last"}
    BY <1>3 DEF Lines
  <2>7. QED BY <2>3, <2>4, <2>5, <2>6
<1>4. QED BY <1>2, <1>3

(* The request that is being read, if one is.                              *)
LEMMA ReadingOne ==
  ASSUME ReaderInv, firm = Len(parsed) + 1
  PROVE  sent[firm] \in Requests
<1>1. sent \in Seq(Requests) /\ parsed \in Seq(RequestRead) /\ firm \in Nat /\ firm <= Len(sent)
  BY DEF ReaderInv, ReaderTypes, Bounds, Sendings
<1>2. QED BY <1>1

(* A step at which no request is sent or answered.                         *)
LEMMA FaithfulKept ==
  ASSUME Faithful, UNCHANGED <<parsed, sent, firm>>, ReaderInv,
         \A r \in Requests : Underway(r) => Underway(r)',
         \A trailer \in BOOLEAN : Over(trailer) => Over(trailer)'
  PROVE  Faithful'
<1>1. /\ \A i \in 1..Len(parsed) : i <= firm => parsed[i] = Meant(sent[i])
      /\ firm <= Len(parsed) + 1
      /\ firm = Len(sent) => Len(parsed) <= firm
  BY DEF Faithful
<1>2. firm = Len(sent) /\ Len(parsed) = firm => Over(Trailers)'
  <2> SUFFICES ASSUME firm = Len(sent) /\ Len(parsed) = firm PROVE Over(Trailers)'
    OBVIOUS
  <2>1. Over(Trailers)
    BY DEF Faithful, Trailers
  <2>2. PICK t \in BOOLEAN : t = Trailers
    BY DEF Trailers
  <2>3. Over(t)'
    BY <2>1, <2>2 DEF Over
  <2>4. Trailers' = Trailers
    BY DEF Trailers
  <2>5. QED BY <2>2, <2>3, <2>4 DEF Over
<1>3. firm = Len(parsed) + 1 => Underway(sent[firm])'
  <2> SUFFICES ASSUME firm = Len(parsed) + 1 PROVE Underway(sent[firm])'
    OBVIOUS
  <2>1. PICK r \in Requests : r = sent[firm]
    BY ReadingOne
  <2>2. Underway(r)'
    BY <2>1 DEF Faithful
  <2>3. QED BY <2>1, <2>2
<1>4. QED BY <1>1, <1>2, <1>3 DEF Faithful, Trailers

LEMMA BeginRecvFaithful == ReaderInv /\ Faithful /\ BeginRecv => Faithful'
<1> SUFFICES ASSUME ReaderInv, Faithful, BeginRecv PROVE Faithful'
  OBVIOUS
<1>1. /\ UNCHANGED <<sent, gone, firm, wire, buffer, need, got, parsed>> /\ mode \in Reading /\ ~Complete
      /\ ReaderTypes
  BY DEF BeginRecv, sender, reader, ReaderInv
<1>2. Under' = Under
  BY <1>1 DEF Under
<1>3. Len(buffer) \in Nat /\ Len(wire) \in Nat
  BY <1>1 DEF ReaderTypes
<1>4. CASE mode' = "refused" /\ status' = 408
  <2>1. ASSUME NEW r \in Requests PROVE Underway(r)'
    <3>1. Deserved(r)'
      BY <1>4 DEF Deserved
    <3>2. QED BY <1>4, <3>1 DEF Underway
  <2>2. \A t \in BOOLEAN : Over(t) => Over(t)'
    BY <1>2, <1>4 DEF Over
  <2>3. QED BY <1>1, <2>1, <2>2, FaithfulKept
<1>5. CASE mode' = "refused" /\ status' = 431 /\ mode \in Lines /\ Len(buffer) > Limit
  <2>1. ASSUME NEW r \in Requests, Underway(r) PROVE Underway(r)'
    <3>1. r.kind = "junk" \/ r.fields + 2 > MaxHead
      BY <1>1, <1>5, <2>1, TooLong
    <3>2. Deserved(r)'
      BY <1>5, <3>1 DEF Deserved
    <3>3. QED BY <1>5, <3>2 DEF Underway
  <2>2. ASSUME NEW t \in BOOLEAN, Over(t) PROVE FALSE
    <3>1. mode = "head" /\ Len(Under) <= 1
      BY <1>1, <2>2 DEF Over, Reading
    <3>2. Len(Under) = Len(buffer) + Len(wire)
      BY <1>1, UnderTypes
    <3>3. Len(buffer) > MaxHead /\ MaxHead \in Nat /\ MaxHead >= 1
      BY <1>5, <3>1, Constants DEF Limit
    <3>4. QED BY <1>3, <3>1, <3>2, <3>3
  <2>3. QED BY <1>1, <2>1, <2>2, FaithfulKept
<1>6. CASE UNCHANGED <<mode, status>>
  <2>1. \A R : Fit(Under, R, gone, firm = Len(sent)) => Fit(Under', R, gone', (firm = Len(sent))')
    BY <1>1, <1>2
  <2>2. \A r \in Requests : Underway(r) => Underway(r)'
    BY <1>1, <1>6, <2>1, GoesOn
  <2>3. \A t \in BOOLEAN : Over(t) => Over(t)'
    BY <1>2, <1>6 DEF Over
  <2>4. QED BY <1>1, <2>2, <2>3, FaithfulKept
<1>7. QED BY <1>4, <1>5, <1>6 DEF BeginRecv, Reject

(* A recv() that returns, time, and a step that does nothing.              *)
LEMMA MovedFaithful ==
  ASSUME ReaderInv, Faithful, UNCHANGED <<sent, gone, firm, need, got, parsed, mode, status>>, Under' = Under
  PROVE  Faithful'
<1>1. \A R : Fit(Under, R, gone, firm = Len(sent)) => Fit(Under', R, gone', (firm = Len(sent))')
  OBVIOUS
<1>2. \A r \in Requests : Underway(r) => Underway(r)'
  BY <1>1, GoesOn
<1>3. \A t \in BOOLEAN : Over(t) => Over(t)'
  BY DEF Over
<1>4. QED BY <1>2, <1>3, FaithfulKept

LEMMA ReceiveFaithful == ReaderInv /\ Faithful /\ Receive => Faithful'
<1> SUFFICES ASSUME ReaderInv, Faithful, Receive PROVE Faithful'
  OBVIOUS
<1>1. PICK k \in 1..Least(RecvSize, Len(wire)) : buffer' = buffer \o SubSeq(wire, 1, k) /\ wire' = SubSeq(wire, k + 1, Len(wire))
  BY DEF Receive
<1>2. UNCHANGED <<sent, gone, firm, need, got, parsed, mode, status>>
  BY DEF Receive, sender, result
<1>3. buffer \in Seq(Tokens) /\ wire \in Seq(Tokens) /\ k \in 1..Len(wire)
  <2>1. buffer \in Seq(Tokens) /\ wire \in Seq(Tokens)
    BY DEF ReaderInv, ReaderTypes
  <2>2. QED BY <1>1, <2>1, Constants DEF Least
<1>4. buffer' \o wire' = buffer \o wire
  BY <1>1, <1>3, Moved
<1>5. Under' = Under
  BY <1>4 DEF Under
<1>6. QED BY <1>2, <1>5, MovedFaithful

LEMMA RecvEndsFaithful == ReaderInv /\ Faithful /\ (RecvTimeout \/ StreamEnds) => Faithful'
<1> SUFFICES ASSUME ReaderInv, Faithful, RecvTimeout \/ StreamEnds PROVE Faithful'
  OBVIOUS
<1>1. UNCHANGED <<sent, gone, firm, wire, buffer, parsed>>
  BY DEF RecvTimeout, StreamEnds, sender, reader, result
<1>2. (mode' = "refused" /\ status' = 408) \/ (mode' = "closed" /\ status' = status)
  <2>1. RecvTimeout => mode' = "refused" /\ status' = 408
    BY DEF RecvTimeout, Reject
  <2>2. StreamEnds => mode' = "closed" /\ status' = status
    BY DEF StreamEnds, result
  <2>3. QED BY <2>1, <2>2
<1>3. Under' = Under
  BY <1>1 DEF Under
<1>4. \A r \in Requests : Underway(r)'
  <2>1. \A r \in Requests : mode' = "refused" => Deserved(r)'
    BY <1>2 DEF Deserved
  <2>2. QED BY <1>2, <2>1 DEF Underway
<1>5. \A t \in BOOLEAN : Over(t) => Over(t)'
  BY <1>2, <1>3 DEF Over
<1>6. QED BY <1>1, <1>4, <1>5, FaithfulKept

LEMMA QuitFaithful == ReaderInv /\ Faithful /\ Quit => Faithful'
<1> SUFFICES ASSUME ReaderInv, Faithful, Quit PROVE Faithful'
  OBVIOUS
<1>1. PICK k \in 0..Len(wire) : wire' = SubSeq(wire, 1, k)
  BY DEF Quit
<1>2. UNCHANGED <<sent, firm, mode, status, parsed, buffer, need, got>> /\ gone' = TRUE
  BY DEF Quit, reader, result
<1>3. buffer \in Seq(Tokens) /\ wire \in Seq(Tokens) /\ ReaderTypes
  BY DEF ReaderInv, ReaderTypes
<1> DEFINE p == SubSeq(wire, 1, k)
<1>4. p \in Seq(Tokens) /\ Len(p) = k /\ k <= Len(wire) /\ \A i \in 1..k : p[i] = wire[i]
  BY <1>3
<1>5. Under = buffer \o wire /\ Under' = buffer \o p
  BY <1>1, <1>2 DEF Under
<1> HIDE DEF p
<1>6. /\ Len(Under') \in Nat /\ Len(Under) \in Nat /\ Len(Under') <= Len(Under)
      /\ \A i \in 1..Len(Under') : Under'[i] = Under[i]
  <2>1. /\ Len(Under) = Len(buffer) + Len(wire) /\ \A i \in 1..Len(buffer) : Under[i] = buffer[i]
        /\ \A i \in 1..Len(wire) : Under[Len(buffer) + i] = wire[i]
    BY <1>3, <1>5, Joins
  <2>2. /\ Len(Under') = Len(buffer) + k /\ \A i \in 1..Len(buffer) : Under'[i] = buffer[i]
        /\ \A i \in 1..k : Under'[Len(buffer) + i] = p[i]
    BY <1>3, <1>4, <1>5, Joins
  <2>3. Len(buffer) \in Nat /\ Len(wire) \in Nat /\ k \in Nat /\ k <= Len(wire)
    BY <1>3
  <2>4. ASSUME NEW i \in 1..Len(Under') PROVE Under'[i] = Under[i]
    <3>1. CASE i <= Len(buffer)
      BY <2>1, <2>2, <2>3, <3>1
    <3>2. CASE i > Len(buffer)
      <4> DEFINE j == i - Len(buffer)
      <4>1. j \in 1..k /\ j \in 1..Len(wire) /\ i = Len(buffer) + j
        BY <2>2, <2>3, <3>2
      <4> HIDE DEF j
      <4>2. QED BY <1>4, <2>1, <2>2, <4>1
    <3>3. i <= Len(buffer) \/ i > Len(buffer)
      BY <2>3
    <3>4. QED BY <3>1, <3>2, <3>3
  <2>5. QED BY <2>1, <2>2, <2>3, <2>4
<1>7. ASSUME NEW R, Fit(Under, R, gone, firm = Len(sent)) PROVE Fit(Under', R, gone', (firm = Len(sent))')
  <2>1. \A i \in 1..Len(Under') : i <= Len(R) => Under'[i] = R[i]
    BY <1>6, <1>7 DEF Fit
  <2>2. firm = Len(sent) => Len(Under') <= Len(R)
    BY <1>6, <1>7 DEF Fit
  <2>3. R \in Seq(Tokens)
    BY <1>7 DEF Fit
  <2>4. QED BY <1>2, <2>1, <2>2, <2>3 DEF Fit
<1>8. \A r \in Requests : Underway(r) => Underway(r)'
  BY <1>2, <1>7, GoesOn
<1>9. ASSUME NEW t \in BOOLEAN, Over(t) PROVE Over(t)'
  <2>1. Len(Under') <= 1 /\ (\A i \in 1..Len(Under') : Under'[i] # Blank) /\ (t \/ Len(Under') = 0)
    BY <1>6, <1>9 DEF Over
  <2>2. QED BY <1>2, <1>9, <2>1 DEF Over
<1>10. QED BY <1>2, <1>8, <1>9, FaithfulKept

LEMMA RespondFaithful == ReaderInv /\ Faithful /\ Respond => Faithful'
<1> SUFFICES ASSUME ReaderInv, Faithful, Respond PROVE Faithful'
  OBVIOUS
<1>1. UNCHANGED <<sent, firm, wire, status, parsed>> /\ mode = "serve" /\ buffer' = <<>> /\ mode' \in {"head", "closed"}
  BY DEF Respond, sender, result
<1>2. buffer \in Seq(Tokens) /\ wire \in Seq(Tokens) /\ Len(buffer) \in Nat /\ Len(wire) \in Nat
  BY DEF ReaderInv, ReaderTypes
<1>3. Under' = wire
  BY <1>1, <1>2 DEF Under
<1>4. /\ Len(Under) = Len(buffer) + Len(wire) /\ \A i \in 1..Len(wire) : Under[Len(buffer) + i] = wire[i]
  BY <1>2, Joins DEF Under
<1>5. \A r \in Requests : ~Underway(r)
  BY <1>1 DEF Underway
<1>6. ASSUME NEW t \in BOOLEAN, Over(t) PROVE Over(t)'
  <2>1. Len(Under') <= 1 /\ (t \/ Len(Under') = 0)
    BY <1>2, <1>3, <1>4, <1>6 DEF Over
  <2>2. ASSUME NEW i \in 1..Len(Under') PROVE Under'[i] # Blank
    <3>1. i \in 1..Len(wire) /\ Len(buffer) + i \in 1..Len(Under)
      BY <1>2, <1>3, <1>4
    <3>2. QED BY <1>3, <1>4, <1>6, <3>1 DEF Over
  <2>3. QED BY <1>1, <1>6, <2>1, <2>2 DEF Over
<1>7. QED BY <1>1, <1>5, <1>6, FaithfulKept

LEMMA FaithfulNext ==
  ASSUME \A i \in 1..Len(parsed') : i <= firm' => parsed'[i] = Meant(sent'[i]),
         firm' <= Len(parsed') + 1,
         firm' = Len(sent') => Len(parsed') <= firm',
         firm' = Len(sent') /\ Len(parsed') = firm' => Over(Trailers)',
         firm' = Len(parsed') + 1 => Underway(sent[firm])'
  PROVE  Faithful'
BY DEF Faithful, Trailers

LEMMA SendRequestFaithful == ReaderInv /\ Faithful /\ SendRequest => Faithful'
<1> SUFFICES ASSUME ReaderInv, Faithful, SendRequest PROVE Faithful'
  OBVIOUS
<1>1. PICK q \in Requests : /\ sent' = Append(sent, q) /\ wire' = wire \o Stream(q)
                            /\ firm' = IF InOrder THEN firm + 1 ELSE firm
  BY DEF SendRequest
<1>2. UNCHANGED <<gone, mode, status, parsed, buffer, need, got>> /\ gone = FALSE /\ mode \in Reading \cup {"serve"}
  <2>1. UNCHANGED <<gone, mode, status, parsed, buffer, need, got>> /\ ~gone /\ mode \in Reading \cup {"serve"}
    BY DEF SendRequest, reader, result
  <2>2. gone \in BOOLEAN
    BY DEF ReaderInv, ReaderTypes
  <2>3. QED BY <2>1, <2>2
<1>3. /\ buffer \in Seq(Tokens) /\ wire \in Seq(Tokens) /\ ReaderTypes /\ firm \in Nat /\ firm <= Len(sent)
      /\ sent \in Seq(Requests) /\ Len(sent) \in Nat /\ Len(parsed) \in Nat
  BY DEF ReaderInv, ReaderTypes, Bounds, Sendings
<1>4. /\ Len(sent') = Len(sent) + 1 /\ sent'[Len(sent) + 1] = q /\ \A i \in 1..Len(sent) : sent'[i] = sent[i]
  BY <1>1, <1>3
<1> DEFINE S == Stream(q)
<1>5. S \in Seq(Tokens)
  BY StreamTypes
<1>6. wire' = wire \o S
  BY <1>1
<1> HIDE DEF S
<1>7. Under' = Under \o S /\ Under \in Seq(Tokens)
  <2>1. buffer \o (wire \o S) = (buffer \o wire) \o S /\ buffer \o wire \in Seq(Tokens)
    BY SMTT(40), <1>3, <1>5
  <2>2. QED BY <1>2, <1>6, <2>1 DEF Under
<1>8. /\ \A i \in 1..Len(parsed) : i <= firm => parsed[i] = Meant(sent[i])
      /\ firm <= Len(parsed) + 1
      /\ firm = Len(sent) => Len(parsed) <= firm
      /\ firm = Len(sent) /\ Len(parsed) = firm => Over(Trailers)
      /\ firm = Len(parsed) + 1 => Underway(sent[firm])
  BY DEF Faithful, Trailers
<1>9. CASE InOrder
  <2>1. /\ firm = Len(sent) /\ Len(parsed) = Len(sent) /\ mode # "serve" /\ \A i \in 1..Len(sent) : ~sent[i].trailer
        /\ firm' = firm + 1
    <3>1. InOrder
      BY <1>9
    <3>2. DOMAIN sent = 1..Len(sent)
      BY <1>3
    <3>3. firm' = firm + 1
      BY <1>1, <3>1
    <3>4. QED BY <3>1, <3>2, <3>3 DEF InOrder
  <2>2. Over(Trailers) /\ ~Trailers
    BY <1>8, <2>1 DEF Trailers
  <2>3. mode = "head" /\ Len(Under) = 0
    BY <1>2, <2>1, <2>2 DEF Over, Reading
  <2>4. Under' = S
    BY <1>5, <1>7, <2>3
  <2>5. Fit(S, S, FALSE, TRUE)
    BY <1>5 DEF Fit
  <2>6. sent'[firm'] = q /\ firm' = Len(sent') /\ firm' = Len(parsed) + 1
    BY <1>4, <2>1
  <2>7. Underway(q)'
    <3>1. Fits(S)'
      BY <1>2, <2>4, <2>5, <2>6 DEF Fits
    <3>2. Fits(Stream(q))'
      BY <3>1 DEF S, Fits
    <3>3. QED BY <1>2, <2>3, <3>2 DEF Underway
  <2>8. Underway(sent[firm])'
    <3>1. PICK r : r = sent'[firm']
      OBVIOUS
    <3>2. Underway(r)'
      BY <2>6, <2>7, <3>1
    <3>3. QED BY <3>1, <3>2
  <2>9. \A i \in 1..Len(parsed') : i <= firm' => parsed'[i] = Meant(sent'[i])
    BY <1>2, <1>4, <1>8, <2>1
  <2>10. firm' <= Len(parsed') + 1 /\ Len(parsed') <= firm' /\ Len(parsed') # firm'
    BY <1>2, <1>3, <2>1
  <2>11. QED BY <2>8, <2>9, <2>10 DEF Faithful
<1>10. CASE ~InOrder
  <2>1. firm' = firm /\ firm' # Len(sent')
    BY <1>1, <1>3, <1>4, <1>10
  <2>2. ASSUME NEW R, Fit(Under, R, gone, firm = Len(sent)) PROVE Fit(Under', R, gone', (firm = Len(sent))')
    <3>0. R \in Seq(Tokens) /\ Len(R) \in Nat
      BY <2>2 DEF Fit
    <3>1. Len(R) <= Len(Under) /\ \A i \in 1..Len(Under) : i <= Len(R) => Under[i] = R[i]
      BY <1>2, <2>2 DEF Fit
    <3>2. /\ Len(Under') = Len(Under) + Len(S) /\ (\A i \in 1..Len(Under) : Under'[i] = Under[i])
          /\ Len(Under) \in Nat /\ Len(S) \in Nat
      <4>1. Len(Under') = Len(Under) + Len(S) /\ (\A i \in 1..Len(Under) : Under'[i] = Under[i])
        BY <1>5, <1>7, Joins
      <4>2. Len(Under) \in Nat /\ Len(S) \in Nat
        BY <1>5, <1>7
      <4>3. QED BY <4>1, <4>2
    <3>3. \A i \in 1..Len(Under') : i <= Len(R) => Under'[i] = R[i]
      <4> SUFFICES ASSUME NEW i \in 1..Len(Under'), i <= Len(R) PROVE Under'[i] = R[i]
        OBVIOUS
      <4>1. i <= Len(Under)
        BY <3>0, <3>1, <3>2
      <4>2. QED BY <3>1, <3>2, <4>1
    <3>4. Len(R) <= Len(Under')
      BY <3>0, <3>1, <3>2
    <3>5. QED BY <2>1, <3>0, <3>3, <3>4 DEF Fit
  <2>3. ASSUME NEW r \in Requests, Underway(r) PROVE Underway(r)'
    BY <1>2, <2>2, <2>3, GoesOn
  <2>4. firm = Len(parsed) + 1 => Underway(sent[firm])'
    <3> SUFFICES ASSUME firm = Len(parsed) + 1 PROVE Underway(sent[firm])'
      OBVIOUS
    <3>1. PICK r \in Requests : r = sent[firm]
      BY ReadingOne
    <3>2. Underway(r)'
      BY <1>8, <2>3, <3>1
    <3>3. sent'[firm'] = r
      BY <1>3, <1>4, <2>1, <3>1
    <3>4. QED BY <3>2, <3>3
  <2>5. \A i \in 1..Len(parsed') : i <= firm' => parsed'[i] = Meant(sent'[i])
    <3> SUFFICES ASSUME NEW i \in 1..Len(parsed'), i <= firm' PROVE parsed'[i] = Meant(sent'[i])
      OBVIOUS
    <3>1. i \in 1..Len(parsed) /\ i <= firm /\ parsed'[i] = parsed[i]
      BY <1>2, <1>3, <2>1
    <3>2. i \in 1..Len(sent)
      BY <1>3, <3>1
    <3>3. sent'[i] = sent[i]
      BY <1>4, <3>2
    <3>4. parsed[i] = Meant(sent[i])
      BY <1>8, <3>1
    <3>5. QED BY <3>1, <3>3, <3>4
  <2>6. QED BY <1>2, <1>8, <2>1, <2>4, <2>5 DEF Faithful
<1>11. QED BY <1>9, <1>10

(* A step of parse_request appends to what was parsed, if anything.        *)
LEMMA Parses == ParseRequest => parsed' = parsed \/ \E x : parsed' = Append(parsed, x)
<1>1. ASSUME NEW x, Done(x) PROVE \E y : parsed' = Append(parsed, y)
  BY <1>1 DEF Done
<1>2. ASSUME NEW m, NEW n, Expect(m, n) PROVE parsed' = parsed
  BY <1>2 DEF Expect, result
<1>3. ASSUME NEW code, Abort(code) PROVE parsed' = parsed
  BY <1>3 DEF Abort
<1>4. ASSUME NEW start, NEW kind, BodyOf(start, kind) PROVE parsed' = parsed \/ \E x : parsed' = Append(parsed, x)
  BY <1>1, <1>2, <1>3, <1>4 DEF BodyOf
<1>5. ParseHead => parsed' = parsed \/ \E x : parsed' = Append(parsed, x)
  BY <1>3, <1>4 DEF ParseHead
<1>6. ReadBody \/ ReadLast => \E x : parsed' = Append(parsed, x)
  BY <1>1 DEF ReadBody, ReadLast
<1>7. ReadSize \/ ReadChunk \/ EndOfChunk => parsed' = parsed
  BY <1>2, <1>3 DEF ReadSize, Grow, ReadChunk, EndOfChunk
<1>8. QED BY <1>5, <1>6, <1>7 DEF ParseRequest

LEMMA ParseFaithful == ReaderInv /\ Faithful /\ ParseRequest => Faithful'
<1> SUFFICES ASSUME ReaderInv, Faithful, ParseRequest PROVE Faithful'
  OBVIOUS
<1>1. UNCHANGED <<sent, firm>>
  BY DEF ParseRequest, ParseHead, ReadBody, ReadSize, ReadChunk, EndOfChunk, ReadLast, sender
<1>2. /\ ReaderTypes /\ firm \in Nat /\ firm <= Len(sent) /\ Len(sent) \in Nat
      /\ parsed \in Seq(RequestRead) /\ Len(parsed) \in Nat
  BY DEF ReaderInv, ReaderTypes, Bounds, Sendings
<1>3. /\ \A i \in 1..Len(parsed) : i <= firm => parsed[i] = Meant(sent[i])
      /\ firm <= Len(parsed) + 1
      /\ firm = Len(sent) => Len(parsed) <= firm
      /\ firm = Len(sent) /\ Len(parsed) = firm => Over(Trailers)
      /\ firm = Len(parsed) + 1 => Underway(sent[firm])
  BY DEF Faithful, Trailers
<1>4. ASSUME NEW x, parsed' = Append(parsed, x)
      PROVE  Len(parsed') = Len(parsed) + 1 /\ parsed'[Len(parsed) + 1] = x /\ \A i \in 1..Len(parsed) : parsed'[i] = parsed[i]
  BY <1>2, <1>4
<1>5. CASE firm = Len(parsed) + 1
  <2>1. PICK r \in Requests : r = sent[firm]
    BY <1>5, ReadingOne
  <2>2. Outcome(r)
    BY <1>3, <1>5, <2>1, ParseStep
  <2>3. CASE parsed' = parsed /\ Underway(r)'
    <3>1. Underway(sent[firm])'
      BY <1>1, <2>1, <2>3
    <3>2. \A i \in 1..Len(parsed') : i <= firm' => parsed'[i] = Meant(sent'[i])
      BY <1>1, <1>3, <2>3
    <3>3. firm' <= Len(parsed') + 1 /\ Len(parsed') <= firm' /\ Len(parsed') # firm'
      BY <1>1, <1>2, <1>5, <2>3
    <3>4. QED BY <3>1, <3>2, <3>3, FaithfulNext
  <2>4. CASE parsed' = Append(parsed, Meant(r)) /\ (firm = Len(sent) => Over(r.trailer)')
    <3> DEFINE x == Meant(r)
    <3>1. x = Meant(sent[firm]) /\ parsed' = Append(parsed, x)
      BY <2>1, <2>4
    <3> HIDE DEF x
    <3>2. Len(parsed') = Len(parsed) + 1 /\ parsed'[Len(parsed) + 1] = x /\ \A i \in 1..Len(parsed) : parsed'[i] = parsed[i]
      BY <1>4, <3>1
    <3>3. ASSUME NEW i \in 1..Len(parsed'), i <= firm' PROVE parsed'[i] = Meant(sent'[i])
      <4>1. CASE i = firm
        BY <1>1, <1>5, <3>1, <3>2, <4>1
      <4>2. CASE i # firm
        <5>1. i \in 1..Len(parsed) /\ i <= firm
          BY <1>1, <1>2, <1>5, <3>2, <3>3, <4>2
        <5>2. QED BY <1>1, <1>3, <3>2, <5>1
      <4>3. QED BY <4>1, <4>2
    <3>4. firm' <= Len(parsed') + 1 /\ Len(parsed') = firm' /\ firm' # Len(parsed') + 1
      BY <1>1, <1>2, <1>5, <3>2
    <3>5. firm' = Len(sent') => Over(Trailers)'
      <4> SUFFICES ASSUME firm' = Len(sent') PROVE Over(Trailers)'
        OBVIOUS
      <4>1. Over(r.trailer)'
        BY <1>1, <2>4
      <4>2. firm \in 1..Len(sent)
        BY <1>2, <1>5
      <4>3. r.trailer => Trailers'
        BY <1>1, <2>1, <4>2 DEF Trailers
      <4>4. QED BY <4>1, <4>3 DEF Over
    <3>6. firm' <= Len(parsed') + 1 /\ Len(parsed') <= firm' /\ firm' # Len(parsed') + 1
      BY <1>1, <1>2, <1>5, <3>2
    <3>7. QED BY <3>3, <3>5, <3>6, FaithfulNext
  <2>5. QED BY <2>2, <2>3, <2>4 DEF Outcome
<1>6. CASE firm <= Len(parsed) /\ firm # Len(sent)
  <2>1. /\ Len(parsed') >= Len(parsed) /\ Len(parsed') \in Nat
        /\ \A i \in 1..Len(parsed') : i <= Len(parsed) => parsed'[i] = parsed[i]
    <3>1. CASE parsed' = parsed
      BY <1>2, <3>1
    <3>2. CASE \E x : parsed' = Append(parsed, x)
      <4>1. PICK x : parsed' = Append(parsed, x)
        BY <3>2
      <4>2. QED BY <1>2, <1>4, <4>1
    <3>3. QED BY <3>1, <3>2, Parses
  <2>2. ASSUME NEW i \in 1..Len(parsed'), i <= firm' PROVE parsed'[i] = Meant(sent'[i])
    <3>1. i \in 1..Len(parsed) /\ i <= firm
      BY <1>1, <1>2, <1>6, <2>1, <2>2
    <3>2. QED BY <1>1, <1>3, <2>1, <3>1
  <2>3. firm' <= Len(parsed') + 1 /\ firm' # Len(sent') /\ firm' # Len(parsed') + 1
    BY <1>1, <1>2, <1>6, <2>1
  <2>4. QED BY <2>2, <2>3 DEF Faithful
<1>7. CASE firm = Len(sent) /\ Len(parsed) = firm
  <2>1. Over(Trailers)
    BY <1>3, <1>7
  <2>2. mode \in {"head", "serve", "refused", "closed"} /\ \A i \in 1..Len(Under) : Under[i] # Blank
    BY <2>1 DEF Over
  <2>3. mode = "head" /\ Complete
    BY <2>2 DEF ParseRequest, ParseHead, ReadBody, ReadSize, ReadChunk, EndOfChunk, ReadLast
  <2>4. buffer \in Seq(Tokens) /\ wire \in Seq(Tokens) /\ Len(buffer) \in Nat /\ Len(wire) \in Nat
    BY <1>2 DEF ReaderTypes
  <2>5. PICK i \in 1..Len(buffer) : buffer[i] = Blank
    BY <2>3, <2>4 DEF Complete, Lines, Marker
  <2>6. Under[i] = buffer[i] /\ Len(Under) = Len(buffer) + Len(wire)
    BY <2>4, Joins DEF Under
  <2>7. i \in 1..Len(Under)
    BY <2>4, <2>6
  <2>8. QED BY <2>2, <2>5, <2>6, <2>7
<1>8. QED BY <1>2, <1>3, <1>5, <1>6, <1>7

LEMMA FaithfulInit == ReaderInit => Faithful
<1> SUFFICES ASSUME ReaderInit PROVE Faithful
  OBVIOUS
<1>1. sent = <<>> /\ parsed = <<>> /\ firm = 0 /\ wire = <<>> /\ buffer = <<>> /\ mode = "head" /\ status = 0
  BY DEF ReaderInit
<1>2. Len(Under) = 0
  BY <1>1 DEF Under
<1>3. Over(Trailers)
  BY <1>1, <1>2 DEF Over
<1>4. /\ \A i \in 1..Len(parsed) : i <= firm => parsed[i] = Meant(sent[i])
      /\ firm <= Len(parsed) + 1 /\ Len(parsed) <= firm /\ firm # Len(parsed) + 1
  BY <1>1
<1>5. QED BY <1>3, <1>4 DEF Faithful, Trailers

LEMMA FaithfulStep == ReaderInv /\ Faithful /\ [ReaderNext]_readerVars => Faithful'
<1> SUFFICES ASSUME ReaderInv, Faithful, [ReaderNext]_readerVars PROVE Faithful'
  OBVIOUS
<1>1. CASE RecvSome
  BY <1>1, BeginRecvFaithful, ReceiveFaithful, RecvEndsFaithful DEF RecvSome
<1>2. CASE ParseRequest
  BY <1>2, ParseFaithful
<1>3. CASE Respond \/ SendRequest \/ Quit
  BY <1>3, RespondFaithful, SendRequestFaithful, QuitFaithful
<1>4. CASE TimePasses \/ UNCHANGED readerVars
  <2>1. UNCHANGED <<sent, gone, firm, wire, buffer, need, got, parsed, mode, status>>
    BY <1>4 DEF TimePasses, readerVars, sender, result, reader
  <2>2. Under' = Under
    BY <2>1 DEF Under
  <2>3. QED BY <2>1, <2>2, MovedFaithful
<1>5. QED BY <1>1, <1>2, <1>3, <1>4 DEF ReaderNext

(* ParsedAsSent for every set of requests, every limit and every way the   *)
(* bytes arrive: a request sent in order is answered as it was meant, each *)
(* parse takes it to its last byte, and a refusal is for what it is.       *)
THEOREM RequestsParsedAsSent == ReaderSpec => []ParsedAsSent
<1>1. ReaderInv /\ Faithful => ParsedAsSent
  <2> SUFFICES ASSUME ReaderInv, Faithful PROVE ParsedAsSent
    OBVIOUS
  <2>1. /\ parsed \in Seq(RequestRead) /\ DOMAIN parsed = 1..Len(parsed) /\ Len(parsed) \in Nat /\ firm \in Nat
    BY SMTT(30) DEF ReaderInv, ReaderTypes
  <2>2. \A i \in DOMAIN parsed : i <= firm => parsed[i] = Meant(sent[i])
    BY <2>1 DEF Faithful
  <2>3. ASSUME firm = Len(sent), status \in {400, 413, 431}
        PROVE  Len(parsed) < Len(sent) /\ Deserved(sent[Len(parsed) + 1])
    <3>1. mode = "refused"
      BY <2>3 DEF ReaderInv, Bounds, RefusedHasStatus
    <3>2. Len(parsed) # firm
      BY <2>3 DEF Faithful, Over
    <3>3. firm = Len(parsed) + 1
      <4>1. firm <= Len(parsed) + 1 /\ Len(parsed) <= firm
        BY <2>3 DEF Faithful
      <4>2. Len(parsed) \in Nat /\ firm \in Nat
        BY <2>1
      <4> DEFINE n == Len(parsed)
      <4> HIDE DEF n
      <4>3. n \in Nat /\ firm \in Nat /\ n # firm /\ firm <= n + 1 /\ n <= firm
        BY <3>2, <4>1, <4>2 DEF n
      <4>4. firm = n + 1
        BY <4>3
      <4>5. QED BY <4>4 DEF n
    <3>4. Underway(sent[firm])
      BY <3>3 DEF Faithful
    <3>5. Deserved(sent[firm])
      BY <3>1, <3>4 DEF Underway
    <3>6. QED BY <2>1, <2>3, <3>3, <3>5
  <2>4. firm = Len(sent) => Len(parsed) <= Len(sent)
    BY DEF Faithful
  <2>5. QED BY <2>2, <2>3, <2>4 DEF ParsedAsSent
<1>2. ReaderInit => ReaderInv /\ Faithful
  BY ReaderInitInv, FaithfulInit
<1>3. ReaderInv /\ Faithful /\ [ReaderNext]_readerVars => (ReaderInv /\ Faithful)'
  BY ReaderStepInv, FaithfulStep
<1>4. QED BY <1>1, <1>2, <1>3, PTL DEF ReaderSpec
=============================================================================
