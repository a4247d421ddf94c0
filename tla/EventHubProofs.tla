--------------------------- MODULE EventHubProofs ---------------------------
(***************************************************************************)
(* The event hub for any number of senders, streams and sockets, and any   *)
(* size of the queues.                                                     *)
(***************************************************************************)
EXTENDS EventHub, TLAPS

SenderPc == {"idle", "visit", "send", "put", "collect",
             "unregister", "close", "close_set", "close_put"}
ConnPc == {"new", "join", "again", "open", "response", "loop", "get", "write",
           "abandoned", "unregister", "close", "close_set", "close_put", "ended"}

(* TypeOK in two parts, with the domains that TLC need not be told: what   *)
(* the hub and its connections hold, and where the threads are.            *)
DataInv ==
  /\ room \in SUBSET Conns /\ sessions \in SUBSET Conns /\ users \in SUBSET Conns
  /\ closed \in [Conns -> BOOLEAN]
  /\ queue \in [Conns -> Seq({Event, None})] /\ \A c \in Conns : Len(queue[c]) <= MaxQueue
  /\ todo \in [Senders -> SUBSET Conns] /\ dead \in [Senders -> SUBSET Conns]
  /\ dropped \subseteq Conns \X Senders

ControlInv ==
  /\ pc \in [Threads -> SenderPc \cup ConnPc]
  /\ at \in [Threads -> Conns \cup {Nobody}]
  /\ back \in [Threads -> {"visit", "collect", "ended"}]
  /\ \A b \in Senders :
       /\ pc[b] \in SenderPc /\ back[b] \in {"visit", "collect"}
       /\ at[b] = Nobody => pc[b] \in {"idle", "visit", "collect"}
  /\ \A c \in Conns : pc[c] \in ConnPc /\ at[c] = c /\ back[c] = "ended"

TypeInv == DataInv /\ ControlInv

(* Thread t has yet to reach the assignment closed = True for c.           *)
Closer(t, c) == at[t] = c /\ pc[t] \in {"close", "close_set"}

(* An event is lost to a connection that is closed, or that its sender     *)
(* itself is about to close; so it does not come to queue another.         *)
LossOf(b) ==
  /\ \A c \in Conns : <<c, b>> \in dropped => closed[c] \/ Closer(b, c)
  /\ pc[b] = "put" => <<at[b], b>> \notin dropped

LossInv == \A b \in Senders : LossOf(b)

(* A connection that has unregistered itself is in no index.               *)
ForgottenInv ==
  \A c \in Conns :
    pc[c] \in {"close", "close_set", "close_put", "ended"} => c \notin room \cup sessions \cup users

(* A connection that has registered and is not registered any more was     *)
(* taken out by a thread that closes it.                                   *)
AccountedInv ==
  /\ users \subseteq sessions
  /\ \A c \in Conns :
       IF pc[c] = "new" THEN c \notin room
       ELSE c \notin sessions => closed[c] \/ \E t \in Threads : Closer(t, c)

Inv == TypeInv /\ LossInv /\ ForgottenInv /\ AccountedInv /\ ReaderIsWoken

(* A queue that has taken a None is not empty.                             *)
LEMMA NoneEndsQueue ==
  ASSUME NEW q \in Seq({Event, None})
  PROVE  Append(q, None) # <<>>
<1> DEFINE a == Append(q, None)
<1>1. Len(a) = Len(q) + 1
  OBVIOUS
<1>2. Len(q) \in Nat /\ Len(<<>>) = 0
  OBVIOUS
<1> HIDE DEF a
<1>3. a # <<>>
  BY <1>1, <1>2
<1>4. QED BY <1>3 DEF a

USE HubAssumption DEF Threads, Conns

-----------------------------------------------------------------------------
LEMMA InitInv == Init => Inv
<1> SUFFICES ASSUME Init PROVE Inv
  OBVIOUS
<1>1. TypeInv
  <2>1. DataInv BY DEF Init, DataInv
  <2>2. ControlInv BY DEF Init, ControlInv, SenderPc, ConnPc
  <2>3. QED BY <2>1, <2>2 DEF TypeInv
<1>2. LossInv BY DEF Init, LossInv, LossOf
<1>3. ForgottenInv BY DEF Init, ForgottenInv
<1>4. AccountedInv BY DEF Init, AccountedInv
<1>5. ReaderIsWoken BY DEF Init, ReaderIsWoken
<1>6. QED BY <1>1, <1>2, <1>3, <1>4, <1>5 DEF Inv

(* A thread goes on, or turns to another connection.                       *)
LEMMA GotoControl ==
  ASSUME ControlInv, NEW t \in Threads, NEW p, Goto(t, p),
         t \in Senders => p \in SenderPc /\ (at[t] = Nobody => p \in {"idle", "visit", "collect"}),
         t \in Conns => p \in ConnPc
  PROVE  ControlInv'
BY DEF ControlInv, Goto

LEMMA TurnControl ==
  ASSUME ControlInv, NEW b \in Senders, NEW c \in Conns \cup {Nobody}, NEW p \in SenderPc,
         NEW q \in {"visit", "collect"}, Turn(b, c, p, q),
         c = Nobody => p \in {"idle", "visit", "collect"}
  PROVE  ControlInv'
BY DEF ControlInv, Turn

LEMMA ControlStep == TypeInv /\ [Next]_vars => ControlInv'
<1> SUFFICES ASSUME DataInv, ControlInv, [Next]_vars PROVE ControlInv'
  BY DEF TypeInv
<1>0. ASSUME UNCHANGED threads PROVE ControlInv'
  BY <1>0 DEF ControlInv, threads
<1>a. \A b \in Senders : b \notin Conns /\ b \in Threads
  OBVIOUS
<1>b. \A c \in Conns : c \notin Senders /\ c \in Threads
  OBVIOUS
<1>c. \A t \in Threads :
         /\ t \in Senders => back[t] \in {"visit", "collect"}
         /\ t \in Conns => back[t] = "ended"
         /\ pc[t] \notin {"idle", "visit", "collect"} => at[t] # Nobody
  BY DEF ControlInv
<1>d. \A b \in Senders : todo[b] \subseteq Conns /\ dead[b] \subseteq Conns
  BY DEF DataInv
<1> USE DEF SenderPc, ConnPc, Resume
<1>1. ASSUME NEW c \in Conns, Register(c) PROVE ControlInv'
  BY <1>1, <1>0, <1>a, <1>b, <1>c, <1>d, GotoControl, TurnControl DEF Register
<1>2. ASSUME NEW c \in Conns, Join(c) PROVE ControlInv'
  BY <1>2, <1>0, <1>a, <1>b, <1>c, <1>d, GotoControl, TurnControl DEF Join
<1>3. ASSUME NEW s \in Streams, RegisterAgain(s) PROVE ControlInv'
  BY <1>3, <1>0, <1>a, <1>b, <1>c, <1>d, GotoControl, TurnControl DEF RegisterAgain
<1>4. ASSUME NEW s \in Streams, StartStream(s) PROVE ControlInv'
  BY <1>4, <1>0, <1>a, <1>b, <1>c, <1>d, GotoControl, TurnControl DEF StartStream
<1>5. ASSUME NEW s \in Streams, LoopCheck(s) PROVE ControlInv'
  BY <1>5, <1>0, <1>a, <1>b, <1>c, <1>d, GotoControl, TurnControl DEF LoopCheck
<1>6. ASSUME NEW s \in Streams, Get(s) PROVE ControlInv'
  BY <1>6, <1>0, <1>a, <1>b, <1>c, <1>d, GotoControl, TurnControl DEF Get
<1>7. ASSUME NEW s \in Streams, Write(s) PROVE ControlInv'
  BY <1>7, <1>0, <1>a, <1>b, <1>c, <1>d, GotoControl, TurnControl DEF Write
<1>8. ASSUME NEW c \in Sockets, HandlerEnds(c) PROVE ControlInv'
  BY <1>8, <1>0, <1>a, <1>b, <1>c, <1>d, GotoControl, TurnControl DEF HandlerEnds
<1>9. ASSUME NEW c \in Sockets, WriterSends(c) PROVE ControlInv'
  BY <1>9, <1>0, <1>a, <1>b, <1>c, <1>d, GotoControl, TurnControl DEF WriterSends
<1>10. ASSUME NEW c \in Sockets, SocketCloses(c) PROVE ControlInv'
  BY <1>10, <1>0, <1>a, <1>b, <1>c, <1>d, GotoControl, TurnControl DEF SocketCloses
<1>11. ASSUME NEW b \in Senders, Broadcast(b) PROVE ControlInv'
  BY <1>11, <1>0, <1>a, <1>b, <1>c, <1>d, GotoControl, TurnControl DEF Broadcast
<1>12. ASSUME NEW b \in Senders, Kick(b) PROVE ControlInv'
  BY <1>12, <1>0, <1>a, <1>b, <1>c, <1>d, GotoControl, TurnControl DEF Kick
<1>13. ASSUME NEW b \in Senders, Leave(b) PROVE ControlInv'
  BY <1>13, <1>0, <1>a, <1>b, <1>c, <1>d, GotoControl, TurnControl DEF Leave
<1>14. ASSUME NEW b \in Senders, Visit(b) PROVE ControlInv'
  BY <1>14, <1>0, <1>a, <1>b, <1>c, <1>d, GotoControl, TurnControl DEF Visit
<1>15. ASSUME NEW b \in Senders, SendCheck(b) PROVE ControlInv'
  BY <1>15, <1>0, <1>a, <1>b, <1>c, <1>d, GotoControl, TurnControl DEF SendCheck
<1>16. ASSUME NEW b \in Senders, Put(b) PROVE ControlInv'
  BY <1>16, <1>0, <1>a, <1>b, <1>c, <1>d, GotoControl, TurnControl DEF Put
<1>17. ASSUME NEW b \in Senders, PutFull(b) PROVE ControlInv'
  BY <1>17, <1>0, <1>a, <1>b, <1>c, <1>d, GotoControl, TurnControl DEF PutFull
<1>18. ASSUME NEW b \in Senders, Collect(b) PROVE ControlInv'
  BY <1>18, <1>0, <1>a, <1>b, <1>c, <1>d, GotoControl, TurnControl DEF Collect
<1>19. ASSUME NEW t \in Threads, Unregister(t) PROVE ControlInv'
  BY <1>19, <1>0, <1>a, <1>b, <1>c, <1>d, GotoControl, TurnControl DEF Unregister
<1>20. ASSUME NEW t \in Threads, CloseCheck(t) PROVE ControlInv'
  BY <1>20, <1>0, <1>a, <1>b, <1>c, <1>d, GotoControl, TurnControl DEF CloseCheck
<1>21. ASSUME NEW t \in Threads, CloseSet(t) PROVE ControlInv'
  BY <1>21, <1>0, <1>a, <1>b, <1>c, <1>d, GotoControl, TurnControl DEF CloseSet
<1>22. ASSUME NEW t \in Threads, ClosePut(t) PROVE ControlInv'
  BY <1>22, <1>0, <1>a, <1>b, <1>c, <1>d, GotoControl, TurnControl DEF ClosePut
<1>23. CASE UNCHANGED vars
  BY <1>23, <1>0 DEF vars
<1>24. QED
  BY <1>1, <1>2, <1>3, <1>4, <1>5, <1>6, <1>7, <1>8, <1>9, <1>10, <1>11, <1>12,
     <1>13, <1>14, <1>15, <1>16, <1>17, <1>18, <1>19, <1>20, <1>21, <1>22, <1>23
     DEF Next, Serve, Send, Ending

LEMMA DataStep == TypeInv /\ [Next]_vars => DataInv'
<1> SUFFICES ASSUME DataInv, ControlInv, [Next]_vars PROVE DataInv'
  BY DEF TypeInv
<1> USE DEF DataInv, ControlInv, Full, Miss, indexes, conns, loops
<1>1. ASSUME NEW c \in Conns, Register(c) PROVE DataInv'
  BY <1>1 DEF Register
<1>2. ASSUME NEW c \in Conns, Join(c) PROVE DataInv'
  BY <1>2 DEF Join
<1>3. ASSUME NEW s \in Streams, RegisterAgain(s) PROVE DataInv'
  BY <1>3 DEF RegisterAgain
<1>4. ASSUME NEW s \in Streams, StartStream(s) PROVE DataInv'
  BY <1>4 DEF StartStream
<1>5. ASSUME NEW s \in Streams, LoopCheck(s) PROVE DataInv'
  BY <1>5 DEF LoopCheck
<1>6. ASSUME NEW s \in Streams, Get(s) PROVE DataInv'
  <2>1. s \in Conns /\ queue[s] \in Seq({Event, None}) /\ Len(queue[s]) <= MaxQueue
    OBVIOUS
  <2>2. CASE queue[s] # <<>> /\ queue' = [queue EXCEPT ![s] = Tail(@)]
    <3>1. Tail(queue[s]) \in Seq({Event, None}) /\ Len(Tail(queue[s])) <= MaxQueue
      BY <2>1, <2>2
    <3>2. UNCHANGED <<indexes, closed, loops, dropped>>
      BY <1>6 DEF Get
    <3>3. QED BY <2>1, <2>2, <3>1, <3>2
  <2>3. CASE UNCHANGED queue
    BY <1>6, <2>3 DEF Get
  <2>4. QED BY <1>6, <2>2, <2>3 DEF Get
<1>7. ASSUME NEW s \in Streams, Write(s) PROVE DataInv'
  BY <1>7 DEF Write
<1>8. ASSUME NEW c \in Sockets, HandlerEnds(c) PROVE DataInv'
  BY <1>8 DEF HandlerEnds
<1>9. ASSUME NEW c \in Sockets, WriterSends(c) PROVE DataInv'
  BY <1>9 DEF WriterSends
<1>10. ASSUME NEW c \in Sockets, SocketCloses(c) PROVE DataInv'
  BY <1>10 DEF SocketCloses
<1>11. ASSUME NEW b \in Senders, Broadcast(b) PROVE DataInv'
  BY <1>11 DEF Broadcast
<1>12. ASSUME NEW b \in Senders, Kick(b) PROVE DataInv'
  BY <1>12 DEF Kick
<1>13. ASSUME NEW b \in Senders, Leave(b) PROVE DataInv'
  BY <1>13 DEF Leave
<1>14. ASSUME NEW b \in Senders, Visit(b) PROVE DataInv'
  <2>1. UNCHANGED <<indexes, conns, dropped>>
    BY <1>14 DEF Visit
  <2>2. CASE UNCHANGED loops
    BY <2>1, <2>2
  <2>3. ASSUME NEW c \in todo[b], todo' = [todo EXCEPT ![b] = @ \ {c}],
               dead' = [dead EXCEPT ![b] = @ \cup {c}] \/ UNCHANGED dead
        PROVE  DataInv'
    BY <2>1, <2>3
  <2>4. QED BY <1>14, <2>2, <2>3 DEF Visit
<1>15. ASSUME NEW b \in Senders, SendCheck(b) PROVE DataInv'
  BY SMTT(30), <1>15 DEF SendCheck
<1>16. ASSUME NEW b \in Senders, Put(b) PROVE DataInv'
  BY <1>16 DEF Put
<1>17. ASSUME NEW b \in Senders, PutFull(b) PROVE DataInv'
  <2>1. at[b] \in Conns
    BY <1>17 DEF PutFull
  <2>2. dropped' \subseteq Conns \X Senders /\ UNCHANGED <<indexes, queue, todo>>
    BY <1>17, <2>1 DEF PutFull
  <2>3. dead' \in [Senders -> SUBSET Conns]
    <3>1. CASE at[b] \in Sockets
      <4>1. dead' = [dead EXCEPT ![b] = @ \cup {at[b]}]
        BY <1>17, <3>1 DEF PutFull
      <4>2. QED BY <2>1, <4>1
    <3>2. CASE at[b] \notin Sockets
      BY <1>17, <3>2 DEF PutFull
    <3>3. QED BY <3>1, <3>2
  <2>4. closed' \in [Conns -> BOOLEAN]
    <3>1. closed' = closed \/ closed' = [closed EXCEPT ![at[b]] = TRUE]
      BY <1>17 DEF PutFull
    <3>2. QED BY <2>1, <3>1
  <2>5. QED BY <2>1, <2>2, <2>3, <2>4
<1>18. ASSUME NEW b \in Senders, Collect(b) PROVE DataInv'
  BY <1>18 DEF Collect
<1>19. ASSUME NEW t \in Threads, Unregister(t) PROVE DataInv'
  BY <1>19 DEF Unregister
<1>20. ASSUME NEW t \in Threads, CloseCheck(t) PROVE DataInv'
  BY <1>20 DEF CloseCheck
<1>21. ASSUME NEW t \in Threads, CloseSet(t) PROVE DataInv'
  BY <1>21 DEF CloseSet
<1>22. ASSUME NEW t \in Threads, ClosePut(t) PROVE DataInv'
  BY <1>22 DEF ClosePut
<1>23. CASE UNCHANGED vars
  BY <1>23 DEF vars
<1>24. QED
  BY <1>1, <1>2, <1>3, <1>4, <1>5, <1>6, <1>7, <1>8, <1>9, <1>10, <1>11, <1>12,
     <1>13, <1>14, <1>15, <1>16, <1>17, <1>18, <1>19, <1>20, <1>21, <1>22, <1>23
     DEF Next, Serve, Send, Ending

(* A connection that is closed stays so, and a thread that is to close one *)
(* does so, unless another has done it.                                    *)
LEMMA CloserGoesOn ==
  ASSUME TypeInv, [Next]_vars, NEW t \in Threads, NEW c \in Conns
  PROVE  /\ closed[c] => closed'[c]
         /\ Closer(t, c) => Closer(t, c)' \/ closed'[c]
<1> DEFINE Done == (closed[c] => closed'[c]) /\ (Closer(t, c) => Closer(t, c)' \/ closed'[c])
<1> SUFFICES Done
  OBVIOUS
<1> USE DEF TypeInv, DataInv, ControlInv, Closer, Goto, Turn, Resume, conns, threads
<1>1. ASSUME NEW r \in Conns, Register(r) PROVE Done
  BY <1>1 DEF Register
<1>2. ASSUME NEW r \in Conns, Join(r) PROVE Done
  BY <1>2 DEF Join
<1>3. ASSUME NEW s \in Streams, RegisterAgain(s) PROVE Done
  BY <1>3 DEF RegisterAgain
<1>4. ASSUME NEW s \in Streams, StartStream(s) PROVE Done
  BY <1>4 DEF StartStream
<1>5. ASSUME NEW s \in Streams, LoopCheck(s) PROVE Done
  BY <1>5 DEF LoopCheck
<1>6. ASSUME NEW s \in Streams, Get(s) PROVE Done
  BY <1>6 DEF Get
<1>7. ASSUME NEW s \in Streams, Write(s) PROVE Done
  BY <1>7 DEF Write
<1>8. ASSUME NEW r \in Sockets, HandlerEnds(r) PROVE Done
  BY <1>8 DEF HandlerEnds
<1>9. ASSUME NEW r \in Sockets, WriterSends(r) PROVE Done
  BY <1>9 DEF WriterSends
<1>10. ASSUME NEW r \in Sockets, SocketCloses(r) PROVE Done
  BY <1>10 DEF SocketCloses
<1>11. ASSUME NEW b \in Senders, Broadcast(b) PROVE Done
  BY <1>11 DEF Broadcast
<1>12. ASSUME NEW b \in Senders, Kick(b) PROVE Done
  BY <1>12 DEF Kick
<1>13. ASSUME NEW b \in Senders, Leave(b) PROVE Done
  BY <1>13 DEF Leave
<1>14. ASSUME NEW b \in Senders, Visit(b) PROVE Done
  BY <1>14 DEF Visit
<1>15. ASSUME NEW b \in Senders, SendCheck(b) PROVE Done
  BY <1>15 DEF SendCheck
<1>16. ASSUME NEW b \in Senders, Put(b) PROVE Done
  BY <1>16 DEF Put
<1>17. ASSUME NEW b \in Senders, PutFull(b) PROVE Done
  BY SMTT(30), <1>17 DEF PutFull
<1>18. ASSUME NEW b \in Senders, Collect(b) PROVE Done
  BY <1>18 DEF Collect
<1>19. ASSUME NEW u \in Threads, Unregister(u) PROVE Done
  BY <1>19 DEF Unregister
<1>20. ASSUME NEW u \in Threads, CloseCheck(u) PROVE Done
  BY <1>20 DEF CloseCheck
<1>21. ASSUME NEW u \in Threads, CloseSet(u) PROVE Done
  BY <1>21 DEF CloseSet
<1>22. ASSUME NEW u \in Threads, ClosePut(u) PROVE Done
  BY <1>22 DEF ClosePut
<1>23. CASE UNCHANGED vars
  BY <1>23 DEF vars
<1>24. QED
  BY <1>1, <1>2, <1>3, <1>4, <1>5, <1>6, <1>7, <1>8, <1>9, <1>10, <1>11, <1>12,
     <1>13, <1>14, <1>15, <1>16, <1>17, <1>18, <1>19, <1>20, <1>21, <1>22, <1>23
     DEF Next, Serve, Send, Ending

LEMMA LossStep == TypeInv /\ LossInv /\ [Next]_vars => LossInv'
<1> SUFFICES ASSUME TypeInv, LossInv, [Next]_vars PROVE LossInv'
  OBVIOUS
<1>0. \A c \in Conns :
        /\ closed[c] => closed'[c]
        /\ \A t \in Threads : Closer(t, c) => Closer(t, c)' \/ closed'[c]
  BY CloserGoesOn
<1>a. ASSUME NEW u \in Senders, pc'[u] = pc[u], at'[u] = at[u],
             \A c \in Conns \cup {Nobody} : <<c, u>> \in dropped' => <<c, u>> \in dropped
      PROVE  LossOf(u)'
  <2>1. \A c \in Conns : Closer(u, c) => Closer(u, c)'
    BY <1>a DEF Closer
  <2>2. LossOf(u)
    BY DEF LossInv
  <2>3. pc[u] = "put" => at[u] \in Conns \cup {Nobody}
    BY DEF TypeInv, ControlInv
  <2>4. QED BY <1>0, <1>a, <2>1, <2>2, <2>3 DEF LossOf
<1> USE DEF TypeInv, DataInv, ControlInv, LossInv, LossOf, Closer, Goto, Turn, Resume, Miss, conns, threads
<1>1. ASSUME NEW c \in Conns, Register(c) PROVE LossInv'
  BY <1>1, <1>0 DEF Register
<1>2. ASSUME NEW c \in Conns, Join(c) PROVE LossInv'
  BY <1>2, <1>0 DEF Join
<1>3. ASSUME NEW s \in Streams, RegisterAgain(s) PROVE LossInv'
  BY <1>3, <1>0 DEF RegisterAgain
<1>4. ASSUME NEW s \in Streams, StartStream(s) PROVE LossInv'
  BY <1>4, <1>0 DEF StartStream
<1>5. ASSUME NEW s \in Streams, LoopCheck(s) PROVE LossInv'
  BY <1>5, <1>0 DEF LoopCheck
<1>6. ASSUME NEW s \in Streams, Get(s) PROVE LossInv'
  BY <1>6, <1>0 DEF Get
<1>7. ASSUME NEW s \in Streams, Write(s) PROVE LossInv'
  BY <1>7, <1>0 DEF Write
<1>8. ASSUME NEW c \in Sockets, HandlerEnds(c) PROVE LossInv'
  BY <1>8, <1>0 DEF HandlerEnds
<1>9. ASSUME NEW c \in Sockets, WriterSends(c) PROVE LossInv'
  BY <1>9, <1>0 DEF WriterSends
<1>10. ASSUME NEW c \in Sockets, SocketCloses(c) PROVE LossInv'
  BY <1>10, <1>0 DEF SocketCloses
<1>11. ASSUME NEW b \in Senders, Broadcast(b) PROVE LossInv'
  BY <1>11, <1>0 DEF Broadcast
<1>12. ASSUME NEW b \in Senders, Kick(b) PROVE LossInv'
  BY <1>12, <1>0 DEF Kick
<1>13. ASSUME NEW b \in Senders, Leave(b) PROVE LossInv'
  BY <1>13, <1>0 DEF Leave
<1>14. ASSUME NEW b \in Senders, Visit(b) PROVE LossInv'
  <2>1. \A u \in Senders \ {b} : pc'[u] = pc[u] /\ at'[u] = at[u]
    BY <1>14 DEF Visit
  <2>2. pc[b] \in {"visit", "collect"} /\ pc'[b] # "put" /\ dropped' = dropped
    BY <1>14 DEF Visit
  <2>3. \A c \in Conns : <<c, b>> \in dropped' => closed'[c]
    BY <1>0, <2>2
  <2>4. \A u \in Senders \ {b} : LossOf(u)'
    BY <1>a, <2>1, <2>2
  <2>5. LossOf(b)'
    BY <2>2, <2>3
  <2>6. QED BY <2>4, <2>5
<1>15. ASSUME NEW b \in Senders, SendCheck(b) PROVE LossInv'
  <2>1. \A u \in Senders \ {b} : pc'[u] = pc[u] /\ at'[u] = at[u]
    BY <1>15 DEF SendCheck
  <2>2. pc[b] = "send" /\ at[b] \in Conns
    BY <1>15 DEF SendCheck
  <2>3. CASE closed[at[b]]
    <3>1. dropped' = dropped \cup {<<at[b], b>>} /\ closed' = closed /\ pc'[b] = "visit"
      BY <1>15, <2>3 DEF SendCheck
    <3>2. \A u \in Senders, c \in Conns \cup {Nobody} :
            <<c, u>> \in dropped' => <<c, u>> \in dropped \/ (u = b /\ c = at[b])
      BY <3>1
    <3>3. \A c \in Conns : <<c, b>> \in dropped' => closed'[c]
      <4>1. \A c \in Conns : <<c, b>> \in dropped => closed[c]
        BY <2>2
      <4>2. QED BY <2>3, <3>1, <3>2, <4>1
    <3>4. \A u \in Senders \ {b} : LossOf(u)'
      BY <1>a, <2>1, <3>2
    <3>5. LossOf(b)'
      BY <3>1, <3>3
    <3>6. QED BY <3>4, <3>5
  <2>4. CASE ~closed[at[b]]
    <3>1. dropped' = dropped /\ closed' = closed /\ at'[b] = at[b] /\ pc'[b] = "put"
      BY <1>15, <2>4 DEF SendCheck
    <3>2. <<at[b], b>> \notin dropped
      BY <2>2, <2>4
    <3>3. \A c \in Conns : <<c, b>> \in dropped => closed[c]
      BY <2>2
    <3>4. \A u \in Senders \ {b} : LossOf(u)'
      BY <1>a, <2>1, <3>1
    <3>5. LossOf(b)'
      BY <3>1, <3>2, <3>3
    <3>6. QED BY <3>4, <3>5
  <2>5. QED BY <2>3, <2>4
<1>16. ASSUME NEW b \in Senders, Put(b) PROVE LossInv'
  BY <1>16, <1>0 DEF Put
<1>17. ASSUME NEW b \in Senders, PutFull(b) PROVE LossInv'
  <2>1. \A u \in Senders \ {b} : pc'[u] = pc[u] /\ at'[u] = at[u]
    BY <1>17 DEF PutFull
  <2>2. pc[b] = "put" /\ at[b] \in Conns /\ dropped' = dropped \cup {<<at[b], b>>}
    BY <1>17 DEF PutFull
  <2>3. pc'[b] # "put"
    BY <1>17 DEF PutFull
  <2>4. closed'[at[b]] \/ (at'[b] = at[b] /\ pc'[b] = "close")
    BY <1>17, <2>2 DEF PutFull
  <2>5. \A u \in Senders, c \in Conns \cup {Nobody} :
          <<c, u>> \in dropped' => <<c, u>> \in dropped \/ (u = b /\ c = at[b])
    BY <2>2
  <2>6. \A c \in Conns : <<c, b>> \in dropped => closed'[c]
    BY <1>0, <2>2
  <2>7. ASSUME NEW c \in Conns, <<c, b>> \in dropped' PROVE closed'[c] \/ Closer(b, c)'
    <3>1. CASE c = at[b]
      BY <2>4, <3>1
    <3>2. CASE c # at[b]
      BY <2>5, <2>6, <2>7, <3>2
    <3>3. QED BY <3>1, <3>2
  <2>8. \A u \in Senders \ {b} : LossOf(u)'
    BY <1>a, <2>1, <2>5
  <2>9. LossOf(b)'
    BY <2>3, <2>7
  <2>10. QED BY <2>8, <2>9
<1>18. ASSUME NEW b \in Senders, Collect(b) PROVE LossInv'
  <2>1. \A u \in Senders \ {b} : pc'[u] = pc[u] /\ at'[u] = at[u]
    BY <1>18 DEF Collect
  <2>2. pc[b] \in {"visit", "collect"} /\ pc'[b] # "put" /\ dropped' = dropped
    BY <1>18 DEF Collect
  <2>3. \A c \in Conns : <<c, b>> \in dropped' => closed'[c]
    BY <1>0, <2>2
  <2>4. \A u \in Senders \ {b} : LossOf(u)'
    BY <1>a, <2>1, <2>2
  <2>5. LossOf(b)'
    BY <2>2, <2>3
  <2>6. QED BY <2>4, <2>5
<1>19. ASSUME NEW t \in Threads, Unregister(t) PROVE LossInv'
  BY <1>19, <1>0 DEF Unregister
<1>20. ASSUME NEW t \in Threads, CloseCheck(t) PROVE LossInv'
  BY <1>20, <1>0 DEF CloseCheck
<1>21. ASSUME NEW t \in Threads, CloseSet(t) PROVE LossInv'
  BY <1>21, <1>0 DEF CloseSet
<1>22. ASSUME NEW t \in Threads, ClosePut(t) PROVE LossInv'
  BY <1>22, <1>0 DEF ClosePut
<1>23. CASE UNCHANGED vars
  BY <1>23 DEF vars
<1>24. QED
  BY <1>1, <1>2, <1>3, <1>4, <1>5, <1>6, <1>7, <1>8, <1>9, <1>10, <1>11, <1>12,
     <1>13, <1>14, <1>15, <1>16, <1>17, <1>18, <1>19, <1>20, <1>21, <1>22, <1>23
     DEF Next, Serve, Send, Ending

LEMMA ForgottenStep == TypeInv /\ ForgottenInv /\ [Next]_vars => ForgottenInv'
<1> SUFFICES ASSUME TypeInv, ForgottenInv, [Next]_vars PROVE ForgottenInv'
  OBVIOUS
<1>0. \A c \in Conns :
        /\ closed[c] => closed'[c]
        /\ \A t \in Threads : Closer(t, c) => Closer(t, c)' \/ closed'[c]
  BY CloserGoesOn
<1> USE DEF TypeInv, DataInv, ControlInv, ForgottenInv, Goto, Turn, Resume, Miss, indexes, threads
<1>1. ASSUME NEW c \in Conns, Register(c) PROVE ForgottenInv'
  BY <1>1, <1>0 DEF Register
<1>2. ASSUME NEW c \in Conns, Join(c) PROVE ForgottenInv'
  BY <1>2, <1>0 DEF Join
<1>3. ASSUME NEW s \in Streams, RegisterAgain(s) PROVE ForgottenInv'
  BY <1>3, <1>0 DEF RegisterAgain
<1>4. ASSUME NEW s \in Streams, StartStream(s) PROVE ForgottenInv'
  BY <1>4, <1>0 DEF StartStream
<1>5. ASSUME NEW s \in Streams, LoopCheck(s) PROVE ForgottenInv'
  BY <1>5, <1>0 DEF LoopCheck
<1>6. ASSUME NEW s \in Streams, Get(s) PROVE ForgottenInv'
  BY <1>6, <1>0 DEF Get
<1>7. ASSUME NEW s \in Streams, Write(s) PROVE ForgottenInv'
  BY <1>7, <1>0 DEF Write
<1>8. ASSUME NEW c \in Sockets, HandlerEnds(c) PROVE ForgottenInv'
  BY <1>8, <1>0 DEF HandlerEnds
<1>9. ASSUME NEW c \in Sockets, WriterSends(c) PROVE ForgottenInv'
  BY <1>9, <1>0 DEF WriterSends
<1>10. ASSUME NEW c \in Sockets, SocketCloses(c) PROVE ForgottenInv'
  BY <1>10, <1>0 DEF SocketCloses
<1>11. ASSUME NEW b \in Senders, Broadcast(b) PROVE ForgottenInv'
  BY <1>11, <1>0 DEF Broadcast
<1>12. ASSUME NEW b \in Senders, Kick(b) PROVE ForgottenInv'
  BY <1>12, <1>0 DEF Kick
<1>13. ASSUME NEW b \in Senders, Leave(b) PROVE ForgottenInv'
  BY <1>13, <1>0 DEF Leave
<1>14. ASSUME NEW b \in Senders, Visit(b) PROVE ForgottenInv'
  BY <1>14, <1>0 DEF Visit
<1>15. ASSUME NEW b \in Senders, SendCheck(b) PROVE ForgottenInv'
  BY <1>15, <1>0 DEF SendCheck
<1>16. ASSUME NEW b \in Senders, Put(b) PROVE ForgottenInv'
  BY <1>16, <1>0 DEF Put
<1>17. ASSUME NEW b \in Senders, PutFull(b) PROVE ForgottenInv'
  BY <1>17, <1>0 DEF PutFull
<1>18. ASSUME NEW b \in Senders, Collect(b) PROVE ForgottenInv'
  BY <1>18, <1>0 DEF Collect
<1>19. ASSUME NEW t \in Threads, Unregister(t) PROVE ForgottenInv'
  BY <1>19, <1>0 DEF Unregister
<1>20. ASSUME NEW t \in Threads, CloseCheck(t) PROVE ForgottenInv'
  BY <1>20, <1>0 DEF CloseCheck
<1>21. ASSUME NEW t \in Threads, CloseSet(t) PROVE ForgottenInv'
  BY <1>21, <1>0 DEF CloseSet
<1>22. ASSUME NEW t \in Threads, ClosePut(t) PROVE ForgottenInv'
  BY <1>22, <1>0 DEF ClosePut
<1>23. CASE UNCHANGED vars
  BY <1>23 DEF vars
<1>24. QED
  BY <1>1, <1>2, <1>3, <1>4, <1>5, <1>6, <1>7, <1>8, <1>9, <1>10, <1>11, <1>12,
     <1>13, <1>14, <1>15, <1>16, <1>17, <1>18, <1>19, <1>20, <1>21, <1>22, <1>23
     DEF Next, Serve, Send, Ending

LEMMA AccountedStep == TypeInv /\ AccountedInv /\ [Next]_vars => AccountedInv'
<1> SUFFICES ASSUME TypeInv, AccountedInv, [Next]_vars PROVE AccountedInv'
  OBVIOUS
<1>0. \A c \in Conns :
        /\ closed[c] => closed'[c]
        /\ \A t \in Threads : Closer(t, c) => Closer(t, c)' \/ closed'[c]
  BY CloserGoesOn
<1>a. ASSUME UNCHANGED indexes, \A c \in Conns : pc'[c] = "new" <=> pc[c] = "new"
      PROVE  AccountedInv'
  BY <1>0, <1>a DEF AccountedInv, indexes
<1> USE DEF TypeInv, DataInv, ControlInv, AccountedInv, Goto, Turn, Resume, Miss, indexes, threads
<1>1. ASSUME NEW c \in Conns, Register(c) PROVE AccountedInv'
  BY <1>1, <1>0 DEF Register
<1>2. ASSUME NEW c \in Conns, Join(c) PROVE AccountedInv'
  BY <1>2, <1>0 DEF Join
<1>3. ASSUME NEW s \in Streams, RegisterAgain(s) PROVE AccountedInv'
  BY <1>3, <1>0 DEF RegisterAgain
<1>4. ASSUME NEW s \in Streams, StartStream(s) PROVE AccountedInv'
  <2>1. UNCHANGED indexes
    BY <1>4 DEF StartStream
  <2>2. \A d \in Conns : pc'[d] = "new" <=> pc[d] = "new"
    BY <1>4 DEF StartStream
  <2>3. QED BY <1>a, <2>1, <2>2
<1>5. ASSUME NEW s \in Streams, LoopCheck(s) PROVE AccountedInv'
  <2>1. UNCHANGED indexes
    BY <1>5 DEF LoopCheck
  <2>2. \A d \in Conns : pc'[d] = "new" <=> pc[d] = "new"
    BY <1>5 DEF LoopCheck
  <2>3. QED BY <1>a, <2>1, <2>2
<1>6. ASSUME NEW s \in Streams, Get(s) PROVE AccountedInv'
  <2>1. UNCHANGED indexes
    BY <1>6 DEF Get
  <2>2. \A d \in Conns : pc'[d] = "new" <=> pc[d] = "new"
    BY <1>6 DEF Get
  <2>3. QED BY <1>a, <2>1, <2>2
<1>7. ASSUME NEW s \in Streams, Write(s) PROVE AccountedInv'
  <2>1. UNCHANGED indexes
    BY <1>7 DEF Write
  <2>2. \A d \in Conns : pc'[d] = "new" <=> pc[d] = "new"
    BY <1>7 DEF Write
  <2>3. QED BY <1>a, <2>1, <2>2
<1>8. ASSUME NEW c \in Sockets, HandlerEnds(c) PROVE AccountedInv'
  <2>1. UNCHANGED indexes
    BY <1>8 DEF HandlerEnds
  <2>2. \A d \in Conns : pc'[d] = "new" <=> pc[d] = "new"
    BY <1>8 DEF HandlerEnds
  <2>3. QED BY <1>a, <2>1, <2>2
<1>9. ASSUME NEW c \in Sockets, WriterSends(c) PROVE AccountedInv'
  <2>1. UNCHANGED indexes
    BY <1>9 DEF WriterSends
  <2>2. \A d \in Conns : pc'[d] = "new" <=> pc[d] = "new"
    BY <1>9 DEF WriterSends
  <2>3. QED BY <1>a, <2>1, <2>2
<1>10. ASSUME NEW c \in Sockets, SocketCloses(c) PROVE AccountedInv'
  <2>1. UNCHANGED indexes
    BY <1>10 DEF SocketCloses
  <2>2. \A d \in Conns : pc'[d] = "new" <=> pc[d] = "new"
    BY <1>10 DEF SocketCloses
  <2>3. QED BY <1>a, <2>1, <2>2
<1>11. ASSUME NEW b \in Senders, Broadcast(b) PROVE AccountedInv'
  <2>1. UNCHANGED indexes
    BY <1>11 DEF Broadcast
  <2>2. \A d \in Conns : pc'[d] = "new" <=> pc[d] = "new"
    BY <1>11 DEF Broadcast
  <2>3. QED BY <1>a, <2>1, <2>2
<1>12. ASSUME NEW b \in Senders, Kick(b) PROVE AccountedInv'
  <2>1. UNCHANGED indexes
    BY <1>12 DEF Kick
  <2>2. \A d \in Conns : pc'[d] = "new" <=> pc[d] = "new"
    BY <1>12 DEF Kick
  <2>3. QED BY <1>a, <2>1, <2>2
<1>13. ASSUME NEW b \in Senders, Leave(b) PROVE AccountedInv'
  BY <1>13, <1>0 DEF Leave
<1>14. ASSUME NEW b \in Senders, Visit(b) PROVE AccountedInv'
  <2>1. UNCHANGED indexes
    BY <1>14 DEF Visit
  <2>2. \A d \in Conns : pc'[d] = "new" <=> pc[d] = "new"
    BY <1>14 DEF Visit
  <2>3. QED BY <1>a, <2>1, <2>2
<1>15. ASSUME NEW b \in Senders, SendCheck(b) PROVE AccountedInv'
  <2>1. UNCHANGED indexes
    BY <1>15 DEF SendCheck
  <2>2. \A d \in Conns : pc'[d] = "new" <=> pc[d] = "new"
    BY <1>15 DEF SendCheck
  <2>3. QED BY <1>a, <2>1, <2>2
<1>16. ASSUME NEW b \in Senders, Put(b) PROVE AccountedInv'
  <2>1. UNCHANGED indexes
    BY <1>16 DEF Put
  <2>2. \A d \in Conns : pc'[d] = "new" <=> pc[d] = "new"
    BY <1>16 DEF Put
  <2>3. QED BY <1>a, <2>1, <2>2
<1>17. ASSUME NEW b \in Senders, PutFull(b) PROVE AccountedInv'
  <2>1. UNCHANGED indexes
    BY <1>17 DEF PutFull
  <2>2. \A d \in Conns : pc'[d] = "new" <=> pc[d] = "new"
    BY <1>17 DEF PutFull
  <2>3. QED BY <1>a, <2>1, <2>2
<1>18. ASSUME NEW b \in Senders, Collect(b) PROVE AccountedInv'
  <2>1. UNCHANGED indexes
    BY <1>18 DEF Collect
  <2>2. \A d \in Conns : pc'[d] = "new" <=> pc[d] = "new"
    BY <1>18 DEF Collect
  <2>3. QED BY <1>a, <2>1, <2>2
<1>19. ASSUME NEW t \in Threads, Unregister(t) PROVE AccountedInv'
  <2>1. sessions' = sessions \ {at[t]} /\ room' \subseteq room /\ users' = users \ {at[t]}
    BY <1>19 DEF Unregister
  <2>2. pc' = [pc EXCEPT ![t] = "close"] /\ Closer(t, at[t])'
    BY <1>19 DEF Unregister, Closer
  <2>3. QED BY <1>0, <1>19, <2>1, <2>2 DEF Unregister
<1>20. ASSUME NEW t \in Threads, CloseCheck(t) PROVE AccountedInv'
  <2>1. UNCHANGED indexes
    BY <1>20 DEF CloseCheck
  <2>2. \A d \in Conns : pc'[d] = "new" <=> pc[d] = "new"
    BY <1>20 DEF CloseCheck
  <2>3. QED BY <1>a, <2>1, <2>2
<1>21. ASSUME NEW t \in Threads, CloseSet(t) PROVE AccountedInv'
  <2>1. UNCHANGED indexes
    BY <1>21 DEF CloseSet
  <2>2. \A d \in Conns : pc'[d] = "new" <=> pc[d] = "new"
    BY <1>21 DEF CloseSet
  <2>3. QED BY <1>a, <2>1, <2>2
<1>22. ASSUME NEW t \in Threads, ClosePut(t) PROVE AccountedInv'
  <2>1. UNCHANGED indexes
    BY <1>22 DEF ClosePut
  <2>2. \A d \in Conns : pc'[d] = "new" <=> pc[d] = "new"
    BY <1>22 DEF ClosePut
  <2>3. QED BY <1>a, <2>1, <2>2
<1>23. CASE UNCHANGED vars
  BY <1>23, <1>0 DEF vars
<1>24. QED
  BY <1>1, <1>2, <1>3, <1>4, <1>5, <1>6, <1>7, <1>8, <1>9, <1>10, <1>11, <1>12,
     <1>13, <1>14, <1>15, <1>16, <1>17, <1>18, <1>19, <1>20, <1>21, <1>22, <1>23
     DEF Next, Serve, Send, Ending

(* The reader of a closed stream waits on an empty queue, and a thread is  *)
(* about to wake it.                                                       *)
Waits(s) == closed[s] /\ pc[s] = "get" /\ queue[s] = <<>>
Waker(t, s) == at[t] = s /\ pc[t] = "close_put"

LEMMA WakerGoesOn ==
  ASSUME TypeInv, [Next]_vars, NEW t \in Threads, NEW s \in Streams
  PROVE  Waker(t, s) => Waker(t, s)' \/ ~Waits(s)'
<1> DEFINE Woken == Waker(t, s) => Waker(t, s)' \/ ~Waits(s)'
<1> SUFFICES Woken
  OBVIOUS
<1> USE DEF TypeInv, DataInv, ControlInv, Waits, Waker, Goto, Turn, Resume, Full, conns, threads
<1>1. ASSUME NEW c \in Conns, Register(c) PROVE Woken
  BY <1>1 DEF Register
<1>2. ASSUME NEW c \in Conns, Join(c) PROVE Woken
  BY <1>2 DEF Join
<1>3. ASSUME NEW r \in Streams, RegisterAgain(r) PROVE Woken
  BY <1>3 DEF RegisterAgain
<1>4. ASSUME NEW r \in Streams, StartStream(r) PROVE Woken
  BY <1>4 DEF StartStream
<1>5. ASSUME NEW r \in Streams, LoopCheck(r) PROVE Woken
  BY <1>5 DEF LoopCheck
<1>6. ASSUME NEW r \in Streams, Get(r) PROVE Woken
  BY <1>6 DEF Get
<1>7. ASSUME NEW r \in Streams, Write(r) PROVE Woken
  BY <1>7 DEF Write
<1>8. ASSUME NEW c \in Sockets, HandlerEnds(c) PROVE Woken
  BY <1>8 DEF HandlerEnds
<1>9. ASSUME NEW c \in Sockets, WriterSends(c) PROVE Woken
  BY <1>9 DEF WriterSends
<1>10. ASSUME NEW c \in Sockets, SocketCloses(c) PROVE Woken
  BY <1>10 DEF SocketCloses
<1>11. ASSUME NEW b \in Senders, Broadcast(b) PROVE Woken
  BY <1>11 DEF Broadcast
<1>12. ASSUME NEW b \in Senders, Kick(b) PROVE Woken
  BY <1>12 DEF Kick
<1>13. ASSUME NEW b \in Senders, Leave(b) PROVE Woken
  BY <1>13 DEF Leave
<1>14. ASSUME NEW b \in Senders, Visit(b) PROVE Woken
  BY <1>14 DEF Visit
<1>15. ASSUME NEW b \in Senders, SendCheck(b) PROVE Woken
  BY <1>15 DEF SendCheck
<1>16. ASSUME NEW b \in Senders, Put(b) PROVE Woken
  BY <1>16 DEF Put
<1>17. ASSUME NEW b \in Senders, PutFull(b) PROVE Woken
  BY <1>17 DEF PutFull
<1>18. ASSUME NEW b \in Senders, Collect(b) PROVE Woken
  BY <1>18 DEF Collect
<1>19. ASSUME NEW u \in Threads, Unregister(u) PROVE Woken
  BY <1>19 DEF Unregister
<1>20. ASSUME NEW u \in Threads, CloseCheck(u) PROVE Woken
  BY <1>20 DEF CloseCheck
<1>21. ASSUME NEW u \in Threads, CloseSet(u) PROVE Woken
  BY <1>21 DEF CloseSet
<1>22. ASSUME NEW u \in Threads, ClosePut(u) PROVE Woken
  <2>1. CASE u = t
    <3>1. SUFFICES ASSUME at[t] = s PROVE queue'[s] # <<>>
      BY <2>1
    <3>2. s \in Conns /\ queue[s] \in Seq({Event, None}) /\ MaxQueue \in Nat \ {0}
      OBVIOUS
    <3>3. CASE Full(s)
      BY <1>22, <2>1, <3>1, <3>2, <3>3 DEF ClosePut
    <3>4. CASE ~Full(s)
      <4>1. queue'[s] = Append(queue[s], None)
        BY <1>22, <2>1, <3>1, <3>2, <3>4 DEF ClosePut
      <4>2. Append(queue[s], None) # <<>>
        BY <3>2, NoneEndsQueue
      <4>3. QED BY <3>2, <4>1, <4>2
    <3>5. QED BY <3>3, <3>4
  <2>2. CASE u # t
    BY <1>22, <2>2 DEF ClosePut
  <2>3. QED BY <2>1, <2>2
<1>23. CASE UNCHANGED vars
  BY <1>23 DEF vars
<1>24. QED
  BY <1>1, <1>2, <1>3, <1>4, <1>5, <1>6, <1>7, <1>8, <1>9, <1>10, <1>11, <1>12,
     <1>13, <1>14, <1>15, <1>16, <1>17, <1>18, <1>19, <1>20, <1>21, <1>22, <1>23
     DEF Next, Serve, Send, Ending

LEMMA WaitBegins ==
  ASSUME TypeInv, [Next]_vars, NEW s \in Streams, Waits(s)', ~Waits(s)
  PROVE  \E t \in Threads : Waker(t, s)'
<1> DEFINE Woken == \E t \in Threads : Waker(t, s)'
<1> SUFFICES Woken
  OBVIOUS
<1>a. ASSUME pc'[s] = pc[s], closed' = closed, queue' = queue PROVE FALSE
  BY <1>a DEF Waits
<1> USE DEF TypeInv, DataInv, ControlInv, Waits, Goto, Turn, Resume, Miss, Full, conns, threads
<1>1. ASSUME NEW c \in Conns, Register(c) PROVE Woken
  BY <1>1, <1>a DEF Register
<1>2. ASSUME NEW c \in Conns, Join(c) PROVE Woken
  BY <1>2, <1>a DEF Join
<1>3. ASSUME NEW r \in Streams, RegisterAgain(r) PROVE Woken
  BY <1>3 DEF RegisterAgain
<1>4. ASSUME NEW r \in Streams, StartStream(r) PROVE Woken
  BY <1>4 DEF StartStream
<1>5. ASSUME NEW r \in Streams, LoopCheck(r) PROVE Woken
  BY <1>5 DEF LoopCheck
<1>6. ASSUME NEW r \in Streams, Get(r) PROVE Woken
  BY <1>6 DEF Get
<1>7. ASSUME NEW r \in Streams, Write(r) PROVE Woken
  BY <1>7 DEF Write
<1>8. ASSUME NEW c \in Sockets, HandlerEnds(c) PROVE Woken
  BY <1>8, <1>a DEF HandlerEnds
<1>9. ASSUME NEW c \in Sockets, WriterSends(c) PROVE Woken
  BY <1>9 DEF WriterSends
<1>10. ASSUME NEW c \in Sockets, SocketCloses(c) PROVE Woken
  BY <1>10 DEF SocketCloses
<1>11. ASSUME NEW b \in Senders, Broadcast(b) PROVE Woken
  <2>1. pc'[s] = pc[s] /\ closed' = closed /\ queue' = queue
    BY <1>11 DEF Broadcast
  <2>2. QED BY <1>a, <2>1
<1>12. ASSUME NEW b \in Senders, Kick(b) PROVE Woken
  <2>1. pc'[s] = pc[s] /\ closed' = closed /\ queue' = queue
    BY <1>12 DEF Kick
  <2>2. QED BY <1>a, <2>1
<1>13. ASSUME NEW b \in Senders, Leave(b) PROVE Woken
  BY <1>13 DEF Leave
<1>14. ASSUME NEW b \in Senders, Visit(b) PROVE Woken
  <2>1. pc'[s] = pc[s] /\ closed' = closed /\ queue' = queue
    BY <1>14 DEF Visit
  <2>2. QED BY <1>a, <2>1
<1>15. ASSUME NEW b \in Senders, SendCheck(b) PROVE Woken
  BY <1>15 DEF SendCheck
<1>16. ASSUME NEW b \in Senders, Put(b) PROVE Woken
  <2>1. pc'[s] = pc[s] /\ closed' = closed
    BY <1>16 DEF Put
  <2>2. at[b] \in Conns /\ queue' = [queue EXCEPT ![at[b]] = Append(@, Event)]
    BY <1>16 DEF Put
  <2>3. at[b] = s /\ queue'[s] = Append(queue[s], Event) /\ queue'[s] = <<>>
    BY <2>1, <2>2
  <2>4. Len(Append(queue[s], Event)) = Len(queue[s]) + 1 /\ Len(queue[s]) \in Nat
    OBVIOUS
  <2>5. QED BY <2>3, <2>4
<1>17. ASSUME NEW b \in Senders, PutFull(b) PROVE Woken
  BY <1>17 DEF PutFull
<1>18. ASSUME NEW b \in Senders, Collect(b) PROVE Woken
  <2>1. pc'[s] = pc[s] /\ closed' = closed /\ queue' = queue
    BY <1>18 DEF Collect
  <2>2. QED BY <1>a, <2>1
<1>19. ASSUME NEW t \in Threads, Unregister(t) PROVE Woken
  BY <1>19 DEF Unregister
<1>20. ASSUME NEW t \in Threads, CloseCheck(t) PROVE Woken
  BY <1>20 DEF CloseCheck
<1>21. ASSUME NEW t \in Threads, CloseSet(t) PROVE Woken
  <2>1. pc'[s] = "get" /\ closed'[s] /\ queue' = queue /\ closed' = [closed EXCEPT ![at[t]] = TRUE]
    BY <1>21 DEF CloseSet
  <2>2. pc[s] = "get"
    BY <1>21, <2>1 DEF CloseSet
  <2>3. at[t] = s
    BY <2>1, <2>2
  <2>4. QED BY <1>21, <2>3 DEF CloseSet, Waker
<1>22. ASSUME NEW t \in Threads, ClosePut(t) PROVE Woken
  <2>1. pc'[s] = "get" /\ closed' = closed
    BY <1>22 DEF ClosePut
  <2>2. pc[s] = "get"
    BY <1>22, <2>1 DEF ClosePut
  <2>3. queue[s] # <<>> /\ queue[s] \in Seq({Event, None}) /\ queue'[s] = <<>>
    BY <2>1, <2>2
  <2>4. queue'[s] = queue[s] \/ queue'[s] = Append(queue[s], None)
    BY <1>22 DEF ClosePut
  <2>5. QED BY SMTT(30), <2>3, <2>4
<1>23. CASE UNCHANGED vars
  BY <1>23 DEF vars
<1>24. QED
  BY <1>1, <1>2, <1>3, <1>4, <1>5, <1>6, <1>7, <1>8, <1>9, <1>10, <1>11, <1>12,
     <1>13, <1>14, <1>15, <1>16, <1>17, <1>18, <1>19, <1>20, <1>21, <1>22, <1>23
     DEF Next, Serve, Send, Ending

LEMMA WokenStep == TypeInv /\ ReaderIsWoken /\ [Next]_vars => ReaderIsWoken'
<1> SUFFICES ASSUME TypeInv, ReaderIsWoken, [Next]_vars, NEW s \in Streams, Waits(s)'
             PROVE  \E t \in Threads : Waker(t, s)'
  BY DEF ReaderIsWoken, Waits, Waker
<1>1. CASE Waits(s)
  <2>1. PICK t \in Threads : Waker(t, s)
    BY <1>1 DEF ReaderIsWoken, Waits, Waker
  <2>2. QED BY <2>1, WakerGoesOn
<1>2. CASE ~Waits(s)
  BY <1>2, WaitBegins
<1>3. QED BY <1>1, <1>2

LEMMA NextInv == Inv /\ [Next]_vars => Inv'
BY ControlStep, DataStep, LossStep, ForgottenStep, AccountedStep, WokenStep DEF Inv, TypeInv

LEMMA Invariance == Spec => []Inv
BY InitInv, NextInv, PTL DEF Spec

-----------------------------------------------------------------------------
(* Queues stay within their size, and every thread where its code is       *)
(* (eventhub.py 20-21, 88-96, 213-241).                                    *)
THEOREM HubTypes == Spec => []TypeOK
<1>1. Inv => TypeOK
  BY DEF Inv, TypeInv, DataInv, ControlInv, SenderPc, ConnPc, TypeOK
<1>2. QED BY <1>1, Invariance, PTL

(* A connection that lost an event is closed, or about to be.              *)
THEOREM LossCloses == Spec => []LossClosesConnection
<1>1. Inv => LossClosesConnection
  BY DEF Inv, LossInv, LossOf, Closer, LossClosesConnection, Closing
<1>2. QED BY <1>1, Invariance, PTL

(* No later event of the sender reaches a connection that missed one.      *)
THEOREM PrefixPerSender == Spec => NoGapPerSender
<1> DEFINE NoGap == \A b \in Senders : pc[b] = "put" /\ queue' # queue /\ pc'[b] = "visit"
                                      => <<at[b], b>> \notin dropped
<1>1. Inv => NoGap
  BY DEF Inv, LossInv, LossOf
<1>2. QED BY <1>1, Invariance, PTL DEF NoGapPerSender

(* The None that ends a queue is there, or on its way, whenever the reader *)
(* of a closed stream waits for it.                                        *)
THEOREM ReadersWoken == Spec => []ReaderIsWoken
<1>1. Inv => ReaderIsWoken
  BY DEF Inv
<1>2. QED BY <1>1, Invariance, PTL

(* A connection whose worker has ended is in no index of the hub.          *)
THEOREM EndedForgotten == Spec => []EndedIsForgotten
<1>1. Inv => EndedIsForgotten
  BY DEF Inv, ForgottenInv, EndedIsForgotten
<1>2. QED BY <1>1, Invariance, PTL

(* A member of the room that is not registered is closed, or about to be.  *)
THEOREM MembersKnown == Spec => []MembersAccounted
<1>1. Inv => MembersAccounted
  BY DEF Inv, TypeInv, DataInv, AccountedInv, Closer, MembersAccounted, Closing
<1>2. QED BY <1>1, Invariance, PTL
=============================================================================
