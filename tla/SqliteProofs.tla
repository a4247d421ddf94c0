---------------------------- MODULE SqliteProofs ----------------------------
(***************************************************************************)
(* The two components that keep tables in SQLite, the task queue and the   *)
(* ORM, and the validation of what is stored there.                        *)
(*                                                                         *)
(* A queue whose database has one worker implements TaskLedger, for every  *)
(* number of tasks and retries, through crashes, restarts and database     *)
(* errors at any statement; and it never executes a task more often than   *)
(* max_retries.  The inductive invariant says what the thread's locals     *)
(* know of its row; with a second worker it is false.                      *)
(*                                                                         *)
(* Objects of the ORM keep their identity, and what fails is a conflict,   *)
(* for any number of threads, processes and calls, and for any conversion  *)
(* between field values and columns.                                       *)
(*                                                                         *)
(* What the validation returns is of the declared type, and what was of    *)
(* the type already is kept, for any dataclasses (ValidationAssumption:    *)
(* their types are closed, their defaults of the declared type) and any    *)
(* depth of calls and values, by induction over the levels of both.        *)
(*                                                                         *)
(* What is saved is read back, for every declared type that a column       *)
(* keeps (Storable), and what the published schema admits is accepted, by  *)
(* the same induction over asdict, json.dumps and the schemas.             *)
(***************************************************************************)
EXTENDS TaskQueue, ModelColumns, WellFoundedInduction, TLAPS

-----------------------------------------------------------------------------
(* The task queue.                                                         *)

OneWorker == \A v, w \in Workers : v = w

(* What the thread holds of its row, statement by statement.               *)
ThreadKnows ==
  \A w \in Workers :
    /\ pc[w] \in {"claim"} \cup Holding => task[w] \in Tasks
    /\ pc[w] = "claim" =>
         status[task[w]] = "pending" /\ tries[w] = attempts[task[w]]
    /\ pc[w] \in Holding => status[task[w]] = "running"
    /\ pc[w] \in {"execute", "record_done"} => tries[w] = attempts[task[w]]
    /\ pc[w] = "record_failure" => tries[w] = attempts[task[w]] + 1

(* Each execution is in attempts, in done, or the thread's current one.    *)
Counted ==
  /\ \A t \in Tasks :
       /\ attempts[t] <= MaxRetries
       /\ status[t] \in {"absent", "pending", "running"} => attempts[t] < MaxRetries
       /\ runs[t] <= attempts[t] + 1
       /\ status[t] \in {"absent", "pending", "dead"} => runs[t] = attempts[t]
       /\ status[t] = "done" => runs[t] = attempts[t] + 1 /\ attempts[t] < MaxRetries
  /\ \A w \in Workers :
       /\ pc[w] = "execute" => runs[task[w]] = attempts[task[w]]
       /\ pc[w] \in {"record_done", "record_failure"} =>
            runs[task[w]] = attempts[task[w]] + 1

(* RunningIsHeld, for the one worker.                                      *)
Held ==
  \A t \in Tasks : status[t] = "running" =>
    t \in lost \/ \E w \in Workers : pc[w] \in Holding /\ task[w] = t

Inv == TypeOK /\ ThreadKnows /\ Counted /\ Held

\* The invariant holds at the start.
LEMMA InitInv == Init => Inv
BY QueueAssumption
   DEF Init, Inv, TypeOK, ThreadKnows, Counted, Held, Holding

(* A counter of a function of counters goes up by one.                     *)
LEMMA BumpType ==
  ASSUME NEW S, NEW f \in [S -> Nat], NEW x \in S
  PROVE  [f EXCEPT ![x] = @ + 1] \in [S -> Nat]
OBVIOUS

(* Every step keeps the types.                                             *)
LEMMA TypeStep == OneWorker /\ TypeOK /\ ThreadKnows /\ [Next]_vars => TypeOK'
<1> SUFFICES ASSUME OneWorker, TypeOK /\ ThreadKnows, [Next]_vars PROVE TypeOK'
  OBVIOUS
<1> USE QueueAssumption DEF TypeOK, ThreadKnows,
        Holding, Goto, Leave, queueTable, thread, history
<1>1. ASSUME NEW t \in Tasks, Enqueue(t) PROVE TypeOK'
  BY <1>1 DEF Enqueue
<1>2. CASE Tick
  BY <1>2 DEF Tick
<1>3. ASSUME NEW w \in Workers, LoopCheck(w) PROVE TypeOK'
  BY <1>3, OneWorker DEF LoopCheck, OneWorker
<1>4. ASSUME NEW w \in Workers, Select(w) PROVE TypeOK'
  BY <1>4, OneWorker DEF Select, OneWorker
<1>5. ASSUME NEW w \in Workers, Claim(w) PROVE TypeOK'
  BY <1>5, OneWorker DEF Claim, OneWorker
<1>6. ASSUME NEW w \in Workers, Execute(w) PROVE TypeOK'
  <2>1. runs' \in [Tasks -> Nat]
    <3>1. runs' = [runs EXCEPT ![task[w]] = @ + 1] BY <1>6 DEF Execute
    <3>2. task[w] \in Tasks BY <1>6 DEF Execute
    <3>3. runs \in [Tasks -> Nat] OBVIOUS
    <3>4. QED BY <3>1, <3>2, <3>3, BumpType
  <2>2. tries' \in [Workers -> Nat] BY <1>6 DEF Execute
  <2>3. pc' \in [Workers -> {"none", "loop", "select", "claim"} \cup Holding]
    BY <1>6 DEF Execute
  <2>4. QED BY <1>6, <2>1, <2>2, <2>3 DEF Execute
<1>7. ASSUME NEW w \in Workers, RecordDone(w) PROVE TypeOK'
  BY <1>7, OneWorker DEF RecordDone, OneWorker
<1>8. ASSUME NEW w \in Workers, RecordDoneFails(w) PROVE TypeOK'
  BY <1>8, OneWorker DEF RecordDoneFails, OneWorker
<1>9. ASSUME NEW w \in Workers, RecordFailure(w) PROVE TypeOK'
  BY <1>9, OneWorker DEF RecordFailure, OneWorker
<1>10. ASSUME NEW w \in Workers, ThreadDies(w) PROVE TypeOK'
  BY <1>10, OneWorker DEF ThreadDies, OneWorker
<1>11. ASSUME NEW w \in Workers, Crash(w) PROVE TypeOK'
  BY <1>11, OneWorker DEF Crash, OneWorker
<1>12. ASSUME NEW w \in Workers, Start(w) PROVE TypeOK'
  BY <1>12, OneWorker DEF Start, OneWorker
<1>13. ASSUME NEW w \in Workers, Stop(w) PROVE TypeOK'
  BY <1>13, OneWorker DEF Stop, OneWorker
<1>14. CASE UNCHANGED vars
  BY <1>14 DEF vars
<1>15. QED
  BY <1>1, <1>2, <1>3, <1>4, <1>5, <1>6, <1>7, <1>8, <1>9, <1>10, <1>11,
     <1>12, <1>13, <1>14 DEF Next, Work

(* No step contradicts what the thread knows of its row: with one worker,  *)
(* nobody else changes a row it has selected.                              *)
LEMMA ThreadStep == OneWorker /\ TypeOK /\ ThreadKnows /\ [Next]_vars => ThreadKnows'
<1> SUFFICES ASSUME OneWorker, TypeOK /\ ThreadKnows, [Next]_vars PROVE ThreadKnows'
  OBVIOUS
<1> USE QueueAssumption DEF TypeOK, ThreadKnows,
        Holding, Goto, Leave, queueTable, thread, history
<1>1. ASSUME NEW t \in Tasks, Enqueue(t) PROVE ThreadKnows'
  BY <1>1 DEF Enqueue
<1>2. CASE Tick
  BY <1>2 DEF Tick
<1>3. ASSUME NEW w \in Workers, LoopCheck(w) PROVE ThreadKnows'
  BY <1>3, OneWorker DEF LoopCheck, OneWorker
<1>4. ASSUME NEW w \in Workers, Select(w) PROVE ThreadKnows'
  <2>1. UNCHANGED <<status, attempts>> BY <1>4 DEF Select
  <2>2. ASSUME NEW t \in Tasks, Due(t), task' = [task EXCEPT ![w] = t],
               tries' = [tries EXCEPT ![w] = attempts[t]],
               pc' = [pc EXCEPT ![w] = "claim"]
        PROVE  ThreadKnows'
    BY <2>1, <2>2 DEF Due
  <2>3. CASE Goto(w, "loop")
    BY <2>1, <2>3
  <2>4. QED BY <1>4, <2>2, <2>3 DEF Select
<1>5. ASSUME NEW w \in Workers, Claim(w) PROVE ThreadKnows'
  BY <1>5, OneWorker DEF Claim, OneWorker
<1>6. ASSUME NEW w \in Workers, Execute(w) PROVE ThreadKnows'
  BY <1>6, OneWorker DEF Execute, OneWorker
<1>7. ASSUME NEW w \in Workers, RecordDone(w) PROVE ThreadKnows'
  BY <1>7, OneWorker DEF RecordDone, OneWorker
<1>8. ASSUME NEW w \in Workers, RecordDoneFails(w) PROVE ThreadKnows'
  BY <1>8, OneWorker DEF RecordDoneFails, OneWorker
<1>9. ASSUME NEW w \in Workers, RecordFailure(w) PROVE ThreadKnows'
  BY <1>9, OneWorker DEF RecordFailure, OneWorker
<1>10. ASSUME NEW w \in Workers, ThreadDies(w) PROVE ThreadKnows'
  BY <1>10, OneWorker DEF ThreadDies, OneWorker
<1>11. ASSUME NEW w \in Workers, Crash(w) PROVE ThreadKnows'
  BY <1>11, OneWorker DEF Crash, OneWorker
<1>12. ASSUME NEW w \in Workers, Start(w) PROVE ThreadKnows'
  BY <1>12, OneWorker DEF Start, OneWorker
<1>13. ASSUME NEW w \in Workers, Stop(w) PROVE ThreadKnows'
  BY <1>13, OneWorker DEF Stop, OneWorker
<1>14. CASE UNCHANGED vars
  BY <1>14 DEF vars
<1>15. QED
  BY <1>1, <1>2, <1>3, <1>4, <1>5, <1>6, <1>7, <1>8, <1>9, <1>10, <1>11,
     <1>12, <1>13, <1>14 DEF Next, Work

(* Every execution is counted once.                                        *)
LEMMA CountedStep == OneWorker /\ TypeOK /\ ThreadKnows /\ Counted /\ [Next]_vars => Counted'
<1> SUFFICES ASSUME OneWorker, TypeOK /\ ThreadKnows /\ Counted, [Next]_vars PROVE Counted'
  OBVIOUS
<1> USE QueueAssumption DEF TypeOK, ThreadKnows, Counted,
        Holding, Goto, Leave, queueTable, thread, history
<1>1. ASSUME NEW t \in Tasks, Enqueue(t) PROVE Counted'
  BY <1>1 DEF Enqueue
<1>2. CASE Tick
  BY <1>2 DEF Tick
<1>3. ASSUME NEW w \in Workers, LoopCheck(w) PROVE Counted'
  BY <1>3, OneWorker DEF LoopCheck, OneWorker
<1>4. ASSUME NEW w \in Workers, Select(w) PROVE Counted'
  BY <1>4, OneWorker DEF Select, OneWorker
<1>5. ASSUME NEW w \in Workers, Claim(w) PROVE Counted'
  BY ZenonT(60), <1>5, OneWorker DEF Claim, OneWorker
<1>6. ASSUME NEW w \in Workers, Execute(w) PROVE Counted'
  BY <1>6, OneWorker DEF Execute, OneWorker
<1>7. ASSUME NEW w \in Workers, RecordDone(w) PROVE Counted'
  BY <1>7, OneWorker DEF RecordDone, OneWorker
<1>8. ASSUME NEW w \in Workers, RecordDoneFails(w) PROVE Counted'
  BY <1>8, OneWorker DEF RecordDoneFails, OneWorker
<1>9. ASSUME NEW w \in Workers, RecordFailure(w) PROVE Counted'
  BY <1>9, OneWorker DEF RecordFailure, OneWorker
<1>10. ASSUME NEW w \in Workers, ThreadDies(w) PROVE Counted'
  BY <1>10, OneWorker DEF ThreadDies, OneWorker
<1>11. ASSUME NEW w \in Workers, Crash(w) PROVE Counted'
  BY <1>11, OneWorker DEF Crash, OneWorker
<1>12. ASSUME NEW w \in Workers, Start(w) PROVE Counted'
  BY <1>12, OneWorker DEF Start, OneWorker
<1>13. ASSUME NEW w \in Workers, Stop(w) PROVE Counted'
  BY <1>13, OneWorker DEF Stop, OneWorker
<1>14. CASE UNCHANGED vars
  BY <1>14 DEF vars
<1>15. QED
  BY <1>1, <1>2, <1>3, <1>4, <1>5, <1>6, <1>7, <1>8, <1>9, <1>10, <1>11,
     <1>12, <1>13, <1>14 DEF Next, Work

(* A running row is left by its thread, or counted as lost.                *)
LEMMA HeldStep == OneWorker /\ TypeOK /\ ThreadKnows /\ Held /\ [Next]_vars => Held'
<1> SUFFICES ASSUME OneWorker, TypeOK /\ ThreadKnows /\ Held, [Next]_vars PROVE Held'
  OBVIOUS
<1> USE QueueAssumption DEF TypeOK, ThreadKnows, Held,
        Holding, Goto, Leave, queueTable, thread, history
<1>1. ASSUME NEW t \in Tasks, Enqueue(t) PROVE Held'
  BY <1>1 DEF Enqueue
<1>2. CASE Tick
  BY ZenonT(40), <1>2 DEF Tick
<1>3. ASSUME NEW w \in Workers, LoopCheck(w) PROVE Held'
  BY <1>3, OneWorker DEF LoopCheck, OneWorker
<1>4. ASSUME NEW w \in Workers, Select(w) PROVE Held'
  BY <1>4, OneWorker DEF Select, OneWorker
<1>5. ASSUME NEW w \in Workers, Claim(w) PROVE Held'
  BY <1>5, OneWorker DEF Claim, OneWorker
<1>6. ASSUME NEW w \in Workers, Execute(w) PROVE Held'
  BY <1>6, OneWorker DEF Execute, OneWorker
<1>7. ASSUME NEW w \in Workers, RecordDone(w) PROVE Held'
  BY <1>7, OneWorker DEF RecordDone, OneWorker
<1>8. ASSUME NEW w \in Workers, RecordDoneFails(w) PROVE Held'
  BY <1>8, OneWorker DEF RecordDoneFails, OneWorker
<1>9. ASSUME NEW w \in Workers, RecordFailure(w) PROVE Held'
  BY <1>9, OneWorker DEF RecordFailure, OneWorker
<1>10. ASSUME NEW w \in Workers, ThreadDies(w) PROVE Held'
  BY <1>10, OneWorker DEF ThreadDies, OneWorker
<1>11. ASSUME NEW w \in Workers, Crash(w) PROVE Held'
  BY <1>11, OneWorker DEF Crash, OneWorker
<1>12. ASSUME NEW w \in Workers, Start(w) PROVE Held'
  BY <1>12, OneWorker DEF Start, OneWorker
<1>13. ASSUME NEW w \in Workers, Stop(w) PROVE Held'
  BY <1>13, OneWorker DEF Stop, OneWorker
<1>14. CASE UNCHANGED vars
  BY <1>14 DEF vars
<1>15. QED
  BY <1>1, <1>2, <1>3, <1>4, <1>5, <1>6, <1>7, <1>8, <1>9, <1>10, <1>11,
     <1>12, <1>13, <1>14 DEF Next, Work

\* Every step preserves it.
LEMMA NextInv == OneWorker /\ Inv /\ [Next]_vars => Inv'
BY TypeStep, ThreadStep, CountedStep, HeldStep DEF Inv

\* With one worker it always holds.
LEMMA Invariance ==
  ASSUME OneWorker
  PROVE  Spec => []Inv
<1>1. Init => Inv BY InitInv
<1>2. Inv /\ [Next]_vars => Inv' BY NextInv, OneWorker
<1>3. QED BY <1>1, <1>2, PTL DEF Spec

-----------------------------------------------------------------------------
(* The columns and the locals of run_once keep their types (tasks.py).     *)
THEOREM QueueTypes ==
  ASSUME OneWorker
  PROVE  Spec => []TypeOK
<1>1. Inv => TypeOK BY DEF Inv
<1>2. QED BY <1>1, Invariance, OneWorker, PTL

(* max_retries bounds the executions of a task over all restarts, and all  *)
(* of them are accounted for (tasks.py 85-91).                             *)
THEOREM ExecutionsBounded ==
  ASSUME OneWorker
  PROVE  Spec => []RunsAccounted
<1>1. Inv => RunsAccounted
  BY QueueAssumption DEF Inv, TypeOK, Counted, RunsAccounted
<1>2. QED BY <1>1, Invariance, OneWorker, PTL

(* Only a crash or a database error can leave a row running without a      *)
(* thread on it (tasks.py 75-91).                                          *)
THEOREM RunningHeld ==
  ASSUME OneWorker
  PROVE  Spec => []RunningIsHeld
<1>1. Inv => RunningIsHeld BY DEF Inv, Held, RunningIsHeld
<1>2. QED BY <1>1, Invariance, OneWorker, PTL

(* A step of the queue is a step of the ledger, or changes no row.         *)
LEMMA StepRefines == OneWorker /\ Inv /\ [Next]_vars => [Ledger!Next]_(Ledger!ledger)
<1> SUFFICES ASSUME OneWorker, Inv, [Next]_vars
             PROVE  Ledger!Next \/ UNCHANGED <<status, attempts>>
  BY DEF Ledger!ledger
<1> USE QueueAssumption DEF Inv, TypeOK, ThreadKnows, Holding, Goto, Leave,
        queueTable, thread, history
<1>1. ASSUME NEW t \in Tasks, Enqueue(t) PROVE Ledger!Next
  BY <1>1 DEF Enqueue, Ledger!Next, Ledger!Add
<1>2. ASSUME NEW w \in Workers, Claim(w) PROVE Ledger!Next
  <2>1. Ledger!Begin(task[w]) BY <1>2 DEF Claim, Ledger!Begin
  <2>2. QED BY <1>2, <2>1 DEF Claim, Ledger!Next
<1>3. ASSUME NEW w \in Workers, RecordDone(w) PROVE Ledger!Next
  <2>1. Ledger!Succeed(task[w]) BY <1>3 DEF RecordDone, Ledger!Succeed
  <2>2. QED BY <1>3, <2>1 DEF RecordDone, Ledger!Next
<1>4. ASSUME NEW w \in Workers, RecordFailure(w) PROVE Ledger!Next
  <2>1. tries[w] = attempts[task[w]] + 1 /\ status[task[w]] = "running"
    BY <1>4 DEF RecordFailure
  <2>2. Ledger!Fail(task[w]) BY <1>4, <2>1 DEF RecordFailure, Ledger!Fail
  <2>3. QED BY <1>4, <2>2 DEF RecordFailure, Ledger!Next
<1>5. ASSUME NEW w \in Workers,
             \/ Start(w) \/ Stop(w) \/ LoopCheck(w) \/ Select(w) \/ Execute(w)
             \/ RecordDoneFails(w) \/ ThreadDies(w) \/ Crash(w)
      PROVE  UNCHANGED <<status, attempts>>
  BY <1>5 DEF Start, Stop, LoopCheck, Select, Execute, RecordDoneFails,
              ThreadDies, Crash
<1>6. CASE Tick \/ UNCHANGED vars
  BY <1>6 DEF Tick, vars
<1>7. QED
  BY <1>1, <1>2, <1>3, <1>4, <1>5, <1>6 DEF Next, Work

(* With one worker the tasks table is the ledger: a task is begun only     *)
(* from pending, a failure costs one attempt, done and dead are final.     *)
THEOREM QueueImplementsLedger ==
  ASSUME OneWorker
  PROVE  Spec => LedgerSpec
<1>1. Init => Ledger!Init BY DEF Init, Ledger!Init
<1>2. Inv /\ [Next]_vars => [Ledger!Next]_(Ledger!ledger) BY StepRefines, OneWorker
<1>3. QED BY <1>1, <1>2, Invariance, OneWorker, PTL DEF Spec, LedgerSpec, Ledger!Spec

-----------------------------------------------------------------------------
(* The ORM.                                                                *)

(* Keys are given in the order of the insertions, so there are never more  *)
(* of them than calls.                                                     *)
TypeInv ==
  /\ ops \in 0..MaxOps /\ sequence \in 0..ops
  /\ DOMAIN table \subseteq 1..sequence
  /\ \A i \in DOMAIN table : table[i].origin \in 1..ops /\ table[i].by \in Threads
  /\ DOMAIN object = Threads
  /\ \A t \in Threads :
       object[t] = NoObject \/ (object[t].id \in 1..sequence /\ object[t].origin \in 1..ops)
  /\ missed \subseteq Threads
  /\ holder \in [Processes -> Threads \cup {Nobody}]
  /\ conflict \in [Threads -> Threads \cup {Nobody}]

(* Two objects with one id go back to one insertion: whichever of them     *)
(* brings a deleted row back, the row is the other's as well.              *)
OriginPerId ==
  \A t, u \in Threads :
    object[t] # NoObject /\ object[u] # NoObject /\ object[t].id = object[u].id
      => object[t].origin = object[u].origin

(* A thread between its UPDATE and its INSERT holds the lock of its        *)
(* process, and a row that took its place is another process's.            *)
SaveHeld ==
  \A t \in missed :
    /\ holder[ProcessOf[t]] = t
    /\ object[t] # NoObject
    /\ object[t].id \in DOMAIN table
         => ProcessOf[table[object[t].id].by] # ProcessOf[t]

TableInv == TypeInv /\ OriginPerId /\ RowIdentity /\ SaveHeld /\ ConflictIsForeign

(* The calls, with objects of any values: none of it depends on them.      *)
TableNext == \E t \in Threads :
  \/ \E v : Insert(t, v) \/ SaveUpdate(t, v)
  \/ SaveInsert(t)
  \/ Delete(t)
  \/ \E i \in Ids : Get(t, i)

\* The empty table has it.
LEMMA OrmInitInv == OrmInit => TableInv
<1> SUFFICES ASSUME OrmInit PROVE TableInv
  OBVIOUS
<1> USE OrmAssumption DEF OrmInit
<1>1. TypeInv BY DEF TypeInv
<1>2. OriginPerId BY DEF OriginPerId
<1>3. RowIdentity BY DEF RowIdentity
<1>4. SaveHeld BY DEF SaveHeld
<1>5. ConflictIsForeign BY DEF ConflictIsForeign
<1>6. QED BY <1>1, <1>2, <1>3, <1>4, <1>5 DEF TableInv

(* What Put, Overwrite and Drop make of the table.                         *)
LEMMA PutTable ==
  ASSUME NEW i, NEW row, Put(i, row)
  PROVE  /\ DOMAIN table' = DOMAIN table \cup {i}
         /\ \A j \in DOMAIN table' : table'[j] = IF j = i THEN row ELSE table[j]
BY DEF Put

\* A deleted row is gone, the others are as they were.
LEMMA DropTable ==
  ASSUME NEW i, Drop(i)
  PROVE  /\ DOMAIN table' = DOMAIN table \ {i}
         /\ \A j \in DOMAIN table' : table'[j] = table[j]
BY DEF Drop

\* An update keeps who made a row.
LEMMA OverwriteTable ==
  ASSUME NEW i \in DOMAIN table, NEW v, Overwrite(i, v)
  PROVE  /\ DOMAIN table' = DOMAIN table
         /\ \A j \in DOMAIN table : table'[j].origin = table[j].origin /\ table'[j].by = table[j].by
<1>1. Put(i, RowOf(v, table[i].origin, table[i].by))
  BY DEF Overwrite
<1>2. /\ DOMAIN table' = DOMAIN table \cup {i}
      /\ \A j \in DOMAIN table' : table'[j] =
           IF j = i THEN RowOf(v, table[i].origin, table[i].by) ELSE table[j]
  BY <1>1, PutTable
<1>3. QED BY <1>2 DEF RowOf

(* The two outcomes of the UPDATE of save().                               *)
LEMMA UpdateCases ==
  ASSUME NEW t \in Threads, NEW v, SaveUpdate(t, v), TypeInv
  PROVE  /\ DOMAIN table' = DOMAIN table
         /\ \A j \in DOMAIN table : table'[j].origin = table[j].origin /\ table'[j].by = table[j].by
         /\ object[t] # NoObject
         /\ DOMAIN object' = Threads
         /\ \A u \in Threads \ {t} : object'[u] = object[u]
         /\ object'[t].id = object[t].id /\ object'[t].origin = object[t].origin
         /\ object'[t] # NoObject
         /\ \/ missed' = missed /\ holder' = holder
            \/ /\ object[t].id \notin DOMAIN table
               /\ missed' = missed \cup {t}
               /\ holder' = [holder EXCEPT ![ProcessOf[t]] = t]
<1>1. object[t] # NoObject /\ object' = [object EXCEPT ![t] = SaveChanged(t, v)]
  BY DEF SaveUpdate
<1>2. /\ DOMAIN object' = Threads /\ \A u \in Threads \ {t} : object'[u] = object[u]
      /\ object'[t] = SaveChanged(t, v)
  BY <1>1 DEF TypeInv
<1>3. object[t].id \in 1..sequence
  BY <1>1 DEF TypeInv
<1>4. object'[t].id = object[t].id /\ object'[t].origin = object[t].origin /\ object'[t] # NoObject
  BY <1>2, <1>3 DEF SaveChanged, NoObject, TypeInv
<1>5. CASE object[t].id \in DOMAIN table
  BY <1>1, <1>2, <1>4, <1>5, OverwriteTable DEF SaveUpdate
<1>6. CASE object[t].id \notin DOMAIN table
  BY <1>1, <1>2, <1>4, <1>6 DEF SaveUpdate
<1>7. QED BY <1>5, <1>6

(* A thread that may begin a call shares its process with no thread that   *)
(* is between the two statements of save().                                *)
LEMMA CallAlone ==
  ASSUME SaveHeld, NEW t \in Threads, Call(t), NEW u \in missed, u \in Threads
  PROVE  u # t /\ ProcessOf[u] # ProcessOf[t]
BY OrmAssumption DEF SaveHeld, Call, Nobody

(* Every step keeps the types.                                             *)
LEMMA OrmTypeStep == TypeInv /\ SaveHeld /\ [TableNext]_ormVars => TypeInv'
<1> SUFFICES ASSUME TypeInv, SaveHeld, [TableNext]_ormVars PROVE TypeInv'
  OBVIOUS
<1> USE OrmAssumption
<1>1. ASSUME NEW t \in Threads, NEW v, Insert(t, v) PROVE TypeInv'
  <2>1. /\ ops' = ops + 1 /\ sequence' = sequence + 1 /\ NextId = sequence + 1
        /\ ops' \in 0..MaxOps /\ sequence' \in 0..ops'
    BY <1>1 DEF TypeInv, Insert, Call, NextId
  <2>2. /\ DOMAIN table' = DOMAIN table \cup {NextId}
        /\ \A j \in DOMAIN table' : table'[j] = IF j = NextId THEN RowOf(v, ops + 1, t) ELSE table[j]
    BY <1>1, PutTable DEF Insert
  <2>3. DOMAIN table' \subseteq 1..sequence'
    BY <2>1, <2>2 DEF TypeInv
  <2>4. \A i \in DOMAIN table' : table'[i].origin \in 1..ops' /\ table'[i].by \in Threads
    BY <2>1, <2>2 DEF RowOf, TypeInv
  <2>5. DOMAIN object' = Threads
    BY <1>1 DEF Insert, TypeInv
  <2>6. ASSUME NEW u \in Threads
        PROVE  object'[u] = NoObject \/ (object'[u].id \in 1..sequence' /\ object'[u].origin \in 1..ops')
    BY <1>1, <2>1, <2>6 DEF Insert, TypeInv
  <2>7. QED BY <1>1, <2>1, <2>3, <2>4, <2>5, <2>6 DEF Insert, TypeInv
<1>2. ASSUME NEW t \in Threads, NEW v, SaveUpdate(t, v) PROVE TypeInv'
  <2>1. ops' = ops + 1 /\ ops < MaxOps /\ sequence' = sequence /\ conflict' = conflict
    BY <1>2 DEF SaveUpdate, Call
  <2>2. missed' \subseteq Threads /\ holder' \in [Processes -> Threads \cup {Nobody}]
    BY <1>2, UpdateCases DEF TypeInv
  <2>3. \A u \in Threads :
          object'[u] = NoObject \/ (object'[u].id \in 1..sequence' /\ object'[u].origin \in 1..ops')
    BY <1>2, <2>1, UpdateCases DEF TypeInv
  <2>4. /\ DOMAIN table' \subseteq 1..sequence' /\ DOMAIN object' = Threads
        /\ \A i \in DOMAIN table' : table'[i].origin \in 1..ops' /\ table'[i].by \in Threads
    BY <1>2, <2>1, UpdateCases DEF TypeInv
  <2>5. QED BY <2>1, <2>2, <2>3, <2>4 DEF TypeInv
<1>3. ASSUME NEW t \in Threads, SaveInsert(t) PROVE TypeInv'
  <2> USE <1>3 DEF TypeInv, SaveInsert
  <2>1. object[t] # NoObject /\ object[t].id \in 1..sequence /\ object[t].origin \in 1..ops
    BY DEF SaveHeld
  <2>2. CASE object[t].id \in DOMAIN table
    BY <2>2
  <2>3. CASE object[t].id \notin DOMAIN table
    <3>1. /\ DOMAIN table' = DOMAIN table \cup {object[t].id}
          /\ \A j \in DOMAIN table' : table'[j] =
               IF j = object[t].id THEN RowOf(object[t].value, object[t].origin, t) ELSE table[j]
      BY ZenonT(40), <2>3, PutTable
    <3>2. sequence' = sequence
      BY <2>1, <2>3
    <3>3. \A i \in DOMAIN table' : table'[i].origin \in 1..ops' /\ table'[i].by \in Threads
      BY <2>1, <3>1 DEF RowOf
    <3>4. QED BY <2>1, <2>3, <3>1, <3>2, <3>3
  <2>4. QED BY <2>2, <2>3
<1>4. ASSUME NEW t \in Threads, Delete(t) PROVE TypeInv'
  <2>1. /\ DOMAIN table' = DOMAIN table \ {object[t].id}
        /\ \A j \in DOMAIN table' : table'[j] = table[j]
    BY <1>4, DropTable DEF Delete
  <2>2. ops' = ops + 1 /\ ops < MaxOps
    BY <1>4 DEF Delete, Call
  <2>3. QED BY <1>4, <2>1, <2>2 DEF Delete, TypeInv
<1>5. ASSUME NEW t \in Threads, NEW i \in Ids, Get(t, i) PROVE TypeInv'
  BY <1>5 DEF TypeInv, Get, Call
<1>6. CASE UNCHANGED ormVars
  BY <1>6 DEF TypeInv, ormVars
<1>7. QED BY <1>1, <1>2, <1>3, <1>4, <1>5, <1>6 DEF TableNext

(* Every step keeps ids and insertions together: a new key is larger than  *)
(* any object's, and a row comes back only from an object with its id.     *)
LEMMA IdentityStep ==
  TypeInv /\ SaveHeld /\ OriginPerId /\ RowIdentity /\ [TableNext]_ormVars => OriginPerId' /\ RowIdentity'
<1> SUFFICES ASSUME TypeInv, SaveHeld, OriginPerId, RowIdentity, [TableNext]_ormVars
             PROVE  OriginPerId' /\ RowIdentity'
  OBVIOUS
<1>1. ASSUME NEW t \in Threads, NEW v, Insert(t, v)
      PROVE  OriginPerId' /\ RowIdentity'
  <2>1. /\ DOMAIN table' = DOMAIN table \cup {NextId}
        /\ \A j \in DOMAIN table' : table'[j] = IF j = NextId THEN RowOf(v, ops + 1, t) ELSE table[j]
    BY <1>1, PutTable DEF Insert
  <2>2. /\ object'[t].id = NextId /\ object'[t].origin = ops + 1
        /\ \A u \in Threads \ {t} : object'[u] = object[u]
    BY <1>1 DEF Insert, TypeInv
  <2>3. /\ NextId \notin DOMAIN table
        /\ \A u \in Threads : object[u] # NoObject => object[u].id # NextId
    BY DEF TypeInv, NextId
  <2>4. OriginPerId'
    BY <2>2, <2>3 DEF OriginPerId
  <2>5. RowIdentity'
    BY <2>1, <2>2, <2>3 DEF RowIdentity, RowOf
  <2>6. QED BY <2>4, <2>5
<1>2. ASSUME NEW t \in Threads, NEW v, SaveUpdate(t, v)
      PROVE  OriginPerId' /\ RowIdentity'
  BY <1>2, UpdateCases DEF OriginPerId, RowIdentity
<1>3. ASSUME NEW t \in Threads, SaveInsert(t) PROVE OriginPerId' /\ RowIdentity'
  <2>1. object' = object
    BY <1>3 DEF SaveInsert
  <2>2. OriginPerId'
    BY <2>1 DEF OriginPerId
  <2>3. CASE object[t].id \in DOMAIN table
    BY <1>3, <2>1, <2>2, <2>3 DEF SaveInsert, RowIdentity
  <2>4. CASE object[t].id \notin DOMAIN table
    <3>1. /\ DOMAIN table' = DOMAIN table \cup {object[t].id}
          /\ \A j \in DOMAIN table' : table'[j] =
               IF j = object[t].id THEN RowOf(object[t].value, object[t].origin, t) ELSE table[j]
      BY <1>3, <2>4, PutTable DEF SaveInsert
    <3>2. object[t] # NoObject
      BY <1>3 DEF SaveInsert, SaveHeld
    <3>3. RowIdentity'
      BY <2>1, <3>1, <3>2 DEF RowIdentity, OriginPerId, RowOf
    <3>4. QED BY <2>2, <3>3
  <2>5. QED BY <2>2, <2>3, <2>4
<1>4. ASSUME NEW t \in Threads, Delete(t) PROVE OriginPerId' /\ RowIdentity'
  BY <1>4, DropTable DEF Delete, OriginPerId, RowIdentity
<1>5. ASSUME NEW t \in Threads, NEW i \in Ids, Get(t, i) PROVE OriginPerId' /\ RowIdentity'
  <2>1. /\ i \in DOMAIN table /\ table' = table
        /\ object'[t].id = i /\ object'[t].origin = table[i].origin
        /\ \A u \in Threads \ {t} : object'[u] = object[u]
    BY <1>5 DEF Get, TypeInv
  <2>2. QED BY <2>1 DEF OriginPerId, RowIdentity
<1>6. CASE UNCHANGED ormVars
  BY <1>6 DEF OriginPerId, RowIdentity, ormVars
<1>7. QED BY <1>1, <1>2, <1>3, <1>4, <1>5, <1>6 DEF TableNext

(* Every step keeps the threads of a process out of each other's save().   *)
LEMMA SaveHeldStep == TypeInv /\ SaveHeld /\ [TableNext]_ormVars => SaveHeld'
<1> SUFFICES ASSUME TypeInv, SaveHeld, [TableNext]_ormVars PROVE SaveHeld'
  OBVIOUS
<1>1. ASSUME NEW t \in Threads, NEW v, Insert(t, v) PROVE SaveHeld'
  <2>1. /\ DOMAIN table' = DOMAIN table \cup {NextId}
        /\ \A j \in DOMAIN table' : table'[j] = IF j = NextId THEN RowOf(v, ops + 1, t) ELSE table[j]
    BY <1>1, PutTable DEF Insert
  <2>2. /\ missed' = missed /\ holder' = holder
        /\ \A u \in Threads \ {t} : object'[u] = object[u]
    BY <1>1 DEF Insert, TypeInv
  <2>3. \A u \in missed : u \in Threads /\ u # t /\ ProcessOf[u] # ProcessOf[t]
    BY <1>1, CallAlone DEF Insert, TypeInv
  <2>4. QED BY <2>1, <2>2, <2>3 DEF SaveHeld, RowOf
<1>2. ASSUME NEW t \in Threads, NEW v, SaveUpdate(t, v) PROVE SaveHeld'
  <2>1. \A u \in missed : u \in Threads /\ u # t /\ ProcessOf[u] # ProcessOf[t]
    BY <1>2, CallAlone DEF SaveUpdate, TypeInv
  <2>2. ProcessOf[t] \in Processes /\ \A u \in missed : ProcessOf[u] \in Processes
    BY <2>1, OrmAssumption
  <2>3. CASE missed' = missed /\ holder' = holder
    BY <1>2, <2>1, <2>3, UpdateCases DEF SaveHeld
  <2>4. CASE /\ object[t].id \notin DOMAIN table
             /\ missed' = missed \cup {t}
             /\ holder' = [holder EXCEPT ![ProcessOf[t]] = t]
    <3>1. /\ holder'[ProcessOf[t]] = t
          /\ \A u \in missed : holder'[ProcessOf[u]] = holder[ProcessOf[u]]
      BY <2>1, <2>2, <2>4 DEF TypeInv
    <3>2. QED BY <1>2, <2>1, <2>4, <3>1, UpdateCases DEF SaveHeld
  <2>5. QED BY <1>2, <2>3, <2>4, UpdateCases
<1>3. ASSUME NEW t \in Threads, SaveInsert(t) PROVE SaveHeld'
  <2>1. /\ object' = object /\ t \in missed /\ missed' = missed \ {t}
        /\ holder' = [holder EXCEPT ![ProcessOf[t]] = Nobody]
    BY <1>3 DEF SaveInsert
  <2>2. \A u \in missed' : u \in Threads /\ ProcessOf[u] # ProcessOf[t] /\ ProcessOf[u] \in Processes
    BY <2>1, OrmAssumption DEF SaveHeld, TypeInv
  <2>3. \A u \in missed' : holder'[ProcessOf[u]] = holder[ProcessOf[u]]
    BY <2>1, <2>2 DEF TypeInv
  <2>4. CASE object[t].id \in DOMAIN table
    BY <1>3, <2>1, <2>3, <2>4 DEF SaveHeld, SaveInsert
  <2>5. CASE object[t].id \notin DOMAIN table
    <3>1. /\ DOMAIN table' = DOMAIN table \cup {object[t].id}
          /\ \A j \in DOMAIN table' : table'[j] =
               IF j = object[t].id THEN RowOf(object[t].value, object[t].origin, t) ELSE table[j]
      BY <1>3, <2>5, PutTable DEF SaveInsert
    <3>2. QED BY <2>1, <2>2, <2>3, <3>1 DEF SaveHeld, RowOf
  <2>6. QED BY <2>4, <2>5
<1>4. ASSUME NEW t \in Threads, Delete(t) PROVE SaveHeld'
  <2>1. Drop(object[t].id) /\ object' = object /\ missed' = missed /\ holder' = holder
    BY <1>4 DEF Delete
  <2>2. DOMAIN table' \subseteq DOMAIN table /\ \A j \in DOMAIN table' : table'[j] = table[j]
    BY <2>1, DropTable
  <2>3. QED BY <2>1, <2>2 DEF SaveHeld
<1>5. ASSUME NEW t \in Threads, NEW i \in Ids, Get(t, i) PROVE SaveHeld'
  <2>1. \A u \in missed : u \in Threads /\ u # t
    BY <1>5, CallAlone DEF Get, TypeInv
  <2>2. /\ table' = table /\ missed' = missed /\ holder' = holder
        /\ \A u \in Threads \ {t} : object'[u] = object[u]
    BY <1>5 DEF Get, TypeInv
  <2>3. QED BY <2>1, <2>2 DEF SaveHeld
<1>6. CASE UNCHANGED ormVars
  BY <1>6 DEF SaveHeld, ormVars
<1>7. QED BY <1>1, <1>2, <1>3, <1>4, <1>5, <1>6 DEF TableNext

(* Every step keeps the reason of an IntegrityError abroad.                *)
LEMMA ConflictStep == TypeInv /\ SaveHeld /\ ConflictIsForeign /\ [TableNext]_ormVars => ConflictIsForeign'
<1> SUFFICES ASSUME TypeInv, SaveHeld, ConflictIsForeign, [TableNext]_ormVars PROVE ConflictIsForeign'
  OBVIOUS
<1>1. ASSUME NEW t \in Threads, SaveInsert(t) PROVE ConflictIsForeign'
  <2>1. CASE object[t].id \in DOMAIN table
    <3>1. ProcessOf[table[object[t].id].by] # ProcessOf[t]
      BY <1>1, <2>1 DEF SaveInsert, SaveHeld
    <3>2. conflict' = [conflict EXCEPT ![t] = table[object[t].id].by]
      BY <1>1, <2>1 DEF SaveInsert
    <3>3. QED BY <3>1, <3>2 DEF ConflictIsForeign, TypeInv
  <2>2. CASE object[t].id \notin DOMAIN table
    BY <1>1, <2>2 DEF SaveInsert, ConflictIsForeign
  <2>3. QED BY <2>1, <2>2
<1>2. CASE UNCHANGED conflict
  BY <1>2 DEF ConflictIsForeign
<1>3. QED
  BY <1>1, <1>2 DEF TableNext, ormVars, Insert, SaveUpdate, Delete, Get

(* Every step keeps the inductive invariant.                               *)
LEMMA TableStep == TableInv /\ [TableNext]_ormVars => TableInv'
BY OrmTypeStep, IdentityStep, SaveHeldStep, ConflictStep DEF TableInv

(* The inductive invariant holds in every reachable state.                 *)
THEOREM OrmInv == OrmSpec => []TableInv
<1>1. [OrmNext]_ormVars => [TableNext]_ormVars
  BY Zenon DEF OrmNext, TableNext
<1>2. QED BY OrmInitInv, TableStep, <1>1, PTL DEF OrmSpec

(* Keys never run ahead of the calls that asked for them, and every object *)
(* and row goes back to a call that was made (orm.py:133-220).             *)
THEOREM OrmTypes == OrmSpec => []OrmTypeOK
<1>1. TableInv => OrmTypeOK
  BY OrmAssumption DEF TableInv, TypeInv, OrmTypeOK
<1>2. QED BY OrmInv, <1>1, PTL

(* An object whose row was deleted, by whichever process, never stands for *)
(* another object's row (orm.py:139, AUTOINCREMENT).                       *)
THEOREM StaleObjectsAreSafe == OrmSpec => []RowIdentity
<1>1. TableInv => RowIdentity
  BY DEF TableInv
<1>2. QED BY OrmInv, <1>1, PTL

(* An IntegrityError of save() is always another process's doing: the lock *)
(* covers UPDATE and INSERT (orm.py:180-196).                              *)
THEOREM SaveConflictsAreForeign == OrmSpec => []ConflictIsForeign
<1>1. TableInv => ConflictIsForeign
  BY DEF TableInv
<1>2. QED BY OrmInv, <1>1, PTL

-----------------------------------------------------------------------------
(* Validation: the functions of a level are what their definitions say.    *)

\* What holds of 0, and of n + 1 when of n, holds of every natural number.
LEMMA Induction ==
  ASSUME NEW S, 0 \in S, \A n \in Nat : n \in S => n + 1 \in S
  PROVE  Nat \subseteq S
<1> DEFINE T == Nat \ S
<1>1. SUFFICES ASSUME T # {} PROVE FALSE
  OBVIOUS
<1>2. PICK n \in T : \A m \in T : ~ (<<m, n>> \in OpToRel(<, Nat))
  <2>1. T \subseteq Nat
    OBVIOUS
  <2> QED BY <1>1, <2>1, WFMin, NatLessThanWellFounded
<1>3. n \in Nat /\ n \notin S /\ n # 0 /\ n - 1 \in Nat
  OBVIOUS
<1>4. n - 1 \notin S
  BY <1>3
<1>5. n - 1 \in T /\ n - 1 < n
  BY <1>3, <1>4
<1>6. <<n - 1, n>> \in OpToRel(<, Nat)
  BY <1>3, <1>5 DEF OpToRel
<1> QED BY <1>2, <1>5, <1>6

\* The same up to K.
LEMMA Upward ==
  ASSUME NEW K \in Nat, NEW S, 0 \in S, \A n \in 1..K : n - 1 \in S => n \in S
  PROVE  \A n \in 0..K : n \in S
<1> DEFINE T == {n \in Nat : n <= K => n \in S}
<1>1. 0 \in T
  OBVIOUS
<1>2. \A n \in Nat : n \in T => n + 1 \in T
  <2> SUFFICES ASSUME NEW n \in Nat, n \in T, n + 1 <= K PROVE n + 1 \in S
    OBVIOUS
  <2>1. n \in S /\ n + 1 \in 1..K /\ (n + 1) - 1 = n
    OBVIOUS
  <2> QED BY <2>1
<1>3. Nat \subseteq T
  <2> HIDE DEF T
  <2> QED BY <1>1, <1>2, Induction
<1> QED BY <1>3

\* Levels are natural numbers.
LEMMA Bounds ==
  /\ MaxDepth \in Nat /\ MaxDepth >= 1
  /\ MaxLevels \in Nat /\ MaxLevels = 2 * MaxDepth + 1
  /\ MaxNesting \in Nat /\ MaxNesting = 3 * MaxDepth + 1
BY ValidationAssumption DEF MaxLevels, MaxNesting

\* The nested JSON values are a function: it exists, level by level.
LEMMA JsonLevels ==
  /\ Json[0] = JsonScalars
  /\ \A n \in 1..MaxNesting : Json[n] = JsonAround(Json[n - 1])
<1> DEFINE Is(f, k) == f = [n \in 0..k |-> IF n = 0 THEN JsonScalars ELSE JsonAround(f[n - 1])]
           D == {k \in Nat : \E f : Is(f, k)}
<1>1. 0 \in D
  <2> DEFINE f == [n \in 0..0 |-> JsonScalars]
  <2>1. Is(f, 0)
    OBVIOUS
  <2> HIDE DEF f, Is
  <2> QED BY <2>1
<1>2. ASSUME NEW k \in Nat, NEW f, Is(f, k) PROVE \E g : Is(g, k + 1)
  <2> DEFINE g == [n \in 0..k+1 |-> IF n = 0 THEN JsonScalars ELSE JsonAround(f[n - 1])]
  <2>1. ASSUME NEW n \in 0..k PROVE f[n] = g[n]
    <3>1. f[n] = IF n = 0 THEN JsonScalars ELSE JsonAround(f[n - 1])
      BY <1>2
    <3>2. g[n] = IF n = 0 THEN JsonScalars ELSE JsonAround(f[n - 1])
      OBVIOUS
    <3> QED BY <3>1, <3>2
  <2>2. ASSUME NEW n \in 1..k+1 PROVE g[n - 1] = f[n - 1]
    <3>1. n - 1 \in 0..k
      OBVIOUS
    <3> QED BY <2>1, <3>1
  <2>3. \A n \in 0..k+1 : g[n] = IF n = 0 THEN JsonScalars ELSE JsonAround(g[n - 1])
    <3>1. \A n \in 0..k+1 : g[n] = IF n = 0 THEN JsonScalars ELSE JsonAround(f[n - 1])
      OBVIOUS
    <3>2. \A n \in 0..k+1 : n # 0 => n \in 1..k+1
      OBVIOUS
    <3> HIDE DEF g
    <3> QED BY <2>2, <3>1, <3>2
  <2>4. g = [n \in 0..k+1 |-> g[n]]
    OBVIOUS
  <2>5. Is(g, k + 1)
    <3> HIDE DEF g
    <3> QED BY <2>3, <2>4
  <2> HIDE DEF g, Is
  <2> QED BY <2>5
<1>3. PICK f : Is(f, MaxNesting)
  <2>1. \A k \in Nat : k \in D => k + 1 \in D
    <3> HIDE DEF Is
    <3> QED BY <1>2
  <2> HIDE DEF D
  <2>2. MaxNesting \in D
    BY <1>1, <2>1, Bounds, Induction
  <2> QED BY <2>2 DEF D
<1>4. Json = [n \in 0..MaxNesting |-> IF n = 0 THEN JsonScalars ELSE JsonAround(Json[n - 1])]
  BY <1>3 DEF Json
<1>5. 0 \in 0..MaxNesting /\ \A n \in 1..MaxNesting : n \in 0..MaxNesting /\ n # 0
  BY Bounds
<1> QED BY <1>4, <1>5

\* So are the Python values around them,
LEMMA PythonLevels ==
  /\ Python[0] = JsonValues
  /\ \A n \in 1..MaxLevels : Python[n] = PythonAround(Python[n - 1])
<1> DEFINE Is(f, k) == f = [n \in 0..k |-> IF n = 0 THEN JsonValues ELSE PythonAround(f[n - 1])]
           D == {k \in Nat : \E f : Is(f, k)}
<1>1. 0 \in D
  <2> DEFINE f == [n \in 0..0 |-> JsonValues]
  <2>1. Is(f, 0)
    OBVIOUS
  <2> HIDE DEF f, Is
  <2> QED BY <2>1
<1>2. ASSUME NEW k \in Nat, NEW f, Is(f, k) PROVE \E g : Is(g, k + 1)
  <2> DEFINE g == [n \in 0..k+1 |-> IF n = 0 THEN JsonValues ELSE PythonAround(f[n - 1])]
  <2>1. ASSUME NEW n \in 0..k PROVE f[n] = g[n]
    <3>1. f[n] = IF n = 0 THEN JsonValues ELSE PythonAround(f[n - 1])
      BY <1>2
    <3>2. g[n] = IF n = 0 THEN JsonValues ELSE PythonAround(f[n - 1])
      OBVIOUS
    <3> QED BY <3>1, <3>2
  <2>2. ASSUME NEW n \in 1..k+1 PROVE g[n - 1] = f[n - 1]
    <3>1. n - 1 \in 0..k
      OBVIOUS
    <3> QED BY <2>1, <3>1
  <2>3. \A n \in 0..k+1 : g[n] = IF n = 0 THEN JsonValues ELSE PythonAround(g[n - 1])
    <3>1. \A n \in 0..k+1 : g[n] = IF n = 0 THEN JsonValues ELSE PythonAround(f[n - 1])
      OBVIOUS
    <3>2. \A n \in 0..k+1 : n # 0 => n \in 1..k+1
      OBVIOUS
    <3> HIDE DEF g
    <3> QED BY <2>2, <3>1, <3>2
  <2>4. g = [n \in 0..k+1 |-> g[n]]
    OBVIOUS
  <2>5. Is(g, k + 1)
    <3> HIDE DEF g
    <3> QED BY <2>3, <2>4
  <2> HIDE DEF g, Is
  <2> QED BY <2>5
<1>3. PICK f : Is(f, MaxLevels)
  <2>1. \A k \in Nat : k \in D => k + 1 \in D
    <3> HIDE DEF Is
    <3> QED BY <1>2
  <2> HIDE DEF D
  <2>2. MaxLevels \in D
    BY <1>1, <2>1, Bounds, Induction
  <2> QED BY <2>2 DEF D
<1>4. Python = [n \in 0..MaxLevels |-> IF n = 0 THEN JsonValues ELSE PythonAround(Python[n - 1])]
  BY <1>3 DEF Python
<1>5. 0 \in 0..MaxLevels /\ \A n \in 1..MaxLevels : n \in 0..MaxLevels /\ n # 0
  BY Bounds
<1> QED BY <1>4, <1>5

\* the hashable ones,
LEMMA HashableLevels ==
  /\ Hashable[0] = {}
  /\ \A n \in 1..MaxLevels : Hashable[n] = HashableAround(Hashable[n - 1])
<1> DEFINE Is(f, k) == f = [n \in 0..k |-> IF n = 0 THEN {} ELSE HashableAround(f[n - 1])]
           D == {k \in Nat : \E f : Is(f, k)}
<1>1. 0 \in D
  <2> DEFINE f == [n \in 0..0 |-> {}]
  <2>1. Is(f, 0)
    OBVIOUS
  <2> HIDE DEF f, Is
  <2> QED BY <2>1
<1>2. ASSUME NEW k \in Nat, NEW f, Is(f, k) PROVE \E g : Is(g, k + 1)
  <2> DEFINE g == [n \in 0..k+1 |-> IF n = 0 THEN {} ELSE HashableAround(f[n - 1])]
  <2>1. ASSUME NEW n \in 0..k PROVE f[n] = g[n]
    <3>1. f[n] = IF n = 0 THEN {} ELSE HashableAround(f[n - 1])
      BY <1>2
    <3>2. g[n] = IF n = 0 THEN {} ELSE HashableAround(f[n - 1])
      OBVIOUS
    <3> QED BY <3>1, <3>2
  <2>2. ASSUME NEW n \in 1..k+1 PROVE g[n - 1] = f[n - 1]
    <3>1. n - 1 \in 0..k
      OBVIOUS
    <3> QED BY <2>1, <3>1
  <2>3. \A n \in 0..k+1 : g[n] = IF n = 0 THEN {} ELSE HashableAround(g[n - 1])
    <3>1. \A n \in 0..k+1 : g[n] = IF n = 0 THEN {} ELSE HashableAround(f[n - 1])
      OBVIOUS
    <3>2. \A n \in 0..k+1 : n # 0 => n \in 1..k+1
      OBVIOUS
    <3> HIDE DEF g
    <3> QED BY <2>2, <3>1, <3>2
  <2>4. g = [n \in 0..k+1 |-> g[n]]
    OBVIOUS
  <2>5. Is(g, k + 1)
    <3> HIDE DEF g
    <3> QED BY <2>3, <2>4
  <2> HIDE DEF g, Is
  <2> QED BY <2>5
<1>3. PICK f : Is(f, MaxLevels)
  <2>1. \A k \in Nat : k \in D => k + 1 \in D
    <3> HIDE DEF Is
    <3> QED BY <1>2
  <2> HIDE DEF D
  <2>2. MaxLevels \in D
    BY <1>1, <2>1, Bounds, Induction
  <2> QED BY <2>2 DEF D
<1>4. Hashable = [n \in 0..MaxLevels |-> IF n = 0 THEN {} ELSE HashableAround(Hashable[n - 1])]
  BY <1>3 DEF Hashable
<1>5. 0 \in 0..MaxLevels /\ \A n \in 1..MaxLevels : n \in 0..MaxLevels /\ n # 0
  BY Bounds
<1> QED BY <1>4, <1>5

\* the types that the validator does not check in full,
LEMMA UncheckedLevels ==
  /\ Unchecked[0] = {}
  /\ \A n \in 1..MaxLevels : Unchecked[n] = UncheckedAround(Unchecked[n - 1])
<1> DEFINE Is(f, k) == f = [n \in 0..k |-> IF n = 0 THEN {} ELSE UncheckedAround(f[n - 1])]
           D == {k \in Nat : \E f : Is(f, k)}
<1>1. 0 \in D
  <2> DEFINE f == [n \in 0..0 |-> {}]
  <2>1. Is(f, 0)
    OBVIOUS
  <2> HIDE DEF f, Is
  <2> QED BY <2>1
<1>2. ASSUME NEW k \in Nat, NEW f, Is(f, k) PROVE \E g : Is(g, k + 1)
  <2> DEFINE g == [n \in 0..k+1 |-> IF n = 0 THEN {} ELSE UncheckedAround(f[n - 1])]
  <2>1. ASSUME NEW n \in 0..k PROVE f[n] = g[n]
    <3>1. f[n] = IF n = 0 THEN {} ELSE UncheckedAround(f[n - 1])
      BY <1>2
    <3>2. g[n] = IF n = 0 THEN {} ELSE UncheckedAround(f[n - 1])
      OBVIOUS
    <3> QED BY <3>1, <3>2
  <2>2. ASSUME NEW n \in 1..k+1 PROVE g[n - 1] = f[n - 1]
    <3>1. n - 1 \in 0..k
      OBVIOUS
    <3> QED BY <2>1, <3>1
  <2>3. \A n \in 0..k+1 : g[n] = IF n = 0 THEN {} ELSE UncheckedAround(g[n - 1])
    <3>1. \A n \in 0..k+1 : g[n] = IF n = 0 THEN {} ELSE UncheckedAround(f[n - 1])
      OBVIOUS
    <3>2. \A n \in 0..k+1 : n # 0 => n \in 1..k+1
      OBVIOUS
    <3> HIDE DEF g
    <3> QED BY <2>2, <3>1, <3>2
  <2>4. g = [n \in 0..k+1 |-> g[n]]
    OBVIOUS
  <2>5. Is(g, k + 1)
    <3> HIDE DEF g
    <3> QED BY <2>3, <2>4
  <2> HIDE DEF g, Is
  <2> QED BY <2>5
<1>3. PICK f : Is(f, MaxLevels)
  <2>1. \A k \in Nat : k \in D => k + 1 \in D
    <3> HIDE DEF Is
    <3> QED BY <1>2
  <2> HIDE DEF D
  <2>2. MaxLevels \in D
    BY <1>1, <2>1, Bounds, Induction
  <2> QED BY <2>2 DEF D
<1>4. Unchecked = [n \in 0..MaxLevels |-> IF n = 0 THEN {} ELSE UncheckedAround(Unchecked[n - 1])]
  BY <1>3 DEF Unchecked
<1>5. 0 \in 0..MaxLevels /\ \A n \in 1..MaxLevels : n \in 0..MaxLevels /\ n # 0
  BY Bounds
<1> QED BY <1>4, <1>5

\* what coerce_value returns with n nested calls,
LEMMA CoerceLevels ==
  /\ Coerce[0] = CoerceNever
  /\ \A n \in 1..MaxDepth : Coerce[n] = CoerceNested(Coerce[n - 1])
<1> DEFINE Is(f, k) == f = [n \in 0..k |-> IF n = 0 THEN CoerceNever ELSE CoerceNested(f[n - 1])]
           D == {k \in Nat : \E f : Is(f, k)}
<1>1. 0 \in D
  <2> DEFINE f == [n \in 0..0 |-> CoerceNever]
  <2>1. Is(f, 0)
    OBVIOUS
  <2> HIDE DEF f, Is
  <2> QED BY <2>1
<1>2. ASSUME NEW k \in Nat, NEW f, Is(f, k) PROVE \E g : Is(g, k + 1)
  <2> DEFINE g == [n \in 0..k+1 |-> IF n = 0 THEN CoerceNever ELSE CoerceNested(f[n - 1])]
  <2>1. ASSUME NEW n \in 0..k PROVE f[n] = g[n]
    <3>1. f[n] = IF n = 0 THEN CoerceNever ELSE CoerceNested(f[n - 1])
      BY <1>2
    <3>2. g[n] = IF n = 0 THEN CoerceNever ELSE CoerceNested(f[n - 1])
      OBVIOUS
    <3> QED BY <3>1, <3>2
  <2>2. ASSUME NEW n \in 1..k+1 PROVE g[n - 1] = f[n - 1]
    <3>1. n - 1 \in 0..k
      OBVIOUS
    <3> QED BY <2>1, <3>1
  <2>3. \A n \in 0..k+1 : g[n] = IF n = 0 THEN CoerceNever ELSE CoerceNested(g[n - 1])
    <3>1. \A n \in 0..k+1 : g[n] = IF n = 0 THEN CoerceNever ELSE CoerceNested(f[n - 1])
      OBVIOUS
    <3>2. \A n \in 0..k+1 : n # 0 => n \in 1..k+1
      OBVIOUS
    <3> HIDE DEF g
    <3> QED BY <2>2, <3>1, <3>2
  <2>4. g = [n \in 0..k+1 |-> g[n]]
    OBVIOUS
  <2>5. Is(g, k + 1)
    <3> HIDE DEF g
    <3> QED BY <2>3, <2>4
  <2> HIDE DEF g, Is
  <2> QED BY <2>5
<1>3. PICK f : Is(f, MaxDepth)
  <2>1. \A k \in Nat : k \in D => k + 1 \in D
    <3> HIDE DEF Is
    <3> QED BY <1>2
  <2> HIDE DEF D
  <2>2. MaxDepth \in D
    BY <1>1, <2>1, Bounds, Induction
  <2> QED BY <2>2 DEF D
<1>4. Coerce = [n \in 0..MaxDepth |-> IF n = 0 THEN CoerceNever ELSE CoerceNested(Coerce[n - 1])]
  BY <1>3 DEF Coerce
<1>5. 0 \in 0..MaxDepth /\ \A n \in 1..MaxDepth : n \in 0..MaxDepth /\ n # 0
  BY Bounds
<1> QED BY <1>4, <1>5

\* the values of a declared type,
LEMMA OfLevels ==
  /\ Of[0] = OfNone
  /\ \A n \in 1..MaxLevels : Of[n] = OfNested(Of[n - 1])
<1> DEFINE Is(f, k) == f = [n \in 0..k |-> IF n = 0 THEN OfNone ELSE OfNested(f[n - 1])]
           D == {k \in Nat : \E f : Is(f, k)}
<1>1. 0 \in D
  <2> DEFINE f == [n \in 0..0 |-> OfNone]
  <2>1. Is(f, 0)
    OBVIOUS
  <2> HIDE DEF f, Is
  <2> QED BY <2>1
<1>2. ASSUME NEW k \in Nat, NEW f, Is(f, k) PROVE \E g : Is(g, k + 1)
  <2> DEFINE g == [n \in 0..k+1 |-> IF n = 0 THEN OfNone ELSE OfNested(f[n - 1])]
  <2>1. ASSUME NEW n \in 0..k PROVE f[n] = g[n]
    <3>1. f[n] = IF n = 0 THEN OfNone ELSE OfNested(f[n - 1])
      BY <1>2
    <3>2. g[n] = IF n = 0 THEN OfNone ELSE OfNested(f[n - 1])
      OBVIOUS
    <3> QED BY <3>1, <3>2
  <2>2. ASSUME NEW n \in 1..k+1 PROVE g[n - 1] = f[n - 1]
    <3>1. n - 1 \in 0..k
      OBVIOUS
    <3> QED BY <2>1, <3>1
  <2>3. \A n \in 0..k+1 : g[n] = IF n = 0 THEN OfNone ELSE OfNested(g[n - 1])
    <3>1. \A n \in 0..k+1 : g[n] = IF n = 0 THEN OfNone ELSE OfNested(f[n - 1])
      OBVIOUS
    <3>2. \A n \in 0..k+1 : n # 0 => n \in 1..k+1
      OBVIOUS
    <3> HIDE DEF g
    <3> QED BY <2>2, <3>1, <3>2
  <2>4. g = [n \in 0..k+1 |-> g[n]]
    OBVIOUS
  <2>5. Is(g, k + 1)
    <3> HIDE DEF g
    <3> QED BY <2>3, <2>4
  <2> HIDE DEF g, Is
  <2> QED BY <2>5
<1>3. PICK f : Is(f, MaxLevels)
  <2>1. \A k \in Nat : k \in D => k + 1 \in D
    <3> HIDE DEF Is
    <3> QED BY <1>2
  <2> HIDE DEF D
  <2>2. MaxLevels \in D
    BY <1>1, <2>1, Bounds, Induction
  <2> QED BY <2>2 DEF D
<1>4. Of = [n \in 0..MaxLevels |-> IF n = 0 THEN OfNone ELSE OfNested(Of[n - 1])]
  BY <1>3 DEF Of
<1>5. 0 \in 0..MaxLevels /\ \A n \in 1..MaxLevels : n \in 0..MaxLevels /\ n # 0
  BY Bounds
<1> QED BY <1>4, <1>5

\* the types without a choice,
LEMMA UnambiguousLevels ==
  /\ Unambiguous[0] = {}
  /\ \A n \in 1..MaxDepth : Unambiguous[n] = UnambiguousAround(Unambiguous[n - 1])
<1> DEFINE Is(f, k) == f = [n \in 0..k |-> IF n = 0 THEN {} ELSE UnambiguousAround(f[n - 1])]
           D == {k \in Nat : \E f : Is(f, k)}
<1>1. 0 \in D
  <2> DEFINE f == [n \in 0..0 |-> {}]
  <2>1. Is(f, 0)
    OBVIOUS
  <2> HIDE DEF f, Is
  <2> QED BY <2>1
<1>2. ASSUME NEW k \in Nat, NEW f, Is(f, k) PROVE \E g : Is(g, k + 1)
  <2> DEFINE g == [n \in 0..k+1 |-> IF n = 0 THEN {} ELSE UnambiguousAround(f[n - 1])]
  <2>1. ASSUME NEW n \in 0..k PROVE f[n] = g[n]
    <3>1. f[n] = IF n = 0 THEN {} ELSE UnambiguousAround(f[n - 1])
      BY <1>2
    <3>2. g[n] = IF n = 0 THEN {} ELSE UnambiguousAround(f[n - 1])
      OBVIOUS
    <3> QED BY <3>1, <3>2
  <2>2. ASSUME NEW n \in 1..k+1 PROVE g[n - 1] = f[n - 1]
    <3>1. n - 1 \in 0..k
      OBVIOUS
    <3> QED BY <2>1, <3>1
  <2>3. \A n \in 0..k+1 : g[n] = IF n = 0 THEN {} ELSE UnambiguousAround(g[n - 1])
    <3>1. \A n \in 0..k+1 : g[n] = IF n = 0 THEN {} ELSE UnambiguousAround(f[n - 1])
      OBVIOUS
    <3>2. \A n \in 0..k+1 : n # 0 => n \in 1..k+1
      OBVIOUS
    <3> HIDE DEF g
    <3> QED BY <2>2, <3>1, <3>2
  <2>4. g = [n \in 0..k+1 |-> g[n]]
    OBVIOUS
  <2>5. Is(g, k + 1)
    <3> HIDE DEF g
    <3> QED BY <2>3, <2>4
  <2> HIDE DEF g, Is
  <2> QED BY <2>5
<1>3. PICK f : Is(f, MaxDepth)
  <2>1. \A k \in Nat : k \in D => k + 1 \in D
    <3> HIDE DEF Is
    <3> QED BY <1>2
  <2> HIDE DEF D
  <2>2. MaxDepth \in D
    BY <1>1, <2>1, Bounds, Induction
  <2> QED BY <2>2 DEF D
<1>4. Unambiguous = [n \in 0..MaxDepth |-> IF n = 0 THEN {} ELSE UnambiguousAround(Unambiguous[n - 1])]
  BY <1>3 DEF Unambiguous
<1>5. 0 \in 0..MaxDepth /\ \A n \in 1..MaxDepth : n \in 0..MaxDepth /\ n # 0
  BY Bounds
<1> QED BY <1>4, <1>5

\* the documents,
LEMMA DocumentLevels ==
  /\ Document[0] = DocumentAround({})
  /\ \A n \in 1..MaxDepth : Document[n] = DocumentAround(Document[n - 1])
<1> DEFINE Is(f, k) == f = [n \in 0..k |-> IF n = 0 THEN DocumentAround({}) ELSE DocumentAround(f[n - 1])]
           D == {k \in Nat : \E f : Is(f, k)}
<1>1. 0 \in D
  <2> DEFINE f == [n \in 0..0 |-> DocumentAround({})]
  <2>1. Is(f, 0)
    OBVIOUS
  <2> HIDE DEF f, Is
  <2> QED BY <2>1
<1>2. ASSUME NEW k \in Nat, NEW f, Is(f, k) PROVE \E g : Is(g, k + 1)
  <2> DEFINE g == [n \in 0..k+1 |-> IF n = 0 THEN DocumentAround({}) ELSE DocumentAround(f[n - 1])]
  <2>1. ASSUME NEW n \in 0..k PROVE f[n] = g[n]
    <3>1. f[n] = IF n = 0 THEN DocumentAround({}) ELSE DocumentAround(f[n - 1])
      BY <1>2
    <3>2. g[n] = IF n = 0 THEN DocumentAround({}) ELSE DocumentAround(f[n - 1])
      OBVIOUS
    <3> QED BY <3>1, <3>2
  <2>2. ASSUME NEW n \in 1..k+1 PROVE g[n - 1] = f[n - 1]
    <3>1. n - 1 \in 0..k
      OBVIOUS
    <3> QED BY <2>1, <3>1
  <2>3. \A n \in 0..k+1 : g[n] = IF n = 0 THEN DocumentAround({}) ELSE DocumentAround(g[n - 1])
    <3>1. \A n \in 0..k+1 : g[n] = IF n = 0 THEN DocumentAround({}) ELSE DocumentAround(f[n - 1])
      OBVIOUS
    <3>2. \A n \in 0..k+1 : n # 0 => n \in 1..k+1
      OBVIOUS
    <3> HIDE DEF g
    <3> QED BY <2>2, <3>1, <3>2
  <2>4. g = [n \in 0..k+1 |-> g[n]]
    OBVIOUS
  <2>5. Is(g, k + 1)
    <3> HIDE DEF g
    <3> QED BY <2>3, <2>4
  <2> HIDE DEF g, Is
  <2> QED BY <2>5
<1>3. PICK f : Is(f, MaxDepth)
  <2>1. \A k \in Nat : k \in D => k + 1 \in D
    <3> HIDE DEF Is
    <3> QED BY <1>2
  <2> HIDE DEF D
  <2>2. MaxDepth \in D
    BY <1>1, <2>1, Bounds, Induction
  <2> QED BY <2>2 DEF D
<1>4. Document = [n \in 0..MaxDepth |-> IF n = 0 THEN DocumentAround({}) ELSE DocumentAround(Document[n - 1])]
  BY <1>3 DEF Document
<1>5. 0 \in 0..MaxDepth /\ \A n \in 1..MaxDepth : n \in 0..MaxDepth /\ n # 0
  BY Bounds
<1> QED BY <1>4, <1>5

\* the ordinary ones,
LEMMA OrdinaryLevels ==
  /\ Ordinary[0] = OrdinaryAround({})
  /\ \A n \in 1..MaxDepth : Ordinary[n] = OrdinaryAround(Ordinary[n - 1])
<1> DEFINE Is(f, k) == f = [n \in 0..k |-> IF n = 0 THEN OrdinaryAround({}) ELSE OrdinaryAround(f[n - 1])]
           D == {k \in Nat : \E f : Is(f, k)}
<1>1. 0 \in D
  <2> DEFINE f == [n \in 0..0 |-> OrdinaryAround({})]
  <2>1. Is(f, 0)
    OBVIOUS
  <2> HIDE DEF f, Is
  <2> QED BY <2>1
<1>2. ASSUME NEW k \in Nat, NEW f, Is(f, k) PROVE \E g : Is(g, k + 1)
  <2> DEFINE g == [n \in 0..k+1 |-> IF n = 0 THEN OrdinaryAround({}) ELSE OrdinaryAround(f[n - 1])]
  <2>1. ASSUME NEW n \in 0..k PROVE f[n] = g[n]
    <3>1. f[n] = IF n = 0 THEN OrdinaryAround({}) ELSE OrdinaryAround(f[n - 1])
      BY <1>2
    <3>2. g[n] = IF n = 0 THEN OrdinaryAround({}) ELSE OrdinaryAround(f[n - 1])
      OBVIOUS
    <3> QED BY <3>1, <3>2
  <2>2. ASSUME NEW n \in 1..k+1 PROVE g[n - 1] = f[n - 1]
    <3>1. n - 1 \in 0..k
      OBVIOUS
    <3> QED BY <2>1, <3>1
  <2>3. \A n \in 0..k+1 : g[n] = IF n = 0 THEN OrdinaryAround({}) ELSE OrdinaryAround(g[n - 1])
    <3>1. \A n \in 0..k+1 : g[n] = IF n = 0 THEN OrdinaryAround({}) ELSE OrdinaryAround(f[n - 1])
      OBVIOUS
    <3>2. \A n \in 0..k+1 : n # 0 => n \in 1..k+1
      OBVIOUS
    <3> HIDE DEF g
    <3> QED BY <2>2, <3>1, <3>2
  <2>4. g = [n \in 0..k+1 |-> g[n]]
    OBVIOUS
  <2>5. Is(g, k + 1)
    <3> HIDE DEF g
    <3> QED BY <2>3, <2>4
  <2> HIDE DEF g, Is
  <2> QED BY <2>5
<1>3. PICK f : Is(f, MaxDepth)
  <2>1. \A k \in Nat : k \in D => k + 1 \in D
    <3> HIDE DEF Is
    <3> QED BY <1>2
  <2> HIDE DEF D
  <2>2. MaxDepth \in D
    BY <1>1, <2>1, Bounds, Induction
  <2> QED BY <2>2 DEF D
<1>4. Ordinary = [n \in 0..MaxDepth |-> IF n = 0 THEN OrdinaryAround({}) ELSE OrdinaryAround(Ordinary[n - 1])]
  BY <1>3 DEF Ordinary
<1>5. 0 \in 0..MaxDepth /\ \A n \in 1..MaxDepth : n \in 0..MaxDepth /\ n # 0
  BY Bounds
<1> QED BY <1>4, <1>5

\* the published schemas,
LEMMA SchemaLevels ==
  /\ Schema[0] = SchemaNever
  /\ \A n \in 1..MaxDepth : Schema[n] = SchemaNested(Schema[n - 1])
<1> DEFINE Is(f, k) == f = [n \in 0..k |-> IF n = 0 THEN SchemaNever ELSE SchemaNested(f[n - 1])]
           D == {k \in Nat : \E f : Is(f, k)}
<1>1. 0 \in D
  <2> DEFINE f == [n \in 0..0 |-> SchemaNever]
  <2>1. Is(f, 0)
    OBVIOUS
  <2> HIDE DEF f, Is
  <2> QED BY <2>1
<1>2. ASSUME NEW k \in Nat, NEW f, Is(f, k) PROVE \E g : Is(g, k + 1)
  <2> DEFINE g == [n \in 0..k+1 |-> IF n = 0 THEN SchemaNever ELSE SchemaNested(f[n - 1])]
  <2>1. ASSUME NEW n \in 0..k PROVE f[n] = g[n]
    <3>1. f[n] = IF n = 0 THEN SchemaNever ELSE SchemaNested(f[n - 1])
      BY <1>2
    <3>2. g[n] = IF n = 0 THEN SchemaNever ELSE SchemaNested(f[n - 1])
      OBVIOUS
    <3> QED BY <3>1, <3>2
  <2>2. ASSUME NEW n \in 1..k+1 PROVE g[n - 1] = f[n - 1]
    <3>1. n - 1 \in 0..k
      OBVIOUS
    <3> QED BY <2>1, <3>1
  <2>3. \A n \in 0..k+1 : g[n] = IF n = 0 THEN SchemaNever ELSE SchemaNested(g[n - 1])
    <3>1. \A n \in 0..k+1 : g[n] = IF n = 0 THEN SchemaNever ELSE SchemaNested(f[n - 1])
      OBVIOUS
    <3>2. \A n \in 0..k+1 : n # 0 => n \in 1..k+1
      OBVIOUS
    <3> HIDE DEF g
    <3> QED BY <2>2, <3>1, <3>2
  <2>4. g = [n \in 0..k+1 |-> g[n]]
    OBVIOUS
  <2>5. Is(g, k + 1)
    <3> HIDE DEF g
    <3> QED BY <2>3, <2>4
  <2> HIDE DEF g, Is
  <2> QED BY <2>5
<1>3. PICK f : Is(f, MaxDepth)
  <2>1. \A k \in Nat : k \in D => k + 1 \in D
    <3> HIDE DEF Is
    <3> QED BY <1>2
  <2> HIDE DEF D
  <2>2. MaxDepth \in D
    BY <1>1, <2>1, Bounds, Induction
  <2> QED BY <2>2 DEF D
<1>4. Schema = [n \in 0..MaxDepth |-> IF n = 0 THEN SchemaNever ELSE SchemaNested(Schema[n - 1])]
  BY <1>3 DEF Schema
<1>5. 0 \in 0..MaxDepth /\ \A n \in 1..MaxDepth : n \in 0..MaxDepth /\ n # 0
  BY Bounds
<1> QED BY <1>4, <1>5

\* the types whose values are hashable,
LEMMA HashableTypeLevels ==
  /\ HashableType[0] = {}
  /\ \A n \in 1..MaxDepth : HashableType[n] = HashableTypeAround(HashableType[n - 1])
<1> DEFINE Is(f, k) == f = [n \in 0..k |-> IF n = 0 THEN {} ELSE HashableTypeAround(f[n - 1])]
           D == {k \in Nat : \E f : Is(f, k)}
<1>1. 0 \in D
  <2> DEFINE f == [n \in 0..0 |-> {}]
  <2>1. Is(f, 0)
    OBVIOUS
  <2> HIDE DEF f, Is
  <2> QED BY <2>1
<1>2. ASSUME NEW k \in Nat, NEW f, Is(f, k) PROVE \E g : Is(g, k + 1)
  <2> DEFINE g == [n \in 0..k+1 |-> IF n = 0 THEN {} ELSE HashableTypeAround(f[n - 1])]
  <2>1. ASSUME NEW n \in 0..k PROVE f[n] = g[n]
    <3>1. f[n] = IF n = 0 THEN {} ELSE HashableTypeAround(f[n - 1])
      BY <1>2
    <3>2. g[n] = IF n = 0 THEN {} ELSE HashableTypeAround(f[n - 1])
      OBVIOUS
    <3> QED BY <3>1, <3>2
  <2>2. ASSUME NEW n \in 1..k+1 PROVE g[n - 1] = f[n - 1]
    <3>1. n - 1 \in 0..k
      OBVIOUS
    <3> QED BY <2>1, <3>1
  <2>3. \A n \in 0..k+1 : g[n] = IF n = 0 THEN {} ELSE HashableTypeAround(g[n - 1])
    <3>1. \A n \in 0..k+1 : g[n] = IF n = 0 THEN {} ELSE HashableTypeAround(f[n - 1])
      OBVIOUS
    <3>2. \A n \in 0..k+1 : n # 0 => n \in 1..k+1
      OBVIOUS
    <3> HIDE DEF g
    <3> QED BY <2>2, <3>1, <3>2
  <2>4. g = [n \in 0..k+1 |-> g[n]]
    OBVIOUS
  <2>5. Is(g, k + 1)
    <3> HIDE DEF g
    <3> QED BY <2>3, <2>4
  <2> HIDE DEF g, Is
  <2> QED BY <2>5
<1>3. PICK f : Is(f, MaxDepth)
  <2>1. \A k \in Nat : k \in D => k + 1 \in D
    <3> HIDE DEF Is
    <3> QED BY <1>2
  <2> HIDE DEF D
  <2>2. MaxDepth \in D
    BY <1>1, <2>1, Bounds, Induction
  <2> QED BY <2>2 DEF D
<1>4. HashableType = [n \in 0..MaxDepth |-> IF n = 0 THEN {} ELSE HashableTypeAround(HashableType[n - 1])]
  BY <1>3 DEF HashableType
<1>5. 0 \in 0..MaxDepth /\ \A n \in 1..MaxDepth : n \in 0..MaxDepth /\ n # 0
  BY Bounds
<1> QED BY <1>4, <1>5

\* the types whose schema can be relied on,
LEMMA DocumentedLevels ==
  /\ Documented[0] = {}
  /\ \A n \in 1..MaxDepth : Documented[n] = DocumentedAround(Documented[n - 1])
<1> DEFINE Is(f, k) == f = [n \in 0..k |-> IF n = 0 THEN {} ELSE DocumentedAround(f[n - 1])]
           D == {k \in Nat : \E f : Is(f, k)}
<1>1. 0 \in D
  <2> DEFINE f == [n \in 0..0 |-> {}]
  <2>1. Is(f, 0)
    OBVIOUS
  <2> HIDE DEF f, Is
  <2> QED BY <2>1
<1>2. ASSUME NEW k \in Nat, NEW f, Is(f, k) PROVE \E g : Is(g, k + 1)
  <2> DEFINE g == [n \in 0..k+1 |-> IF n = 0 THEN {} ELSE DocumentedAround(f[n - 1])]
  <2>1. ASSUME NEW n \in 0..k PROVE f[n] = g[n]
    <3>1. f[n] = IF n = 0 THEN {} ELSE DocumentedAround(f[n - 1])
      BY <1>2
    <3>2. g[n] = IF n = 0 THEN {} ELSE DocumentedAround(f[n - 1])
      OBVIOUS
    <3> QED BY <3>1, <3>2
  <2>2. ASSUME NEW n \in 1..k+1 PROVE g[n - 1] = f[n - 1]
    <3>1. n - 1 \in 0..k
      OBVIOUS
    <3> QED BY <2>1, <3>1
  <2>3. \A n \in 0..k+1 : g[n] = IF n = 0 THEN {} ELSE DocumentedAround(g[n - 1])
    <3>1. \A n \in 0..k+1 : g[n] = IF n = 0 THEN {} ELSE DocumentedAround(f[n - 1])
      OBVIOUS
    <3>2. \A n \in 0..k+1 : n # 0 => n \in 1..k+1
      OBVIOUS
    <3> HIDE DEF g
    <3> QED BY <2>2, <3>1, <3>2
  <2>4. g = [n \in 0..k+1 |-> g[n]]
    OBVIOUS
  <2>5. Is(g, k + 1)
    <3> HIDE DEF g
    <3> QED BY <2>3, <2>4
  <2> HIDE DEF g, Is
  <2> QED BY <2>5
<1>3. PICK f : Is(f, MaxDepth)
  <2>1. \A k \in Nat : k \in D => k + 1 \in D
    <3> HIDE DEF Is
    <3> QED BY <1>2
  <2> HIDE DEF D
  <2>2. MaxDepth \in D
    BY <1>1, <2>1, Bounds, Induction
  <2> QED BY <2>2 DEF D
<1>4. Documented = [n \in 0..MaxDepth |-> IF n = 0 THEN {} ELSE DocumentedAround(Documented[n - 1])]
  BY <1>3 DEF Documented
<1>5. 0 \in 0..MaxDepth /\ \A n \in 1..MaxDepth : n \in 0..MaxDepth /\ n # 0
  BY Bounds
<1> QED BY <1>4, <1>5

\* asdict,
LEMMA AsDictLevels ==
  /\ AsDict[0] = [v \in PythonValues |-> v]
  /\ \A n \in 1..MaxNesting : AsDict[n] = AsDictNested(AsDict[n - 1])
<1> DEFINE Is(f, k) == f = [n \in 0..k |-> IF n = 0 THEN [v \in PythonValues |-> v] ELSE AsDictNested(f[n - 1])]
           D == {k \in Nat : \E f : Is(f, k)}
<1>1. 0 \in D
  <2> DEFINE f == [n \in 0..0 |-> [v \in PythonValues |-> v]]
  <2>1. Is(f, 0)
    OBVIOUS
  <2> HIDE DEF f, Is
  <2> QED BY <2>1
<1>2. ASSUME NEW k \in Nat, NEW f, Is(f, k) PROVE \E g : Is(g, k + 1)
  <2> DEFINE g == [n \in 0..k+1 |-> IF n = 0 THEN [v \in PythonValues |-> v] ELSE AsDictNested(f[n - 1])]
  <2>1. ASSUME NEW n \in 0..k PROVE f[n] = g[n]
    <3>1. f[n] = IF n = 0 THEN [v \in PythonValues |-> v] ELSE AsDictNested(f[n - 1])
      BY <1>2
    <3>2. g[n] = IF n = 0 THEN [v \in PythonValues |-> v] ELSE AsDictNested(f[n - 1])
      OBVIOUS
    <3> QED BY <3>1, <3>2
  <2>2. ASSUME NEW n \in 1..k+1 PROVE g[n - 1] = f[n - 1]
    <3>1. n - 1 \in 0..k
      OBVIOUS
    <3> QED BY <2>1, <3>1
  <2>3. \A n \in 0..k+1 : g[n] = IF n = 0 THEN [v \in PythonValues |-> v] ELSE AsDictNested(g[n - 1])
    <3>1. \A n \in 0..k+1 : g[n] = IF n = 0 THEN [v \in PythonValues |-> v] ELSE AsDictNested(f[n - 1])
      OBVIOUS
    <3>2. \A n \in 0..k+1 : n # 0 => n \in 1..k+1
      OBVIOUS
    <3> HIDE DEF g
    <3> QED BY <2>2, <3>1, <3>2
  <2>4. g = [n \in 0..k+1 |-> g[n]]
    OBVIOUS
  <2>5. Is(g, k + 1)
    <3> HIDE DEF g
    <3> QED BY <2>3, <2>4
  <2> HIDE DEF g, Is
  <2> QED BY <2>5
<1>3. PICK f : Is(f, MaxNesting)
  <2>1. \A k \in Nat : k \in D => k + 1 \in D
    <3> HIDE DEF Is
    <3> QED BY <1>2
  <2> HIDE DEF D
  <2>2. MaxNesting \in D
    BY <1>1, <2>1, Bounds, Induction
  <2> QED BY <2>2 DEF D
<1>4. AsDict = [n \in 0..MaxNesting |-> IF n = 0 THEN [v \in PythonValues |-> v] ELSE AsDictNested(AsDict[n - 1])]
  BY <1>3 DEF AsDict
<1>5. 0 \in 0..MaxNesting /\ \A n \in 1..MaxNesting : n \in 0..MaxNesting /\ n # 0
  BY Bounds
<1> QED BY <1>4, <1>5

\* json.dumps,
LEMMA DumpsLevels ==
  /\ Dumps[0] = [v \in PythonValues |-> Ok(v)]
  /\ \A n \in 1..MaxNesting : Dumps[n] = DumpsNested(Dumps[n - 1])
<1> DEFINE Is(f, k) == f = [n \in 0..k |-> IF n = 0 THEN [v \in PythonValues |-> Ok(v)] ELSE DumpsNested(f[n - 1])]
           D == {k \in Nat : \E f : Is(f, k)}
<1>1. 0 \in D
  <2> DEFINE f == [n \in 0..0 |-> [v \in PythonValues |-> Ok(v)]]
  <2>1. Is(f, 0)
    OBVIOUS
  <2> HIDE DEF f, Is
  <2> QED BY <2>1
<1>2. ASSUME NEW k \in Nat, NEW f, Is(f, k) PROVE \E g : Is(g, k + 1)
  <2> DEFINE g == [n \in 0..k+1 |-> IF n = 0 THEN [v \in PythonValues |-> Ok(v)] ELSE DumpsNested(f[n - 1])]
  <2>1. ASSUME NEW n \in 0..k PROVE f[n] = g[n]
    <3>1. f[n] = IF n = 0 THEN [v \in PythonValues |-> Ok(v)] ELSE DumpsNested(f[n - 1])
      BY <1>2
    <3>2. g[n] = IF n = 0 THEN [v \in PythonValues |-> Ok(v)] ELSE DumpsNested(f[n - 1])
      OBVIOUS
    <3> QED BY <3>1, <3>2
  <2>2. ASSUME NEW n \in 1..k+1 PROVE g[n - 1] = f[n - 1]
    <3>1. n - 1 \in 0..k
      OBVIOUS
    <3> QED BY <2>1, <3>1
  <2>3. \A n \in 0..k+1 : g[n] = IF n = 0 THEN [v \in PythonValues |-> Ok(v)] ELSE DumpsNested(g[n - 1])
    <3>1. \A n \in 0..k+1 : g[n] = IF n = 0 THEN [v \in PythonValues |-> Ok(v)] ELSE DumpsNested(f[n - 1])
      OBVIOUS
    <3>2. \A n \in 0..k+1 : n # 0 => n \in 1..k+1
      OBVIOUS
    <3> HIDE DEF g
    <3> QED BY <2>2, <3>1, <3>2
  <2>4. g = [n \in 0..k+1 |-> g[n]]
    OBVIOUS
  <2>5. Is(g, k + 1)
    <3> HIDE DEF g
    <3> QED BY <2>3, <2>4
  <2> HIDE DEF g, Is
  <2> QED BY <2>5
<1>3. PICK f : Is(f, MaxNesting)
  <2>1. \A k \in Nat : k \in D => k + 1 \in D
    <3> HIDE DEF Is
    <3> QED BY <1>2
  <2> HIDE DEF D
  <2>2. MaxNesting \in D
    BY <1>1, <2>1, Bounds, Induction
  <2> QED BY <2>2 DEF D
<1>4. Dumps = [n \in 0..MaxNesting |-> IF n = 0 THEN [v \in PythonValues |-> Ok(v)] ELSE DumpsNested(Dumps[n - 1])]
  BY <1>3 DEF Dumps
<1>5. 0 \in 0..MaxNesting /\ \A n \in 1..MaxNesting : n \in 0..MaxNesting /\ n # 0
  BY Bounds
<1> QED BY <1>4, <1>5

\* and the types of which JSON keeps every value.
LEMMA PlainLevels ==
  /\ Plain[0] = {}
  /\ \A n \in 1..MaxDepth : Plain[n] = PlainAround(Plain[n - 1])
<1> DEFINE Is(f, k) == f = [n \in 0..k |-> IF n = 0 THEN {} ELSE PlainAround(f[n - 1])]
           D == {k \in Nat : \E f : Is(f, k)}
<1>1. 0 \in D
  <2> DEFINE f == [n \in 0..0 |-> {}]
  <2>1. Is(f, 0)
    OBVIOUS
  <2> HIDE DEF f, Is
  <2> QED BY <2>1
<1>2. ASSUME NEW k \in Nat, NEW f, Is(f, k) PROVE \E g : Is(g, k + 1)
  <2> DEFINE g == [n \in 0..k+1 |-> IF n = 0 THEN {} ELSE PlainAround(f[n - 1])]
  <2>1. ASSUME NEW n \in 0..k PROVE f[n] = g[n]
    <3>1. f[n] = IF n = 0 THEN {} ELSE PlainAround(f[n - 1])
      BY <1>2
    <3>2. g[n] = IF n = 0 THEN {} ELSE PlainAround(f[n - 1])
      OBVIOUS
    <3> QED BY <3>1, <3>2
  <2>2. ASSUME NEW n \in 1..k+1 PROVE g[n - 1] = f[n - 1]
    <3>1. n - 1 \in 0..k
      OBVIOUS
    <3> QED BY <2>1, <3>1
  <2>3. \A n \in 0..k+1 : g[n] = IF n = 0 THEN {} ELSE PlainAround(g[n - 1])
    <3>1. \A n \in 0..k+1 : g[n] = IF n = 0 THEN {} ELSE PlainAround(f[n - 1])
      OBVIOUS
    <3>2. \A n \in 0..k+1 : n # 0 => n \in 1..k+1
      OBVIOUS
    <3> HIDE DEF g
    <3> QED BY <2>2, <3>1, <3>2
  <2>4. g = [n \in 0..k+1 |-> g[n]]
    OBVIOUS
  <2>5. Is(g, k + 1)
    <3> HIDE DEF g
    <3> QED BY <2>3, <2>4
  <2> HIDE DEF g, Is
  <2> QED BY <2>5
<1>3. PICK f : Is(f, MaxDepth)
  <2>1. \A k \in Nat : k \in D => k + 1 \in D
    <3> HIDE DEF Is
    <3> QED BY <1>2
  <2> HIDE DEF D
  <2>2. MaxDepth \in D
    BY <1>1, <2>1, Bounds, Induction
  <2> QED BY <2>2 DEF D
<1>4. Plain = [n \in 0..MaxDepth |-> IF n = 0 THEN {} ELSE PlainAround(Plain[n - 1])]
  BY <1>3 DEF Plain
<1>5. 0 \in 0..MaxDepth /\ \A n \in 1..MaxDepth : n \in 0..MaxDepth /\ n # 0
  BY Bounds
<1> QED BY <1>4, <1>5

\* and the columns of the types.
NoColumns == [T \in Types \cup {<<"str">>, Ellipsis} |-> NoColumn]
LEMMA ColumnLevels ==
  /\ SqliteTypes[0] = NoColumns
  /\ \A n \in 1..MaxDepth : SqliteTypes[n] = SqliteTypeNested(SqliteTypes[n - 1])
<1> DEFINE Is(f, k) == f = [n \in 0..k |-> IF n = 0 THEN NoColumns ELSE SqliteTypeNested(f[n - 1])]
           D == {k \in Nat : \E f : Is(f, k)}
<1>1. 0 \in D
  <2> DEFINE f == [n \in 0..0 |-> NoColumns]
  <2>1. Is(f, 0)
    OBVIOUS
  <2> HIDE DEF f, Is
  <2> QED BY <2>1
<1>2. ASSUME NEW k \in Nat, NEW f, Is(f, k) PROVE \E g : Is(g, k + 1)
  <2> DEFINE g == [n \in 0..k+1 |-> IF n = 0 THEN NoColumns ELSE SqliteTypeNested(f[n - 1])]
  <2>1. ASSUME NEW n \in 0..k PROVE f[n] = g[n]
    <3>1. f[n] = IF n = 0 THEN NoColumns ELSE SqliteTypeNested(f[n - 1])
      BY <1>2
    <3>2. g[n] = IF n = 0 THEN NoColumns ELSE SqliteTypeNested(f[n - 1])
      OBVIOUS
    <3> QED BY <3>1, <3>2
  <2>2. ASSUME NEW n \in 1..k+1 PROVE g[n - 1] = f[n - 1]
    <3>1. n - 1 \in 0..k
      OBVIOUS
    <3> QED BY <2>1, <3>1
  <2>3. \A n \in 0..k+1 : g[n] = IF n = 0 THEN NoColumns ELSE SqliteTypeNested(g[n - 1])
    <3>1. \A n \in 0..k+1 : g[n] = IF n = 0 THEN NoColumns ELSE SqliteTypeNested(f[n - 1])
      OBVIOUS
    <3>2. \A n \in 0..k+1 : n # 0 => n \in 1..k+1
      OBVIOUS
    <3> HIDE DEF g
    <3> QED BY <2>2, <3>1, <3>2
  <2>4. g = [n \in 0..k+1 |-> g[n]]
    OBVIOUS
  <2>5. Is(g, k + 1)
    <3> HIDE DEF g
    <3> QED BY <2>3, <2>4
  <2> HIDE DEF g, Is
  <2> QED BY <2>5
<1>3. PICK f : Is(f, MaxDepth)
  <2>1. \A k \in Nat : k \in D => k + 1 \in D
    <3> HIDE DEF Is
    <3> QED BY <1>2
  <2> HIDE DEF D
  <2>2. MaxDepth \in D
    BY <1>1, <2>1, Bounds, Induction
  <2> QED BY <2>2 DEF D
<1>4. SqliteTypes = [n \in 0..MaxDepth |-> IF n = 0 THEN NoColumns ELSE SqliteTypeNested(SqliteTypes[n - 1])]
  BY <1>3 DEF SqliteTypes, NoColumns
<1>5. 0 \in 0..MaxDepth /\ \A n \in 1..MaxDepth : n \in 0..MaxDepth /\ n # 0
  BY Bounds
<1> QED BY <1>4, <1>5

-----------------------------------------------------------------------------
(* Validation: the values.                                                 *)

\* Sets that grow from each level to the next grow over any number of them.
LEMMA Increasing ==
  ASSUME NEW K \in Nat, NEW f, \A n \in 1..K : f[n - 1] \subseteq f[n]
  PROVE  \A m \in 0..K : \A n \in 0..m : f[n] \subseteq f[m]
<1> DEFINE S == {m \in 0..K : \A n \in 0..m : f[n] \subseteq f[m]}
<1>1. 0 \in S
  OBVIOUS
<1>2. \A m \in 1..K : m - 1 \in S => m \in S
  <2> SUFFICES ASSUME NEW m \in 1..K, m - 1 \in S, NEW n \in 0..m PROVE f[n] \subseteq f[m]
    OBVIOUS
  <2>1. n = m \/ n \in 0..m-1
    OBVIOUS
  <2>2. f[m - 1] \subseteq f[m]
    OBVIOUS
  <2> QED BY <2>1, <2>2
<1>3. \A m \in 0..K : m \in S
  <2> HIDE DEF S
  <2> QED BY <1>1, <1>2, Upward
<1> QED BY <1>3

\* A sequence over a set is one over a larger set.
LEMMA SeqWiden ==
  ASSUME NEW A, NEW B, A \subseteq B, NEW s \in Seq(A)
  PROVE  s \in Seq(B)
OBVIOUS

\* So is one of keys and values.
LEMMA PairsWiden ==
  ASSUME NEW A, NEW B, A \subseteq B, NEW s \in Seq(STRING \X A)
  PROVE  s \in Seq(STRING \X B)
<1>1. STRING \X A \subseteq STRING \X B
  OBVIOUS
<1> QED BY <1>1, SeqWiden

\* A deeper level has the values of the levels above it.
LEMMA JsonGrows == \A m \in 0..MaxNesting : \A n \in 0..m : Json[n] \subseteq Json[m]
<1>1. \A n \in 1..MaxNesting : Json[n - 1] \subseteq Json[n]
  <2>1. ASSUME NEW S PROVE S \subseteq JsonAround(S)
    BY DEF JsonAround
  <2> QED BY <2>1, JsonLevels
<1> QED BY <1>1, Bounds, Increasing

\* JsonValues has those up to its own.
LEMMA JsonIncreasing == \A n \in 0..MaxDepth : Json[n] \subseteq JsonValues
<1>1. MaxDepth \in 0..MaxNesting
  BY Bounds
<1> QED BY <1>1, JsonGrows DEF JsonValues

\* The same for Python values.
LEMMA PythonIncreasing == \A m \in 0..MaxLevels : \A n \in 0..m : Python[n] \subseteq Python[m]
<1>1. \A n \in 1..MaxLevels : Python[n - 1] \subseteq Python[n]
  <2>1. ASSUME NEW S PROVE S \subseteq PythonAround(S)
    BY DEF PythonAround
  <2> QED BY <2>1, PythonLevels
<1> QED BY <1>1, Bounds, Increasing

\* What a JSON value is made of, when its parts are in S.
JsonParts(v, S) ==
  \/ v \in JsonScalars
  \/ v[1] = "str" /\ v = <<"str", v[2]>> /\ v[2] \in S
  \/ v[1] = "list" /\ v = <<"list", v[2]>> /\ v[2] \in Seq(S)
  \/ v[1] = "dict" /\ v = <<"dict", v[2]>> /\ v[2] \in Seq(STRING \X S)

\* The parts of a JSON value of a level are values of that level.
LEMMA JsonMade == \A n \in 0..MaxNesting : \A v \in Json[n] : JsonParts(v, Json[n])
<1> DEFINE S == {n \in 0..MaxNesting : \A v \in Json[n] : JsonParts(v, Json[n])}
<1>1. 0 \in S
  BY Bounds, JsonLevels DEF JsonParts
<1>2. \A n \in 1..MaxNesting : n - 1 \in S => n \in S
  <2> SUFFICES ASSUME NEW n \in 1..MaxNesting, n - 1 \in S, NEW v \in Json[n] PROVE JsonParts(v, Json[n])
    OBVIOUS
  <2> DEFINE A == Json[n - 1]
             B == Json[n]
  <2>1. A \subseteq B
    <3>1. n \in 0..MaxNesting /\ n - 1 \in 0..n
      BY Bounds
    <3> QED BY <3>1, JsonGrows
  <2>2. v \in JsonAround(A) /\ \A u \in A : JsonParts(u, A)
    BY JsonLevels
  <2> SUFFICES JsonParts(v, B)
    OBVIOUS
  <2> HIDE DEF A, B
  <2>3. CASE v \in {"str"} \X A
    BY <2>1, <2>3 DEF JsonParts
  <2>4. CASE v \in {"list"} \X Seq(A)
    <3>1. v = <<"list", v[2]>> /\ v[1] = "list" /\ v[2] \in Seq(A)
      BY <2>4
    <3>2. v[2] \in Seq(B)
      BY <2>1, <3>1, SeqWiden
    <3> QED BY <3>1, <3>2 DEF JsonParts
  <2>5. CASE v \in {"dict"} \X Seq(STRING \X A)
    <3>1. v = <<"dict", v[2]>> /\ v[1] = "dict" /\ v[2] \in Seq(STRING \X A)
      BY <2>5
    <3>2. v[2] \in Seq(STRING \X B)
      BY <2>1, <3>1, PairsWiden
    <3> QED BY <3>1, <3>2 DEF JsonParts
  <2>6. CASE v \in A
    <3>1. JsonParts(v, A)
      BY <2>2, <2>6
    <3>2. ASSUME v[2] \in Seq(A) PROVE v[2] \in Seq(B)
      BY <2>1, <3>2, SeqWiden
    <3>3. ASSUME v[2] \in Seq(STRING \X A) PROVE v[2] \in Seq(STRING \X B)
      BY <2>1, <3>3, PairsWiden
    <3> QED BY <2>1, <3>1, <3>2, <3>3 DEF JsonParts
  <2> QED BY <2>2, <2>3, <2>4, <2>5, <2>6 DEF JsonAround
<1>3. \A n \in 0..MaxNesting : n \in S
  <2> HIDE DEF S
  <2> QED BY <1>1, <1>2, Bounds, Upward
<1> QED BY <1>3

\* The parts of a JSON value are JSON values.
LEMMA JsonMadeOf == \A v \in JsonValues : JsonParts(v, JsonValues)
<1>1. MaxDepth \in 0..MaxNesting
  BY Bounds
<1> QED BY <1>1, JsonMade DEF JsonValues

\* What a JSON value without parts can be.
LEMMA ScalarTags ==
  ASSUME NEW v \in JsonScalars
  PROVE  \/ v = None /\ v[1] = "none"
         \/ v = <<"inf">> /\ v[1] = "inf"
         \/ v = NaN /\ v[1] = "nan"
         \/ v[1] = "bool" /\ v[2] \in BOOLEAN /\ v = <<"bool", v[2]>>
         \/ v[1] \in {"int", "float"} /\ v[2] \in Int /\ v = <<v[1], v[2]>>
         \/ v[1] = "word" /\ v = <<"word", v[2]>>
BY DEF JsonScalars, None, NaN

\* What a JSON value with a given tag is.
LEMMA JsonTag ==
  ASSUME NEW v \in JsonValues
  PROVE  /\ v[1] \notin {"tuple", "set", "obj", "bytes"}
         /\ v[1] = "none" => v = None
         /\ v[1] = "list" => v = <<"list", v[2]>> /\ v[2] \in Seq(JsonValues)
         /\ v[1] = "dict" => v = <<"dict", v[2]>> /\ v[2] \in Seq(STRING \X JsonValues)
         /\ v[1] = "str" => v = <<"str", v[2]>> /\ v[2] \in JsonValues
         /\ v[1] \in {"int", "float"} => v[2] \in Int
         /\ v[1] \notin {"list", "dict", "str"} => v \in JsonScalars
<1>1. JsonParts(v, JsonValues)
  BY JsonMadeOf
<1>2. CASE v \in JsonScalars
  BY <1>2, ScalarTags
<1>3. CASE v \notin JsonScalars
  BY <1>1, <1>3 DEF JsonParts
<1> QED BY <1>2, <1>3

-----------------------------------------------------------------------------
(* Validation: the types.                                                  *)

\* The items of a sequence.
LEMMA SeqItems ==
  ASSUME NEW A, NEW s \in Seq(A)
  PROVE  Len(s) \in Nat /\ DOMAIN s = 1..Len(s) /\ \A i \in DOMAIN s : s[i] \in A
OBVIOUS

\* The parts of a declared type are declared types.
LEMMA TypesClosed ==
  ASSUME NEW T \in Types
  PROVE  /\ T[1] = "union" => /\ T[2] \in Seq(Types) /\ Elements(T[2]) \subseteq Types
                              /\ DOMAIN T[2] \subseteq Nat
         /\ T[1] \in {"list", "tuple", "set", "dict", "mapping"} => T[2] \in Types
         /\ T[1] = "fixed" => /\ T[2] \in Seq(Types) /\ T[2] # <<>> /\ T[2][1] \in Types
                              /\ \A i \in DOMAIN T[2] : T[2][i] \in Types
         /\ T[1] = "model" => T[2] \in DOMAIN Models
         /\ T[1] \in {"any", "bool", "int", "float", "str", "bytes", "class", "union",
                      "list", "tuple", "set", "dict", "fixed", "mapping", "model"}
<1>1. \/ T[1] \in Scalars
      \/ T[1] = "class" /\ T[2] \in STRING
      \/ T[1] = "union" /\ T[2] \in Seq(Types)
      \/ T[1] \in Sequenced \cup {"dict", "mapping"} /\ T[2] \in Types
      \/ T[1] = "fixed" /\ T[2] \in Seq(Types) \ {<<>>}
      \/ T[1] = "model" /\ T[2] \in DOMAIN Models
  BY ValidationAssumption
<1>2. T[1] = "union" => T[2] \in Seq(Types)
  BY <1>1 DEF Scalars, Sequenced
<1>3. T[1] = "union" => Elements(T[2]) \subseteq Types /\ DOMAIN T[2] \subseteq Nat
  <2>1. SUFFICES ASSUME T[1] = "union" PROVE Elements(T[2]) \subseteq Types /\ DOMAIN T[2] \subseteq Nat
    OBVIOUS
  <2>2. Len(T[2]) \in Nat /\ DOMAIN T[2] = 1..Len(T[2]) /\ \A i \in DOMAIN T[2] : T[2][i] \in Types
    BY <1>2, <2>1, SeqItems
  <2> QED BY <2>2 DEF Elements
<1>4. T[1] = "fixed" => /\ T[2] \in Seq(Types) /\ T[2] # <<>> /\ T[2][1] \in Types
                        /\ \A i \in DOMAIN T[2] : T[2][i] \in Types
  <2>1. SUFFICES ASSUME T[1] = "fixed"
                 PROVE  /\ T[2] \in Seq(Types) /\ T[2] # <<>> /\ T[2][1] \in Types
                        /\ \A i \in DOMAIN T[2] : T[2][i] \in Types
    OBVIOUS
  <2>2. T[2] \in Seq(Types) /\ T[2] # <<>>
    BY <1>1, <2>1 DEF Scalars, Sequenced
  <2>3. T[2][1] \in Types /\ \A i \in DOMAIN T[2] : T[2][i] \in Types
    BY <2>2, SeqItems
  <2> QED BY <2>2, <2>3
<1> QED BY <1>1, <1>2, <1>3, <1>4 DEF Scalars, Sequenced

\* The fields of a dataclass have a declared type and defaults of it.
LEMMA FieldsTyped ==
  ASSUME NEW m \in DOMAIN Models
  PROVE  /\ Models[m] \in Seq([name : STRING, type : Types, default : {Required} \cup Python[MaxDepth]])
         /\ Len(Models[m]) \in Nat /\ DOMAIN Models[m] = 1..Len(Models[m])
         /\ \A i \in DOMAIN Models[m] :
              /\ Models[m][i].type \in Types
              /\ Models[m][i].default # Required =>
                   /\ Models[m][i].default \in Python[MaxDepth]
                   /\ Models[m][i].default \in Of[MaxDepth][Models[m][i].type]
<1>1. /\ Models[m] \in Seq([name : STRING, type : Types, default : {Required} \cup Python[MaxDepth]])
      /\ \A i \in DOMAIN Models[m] :
           Models[m][i].default # Required => Models[m][i].default \in Of[MaxDepth][Models[m][i].type]
  BY ValidationAssumption
<1>2. /\ Len(Models[m]) \in Nat /\ DOMAIN Models[m] = 1..Len(Models[m])
      /\ \A i \in DOMAIN Models[m] :
           Models[m][i] \in [name : STRING, type : Types, default : {Required} \cup Python[MaxDepth]]
  BY <1>1, SeqItems
<1> QED BY <1>1, <1>2

\* More values of the parts make no fewer values of the whole.
LEMMA OfTypeWidens ==
  ASSUME NEW a, NEW b, \A T \in Types : a[T] \subseteq b[T], NEW T \in Types
  PROVE  OfType(T, a) \subseteq OfType(T, b)
<1> SUFFICES ASSUME NEW v \in OfType(T, a) PROVE v \in OfType(T, b)
  OBVIOUS
<1>1. v \in PythonValues
  BY DEF OfType
<1>2. CASE T[1] = "union" /\ \E A \in Elements(T[2]) : v \in a[A]
  <2>1. \E A \in Elements(T[2]) : v \in b[A]
    BY <1>2, TypesClosed
  <2> QED BY <1>1, <1>2, <2>1 DEF OfType
<1>3. CASE T[1] \in {"list", "tuple"} /\ v[1] = T[1] /\ Elements(v[2]) \subseteq a[T[2]]
  <2>1. Elements(v[2]) \subseteq b[T[2]]
    BY <1>3, TypesClosed
  <2> QED BY <1>1, <1>3, <2>1 DEF OfType
<1>4. CASE T[1] = "set" /\ v[1] = "set" /\ v[2] \subseteq a[T[2]]
  <2>1. v[2] \subseteq b[T[2]]
    BY <1>4, TypesClosed
  <2> QED BY <1>1, <1>4, <2>1 DEF OfType
<1>5. CASE T[1] \in {"dict", "mapping"} /\ v[1] = "dict" /\ \A i \in DOMAIN v[2] : v[2][i][2] \in a[T[2]]
  <2>1. \A i \in DOMAIN v[2] : v[2][i][2] \in b[T[2]]
    BY <1>5, TypesClosed
  <2> QED BY <1>1, <1>5, <2>1 DEF OfType
<1>6. CASE /\ T[1] = "model" /\ v[1] = "obj" /\ v[2] = T[2] /\ DOMAIN v[3] = DOMAIN Models[T[2]]
           /\ \A i \in DOMAIN Models[T[2]] : v[3][i] \in a[Models[T[2]][i].type]
  <2>1. T[2] \in DOMAIN Models
    BY <1>6, TypesClosed
  <2>2. \A i \in DOMAIN Models[T[2]] : Models[T[2]][i].type \in Types
    BY <2>1, FieldsTyped
  <2>3. \A i \in DOMAIN Models[T[2]] : v[3][i] \in b[Models[T[2]][i].type]
    BY <1>6, <2>2
  <2> QED BY <1>1, <1>6, <2>3 DEF OfType
<1>7. CASE \/ T[1] = "any"
           \/ T[1] = "class" /\ v[1] = T[2]
           \/ T[1] = "float" /\ v[1] \in {"float", "inf", "nan"}
           \/ T[1] \in {"bool", "int", "str", "bytes"} /\ v[1] = T[1]
  BY <1>1, <1>7 DEF OfType
<1>8. CASE /\ T[1] = "fixed" /\ v[1] = "tuple" /\ Len(v[2]) = Len(T[2])
           /\ \A i \in DOMAIN T[2] : v[2][i] \in a[T[2][i]]
  <2>1. \A i \in DOMAIN T[2] : v[2][i] \in b[T[2][i]]
    BY <1>8, TypesClosed
  <2> QED BY <1>1, <1>8, <2>1 DEF OfType
<1> QED BY <1>2, <1>3, <1>4, <1>5, <1>6, <1>7, <1>8 DEF OfType

\* The values of a type, by those of its parts.
LEMMA OfUnfold ==
  ASSUME NEW n \in 1..MaxLevels, NEW T \in Types
  PROVE  Of[n][T] = OfType(T, Of[n - 1])
BY OfLevels DEF OfNested

\* They are Python values.
LEMMA OfNarrow ==
  ASSUME NEW n \in 0..MaxLevels, NEW T \in Types
  PROVE  Of[n][T] \subseteq PythonValues
<1>1. CASE n = 0
  BY <1>1, OfLevels DEF OfNone
<1>2. CASE n # 0
  <2>1. n \in 1..MaxLevels
    BY <1>2, Bounds
  <2> QED BY <2>1, OfUnfold DEF OfType
<1> QED BY <1>1, <1>2

\* A value of a type is one of it at the next level,
LEMMA OfGrows == \A n \in 1..MaxLevels : \A T \in Types : Of[n - 1][T] \subseteq Of[n][T]
<1> DEFINE S == {n \in 0..MaxLevels : n # 0 => \A T \in Types : Of[n - 1][T] \subseteq Of[n][T]}
<1>1. 0 \in S
  BY Bounds
<1>2. \A n \in 1..MaxLevels : n - 1 \in S => n \in S
  <2> SUFFICES ASSUME NEW n \in 1..MaxLevels, n - 1 \in S, NEW T \in Types
               PROVE  Of[n - 1][T] \subseteq Of[n][T]
    BY Bounds
  <2>1. CASE n = 1
    BY <2>1, OfLevels DEF OfNone
  <2>2. CASE n # 1
    <3>1. n - 1 \in 1..MaxLevels /\ n - 1 # 0
      BY <2>2, Bounds
    <3>2. \A U \in Types : Of[(n - 1) - 1][U] \subseteq Of[n - 1][U]
      BY <3>1
    <3>3. OfType(T, Of[(n - 1) - 1]) \subseteq OfType(T, Of[n - 1])
      BY <3>2, OfTypeWidens
    <3>4. Of[n - 1][T] = OfType(T, Of[(n - 1) - 1])
      BY <3>1, OfUnfold
    <3> QED BY <3>3, <3>4, OfUnfold
  <2> QED BY <2>1, <2>2
<1>3. \A n \in 0..MaxLevels : n \in S
  <2> HIDE DEF S
  <2> QED BY <1>1, <1>2, Bounds, Upward
<1> QED BY <1>3, Bounds

\* and at any later one.
LEMMA OfIncreasing ==
  ASSUME NEW m \in 0..MaxLevels, NEW n \in 0..m, NEW T \in Types
  PROVE  Of[n][T] \subseteq Of[m][T]
<1> DEFINE f == [k \in 0..MaxLevels |-> Of[k][T]]
<1>1. \A k \in 1..MaxLevels : k - 1 \in 0..MaxLevels /\ k \in 0..MaxLevels
  BY Bounds
<1>2. \A k \in 1..MaxLevels : f[k - 1] \subseteq f[k]
  BY <1>1, OfGrows
<1>3. f[n] = Of[n][T] /\ f[m] = Of[m][T]
  BY Bounds
<1> HIDE DEF f
<1>4. f[n] \subseteq f[m]
  BY <1>2, Bounds, Increasing
<1> QED BY <1>3, <1>4

-----------------------------------------------------------------------------
(* Validation: what coerce_value returns is of the type that was asked.    *)

\* A set of natural numbers has a least one,
LEMMA Least ==
  ASSUME NEW S, S \subseteq Nat, S # {}
  PROVE  \E i \in S : \A j \in S : i <= j
<1>1. PICK i \in S : \A j \in S : ~ (<<j, i>> \in OpToRel(<, Nat))
  BY WFMin, NatLessThanWellFounded
<1>2. ASSUME NEW j \in S PROVE i <= j
  <2>1. i \in Nat /\ j \in Nat
    OBVIOUS
  <2>2. j < i => <<j, i>> \in OpToRel(<, Nat)
    BY <2>1 DEF OpToRel
  <2>3. ~ (j < i)
    BY <1>1, <2>2
  <2> QED BY <2>1, <2>3
<1> QED BY <1>2

\* which is the one chosen.
LEMMA FirstOf ==
  ASSUME NEW S, S \subseteq Nat, S # {}
  PROVE  (CHOOSE i \in S : \A j \in S : i <= j) \in S
<1>1. \E i \in S : \A j \in S : i <= j
  BY Least
<1> DEFINE P(i) == \A j \in S : i <= j
<1>2. \E i \in S : P(i)
  BY <1>1
<1> HIDE DEF P
<1>3. (CHOOSE i \in S : P(i)) \in S
  BY <1>2
<1> QED BY <1>3 DEF P

\* A loop that does not fail has the values of its calls, in their order.
LEMMA Collected ==
  ASSUME NEW k \in Nat, NEW rs, DOMAIN rs = 1..k, ~Failed(Collect(rs))
  PROVE  /\ \A i \in 1..k : ~Failed(rs[i])
         /\ Collect(rs) = Ok([i \in 1..k |-> rs[i][2]])
<1> DEFINE bad == {i \in 1..k : Failed(rs[i])}
           first == CHOOSE i \in bad : \A j \in bad : i <= j
<1>1. Collect(rs) = IF bad = {} THEN Ok([i \in 1..k |-> rs[i][2]]) ELSE rs[first]
  BY DEF Collect
<1>2. bad = {}
  <2>1. bad \subseteq Nat
    OBVIOUS
  <2> SUFFICES ASSUME bad # {} PROVE FALSE
    OBVIOUS
  <2>2. first \in bad
    <3> HIDE DEF bad
    <3> QED BY <2>1, FirstOf
  <2> QED BY <1>1, <2>2
<1> QED BY <1>1, <1>2

Yields(rs, k, S) == \A i \in 1..k : ~Failed(rs[i]) => rs[i][2] \in S
ListOf(s, k, S) == s \in Seq(S) /\ DOMAIN s = 1..k /\ \A i \in 1..k : s[i] \in S

\* What calls yield, their loop lists.
LEMMA CollectedIn ==
  ASSUME NEW k \in Nat, NEW rs, DOMAIN rs = 1..k, ~Failed(Collect(rs)),
         NEW S, Yields(rs, k, S)
  PROVE  ListOf(Collect(rs)[2], k, S)
<1>1. Collect(rs)[2] = [i \in 1..k |-> rs[i][2]]
  BY Collected DEF Ok
<1>2. \A i \in 1..k : rs[i][2] \in S
  BY Collected DEF Yields
<1> DEFINE s == [i \in 1..k |-> rs[i][2]]
<1>3. s \in Seq(S)
  BY <1>2
<1> QED BY <1>1, <1>2, <1>3 DEF ListOf

\* The types that are checked in full have parts that are.
LEMMA UncheckedParts ==
  ASSUME NEW m \in 1..MaxLevels, NEW T \in Types, T \notin Unchecked[m]
  PROVE  /\ T[1] \notin {"fixed", "mapping"}
         /\ T[1] = "union" => \A A \in Elements(T[2]) : A \notin Unchecked[m - 1]
         /\ T[1] \in {"list", "tuple", "set", "dict"} => T[2] \notin Unchecked[m - 1]
         /\ T[1] = "model" => \A i \in DOMAIN Models[T[2]] : Models[T[2]][i].type \notin Unchecked[m - 1]
<1>1. T \notin UncheckedAround(Unchecked[m - 1])
  BY UncheckedLevels
<1> QED BY <1>1 DEF UncheckedAround, Sequenced, Elements

\* The others are those.
LEMMA UncheckedCases ==
  ASSUME NEW m \in 1..MaxLevels, NEW T \in Types
  PROVE  T[1] \in {"fixed", "mapping"} => T \in Unchecked[m]
<1>1. T[1] \in {"fixed", "mapping"} => T \in UncheckedAround(Unchecked[m - 1])
  BY DEF UncheckedAround
<1> QED BY <1>1, UncheckedLevels

\* The values that the validator may give for a type: those of the type, when
\* it checks the type in full.
Given(T, m) == IF T \in Unchecked[m] THEN Python[m] ELSE Of[m][T]

\* A result that did not fail is such a value, or one of the type.
Fits(r, T, m) == ~Failed(r) => r[2] \in Python[m] /\ r[2] \in Given(T, m)
Conforms(r, T, m) == ~Failed(r) => r[2] \in Python[m] /\ r[2] \in Of[m][T]

\* When a value is of a type, by its parts.
LEMMA IntoOf ==
  ASSUME NEW m \in 1..MaxLevels, NEW T \in Types, NEW v \in Python[m],
         \/ T[1] = "any"
         \/ T[1] = "union" /\ \E A \in Elements(T[2]) : v \in Of[m - 1][A]
         \/ T[1] \in {"list", "tuple"} /\ v[1] = T[1] /\ Elements(v[2]) \subseteq Of[m - 1][T[2]]
         \/ T[1] = "set" /\ v[1] = "set" /\ v[2] \subseteq Of[m - 1][T[2]]
         \/ T[1] = "dict" /\ v[1] = "dict" /\ \A i \in DOMAIN v[2] : v[2][i][2] \in Of[m - 1][T[2]]
         \/ /\ T[1] = "model" /\ v[1] = "obj" /\ v[2] = T[2] /\ DOMAIN v[3] = DOMAIN Models[T[2]]
            /\ \A i \in DOMAIN Models[T[2]] : v[3][i] \in Of[m - 1][Models[T[2]][i].type]
         \/ T[1] = "class" /\ v[1] = T[2]
         \/ T[1] = "float" /\ v[1] \in {"float", "inf", "nan"}
         \/ T[1] \in {"bool", "int", "str", "bytes"} /\ v[1] = T[1]
  PROVE  v \in Of[m][T]
<1>1. v \in PythonValues
  BY PythonIncreasing, Bounds DEF PythonValues
<1>2. v \in OfType(T, Of[m - 1])
  BY <1>1 DEF OfType
<1> QED BY <1>2, OfUnfold

\* When a value may be given for a type, by its parts.
LEMMA IntoGiven ==
  ASSUME NEW m \in 1..MaxLevels, NEW T \in Types, NEW v \in Python[m],
         \/ T \in Unchecked[m]
         \/ v \in Of[m][T]
         \/ T[1] = "union" /\ \E A \in Elements(T[2]) : v \in Given(A, m - 1)
         \/ T[1] \in {"list", "tuple"} /\ v[1] = T[1] /\ Elements(v[2]) \subseteq Given(T[2], m - 1)
         \/ T[1] = "set" /\ v[1] = "set" /\ v[2] \subseteq Given(T[2], m - 1)
         \/ T[1] = "dict" /\ v[1] = "dict" /\ \A i \in DOMAIN v[2] : v[2][i][2] \in Given(T[2], m - 1)
         \/ /\ T[1] = "model" /\ v[1] = "obj" /\ v[2] = T[2] /\ DOMAIN v[3] = DOMAIN Models[T[2]]
            /\ \A i \in DOMAIN Models[T[2]] : v[3][i] \in Given(Models[T[2]][i].type, m - 1)
  PROVE  v \in Given(T, m)
<1>1. CASE T \in Unchecked[m]
  BY <1>1 DEF Given
<1>2. CASE T \notin Unchecked[m]
  <2>1. \A U : U \notin Unchecked[m - 1] => Given(U, m - 1) = Of[m - 1][U]
    BY DEF Given
  <2>2. v \in Of[m][T]
    <3>1. CASE v \in Of[m][T]
      BY <3>1
    <3>2. CASE T[1] = "union" /\ \E A \in Elements(T[2]) : v \in Given(A, m - 1)
      <4>1. PICK A \in Elements(T[2]) : v \in Given(A, m - 1)
        BY <3>2
      <4>2. v \in Of[m - 1][A]
        BY <1>2, <2>1, <3>2, <4>1, UncheckedParts
      <4> QED BY <3>2, <4>1, <4>2, IntoOf
    <3>3. CASE T[1] \in {"list", "tuple"} /\ v[1] = T[1] /\ Elements(v[2]) \subseteq Given(T[2], m - 1)
      <4>1. Elements(v[2]) \subseteq Of[m - 1][T[2]]
        BY <1>2, <2>1, <3>3, UncheckedParts
      <4> QED BY <3>3, <4>1, IntoOf
    <3>4. CASE T[1] = "set" /\ v[1] = "set" /\ v[2] \subseteq Given(T[2], m - 1)
      <4>1. v[2] \subseteq Of[m - 1][T[2]]
        BY <1>2, <2>1, <3>4, UncheckedParts
      <4> QED BY <3>4, <4>1, IntoOf
    <3>5. CASE T[1] = "dict" /\ v[1] = "dict" /\ \A i \in DOMAIN v[2] : v[2][i][2] \in Given(T[2], m - 1)
      <4>1. \A i \in DOMAIN v[2] : v[2][i][2] \in Of[m - 1][T[2]]
        BY <1>2, <2>1, <3>5, UncheckedParts
      <4> QED BY <3>5, <4>1, IntoOf
    <3>6. CASE /\ T[1] = "model" /\ v[1] = "obj" /\ v[2] = T[2] /\ DOMAIN v[3] = DOMAIN Models[T[2]]
               /\ \A i \in DOMAIN Models[T[2]] : v[3][i] \in Given(Models[T[2]][i].type, m - 1)
      <4>1. \A i \in DOMAIN Models[T[2]] : v[3][i] \in Of[m - 1][Models[T[2]][i].type]
        BY <1>2, <2>1, <3>6, UncheckedParts
      <4> QED BY <3>6, <4>1, IntoOf
    <3> QED BY <1>2, <3>1, <3>2, <3>3, <3>4, <3>5, <3>6
  <2> QED BY <1>2, <2>2 DEF Given
<1> QED BY <1>1, <1>2

\* What the next level of Python values holds.
LEMMA PythonHolds ==
  ASSUME NEW m \in 1..MaxLevels
  PROVE  /\ JsonValues \subseteq Python[m] /\ Python[m - 1] \subseteq Python[m]
         /\ Python[m] = PythonAround(Python[m - 1])
         /\ \A v \in JsonValues : <<"str", v>> \in Python[m] /\ <<"bytes", v>> \in Python[m]
<1>1. Python[m] = PythonAround(Python[m - 1])
  BY PythonLevels
<1>2. Python[0] = JsonValues /\ 0 \in 0..m-1 /\ 0 \in 0..m /\ m - 1 \in 0..m /\ m - 1 \in 0..MaxLevels /\ m \in 0..MaxLevels
  BY PythonLevels, Bounds
<1>3. JsonValues \subseteq Python[m] /\ Python[m - 1] \subseteq Python[m] /\ JsonValues \subseteq Python[m - 1]
  BY <1>2, PythonIncreasing
<1>4. ASSUME NEW v \in JsonValues PROVE <<"str", v>> \in Python[m] /\ <<"bytes", v>> \in Python[m]
  <2>1. <<"str", v>> \in {"str", "bytes"} \X Python[m - 1] /\ <<"bytes", v>> \in {"str", "bytes"} \X Python[m - 1]
    BY <1>3
  <2> QED BY <1>1, <2>1 DEF PythonAround
<1> QED BY <1>1, <1>3, <1>4

\* The scalars are JSON values.
LEMMA JsonHolds ==
  /\ JsonScalars \subseteq JsonValues
  /\ \A n \in Int : <<"int", n>> \in JsonValues /\ <<"float", n>> \in JsonValues
  /\ \A b \in BOOLEAN : <<"bool", b>> \in JsonValues
  /\ None \in JsonValues
  /\ \A v \in JsonScalars : Text(v) \in JsonValues
<1>1. JsonScalars \subseteq JsonValues
  BY JsonLevels, JsonIncreasing, Bounds
<1>2. \A n \in Int : <<"int", n>> \in JsonScalars /\ <<"float", n>> \in JsonScalars
  BY DEF JsonScalars
<1>3. \A b \in BOOLEAN : <<"bool", b>> \in JsonScalars
  BY DEF JsonScalars
<1>4. None \in JsonScalars
  BY DEF JsonScalars
<1>5. ASSUME NEW v \in JsonScalars PROVE Text(v) \in JsonValues
  <2>1. 1 \in 1..MaxNesting /\ 1 \in 0..MaxDepth /\ 1 - 1 = 0
    BY Bounds
  <2>2. Text(v) \in {"str"} \X Json[0]
    BY JsonLevels DEF Text
  <2>3. Text(v) \in Json[1]
    <3>1. Json[1] = JsonAround(Json[0])
      BY <2>1, JsonLevels
    <3> QED BY <2>2, <3>1 DEF JsonAround
  <2> QED BY <2>1, <2>3, JsonIncreasing
<1> QED BY <1>1, <1>2, <1>3, <1>4, <1>5

\* The outcomes of a call are told apart.
LEMMA OkHolds ==
  ASSUME NEW x
  PROVE  Ok(x)[1] = "ok" /\ Ok(x)[2] = x /\ ~Failed(Ok(x)) /\ Ok(x) # Invalid
         /\ Failed(Invalid) /\ Failed(Raised)
BY DEF Ok, Failed, Invalid, Raised

\* _coerce_scalar returns a value of its type, when it checks the type at all.
LEMMA ScalarFits ==
  ASSUME NEW m \in 1..MaxLevels, NEW v \in JsonValues, NEW T \in Types,
         T[1] \in {"any", "bool", "int", "float", "str", "bytes", "class"}
  PROVE  Conforms(CoerceScalar(v, T), T, m)
<1> DEFINE r == CoerceScalar(v, T)
<1> SUFFICES ASSUME ~Failed(r) PROVE r[2] \in Python[m] /\ r[2] \in Of[m][T]
  BY DEF Conforms
<1>1. T[1] \in {"any", "bool", "int", "float", "str", "bytes", "class"}
  OBVIOUS
<1>3. ASSUME NEW x \in Python[m], r = Ok(x),
             \/ T[1] = "any"
             \/ T[1] = "class" /\ x[1] = T[2]
             \/ T[1] = "float" /\ x[1] \in {"float", "inf", "nan"}
             \/ T[1] \in {"bool", "int", "str", "bytes"} /\ x[1] = T[1]
      PROVE  r[2] \in Python[m] /\ r[2] \in Of[m][T]
  <2>1. x \in Of[m][T]
    BY <1>3, IntoOf
  <2>2. r[2] = x
    BY <1>3, OkHolds
  <2> HIDE DEF r
  <2> QED BY <2>1, <2>2
<1>4. JsonValues \subseteq Python[m]
  BY PythonHolds
<1>5. CASE T[1] = "any"
  <2>1. r = Ok(v)
    BY <1>5 DEF CoerceScalar
  <2> QED BY <2>1, <1>3, <1>4, <1>5
<1>6. CASE T[1] = "bool"
  <2>1. r = CoerceBool(v)
    BY <1>6 DEF CoerceScalar
  <2>2. \/ r = Ok(v) /\ v[1] = "bool"
        \/ r = Ok(v[2]) /\ v[1] = "str" /\ v[2][1] = "bool"
        \/ r = Ok(<<"bool", TRUE>>)
        \/ r = Ok(<<"bool", FALSE>>)
    BY <2>1 DEF CoerceBool, Failed, Invalid
  <2>3. CASE r = Ok(v) /\ v[1] = "bool"
    <3>1. v \in JsonValues /\ (v)[1] = "bool"
      BY <2>3, JsonTag
    <3> HIDE DEF r
    <3> QED BY <2>3, <3>1, <1>3, <1>4, <1>6
  <2>4. CASE r = Ok(v[2]) /\ v[1] = "str" /\ v[2][1] = "bool"
    <3>1. v[2] \in JsonValues /\ (v[2])[1] = "bool"
      BY <2>4, JsonTag
    <3> HIDE DEF r
    <3> QED BY <2>4, <3>1, <1>3, <1>4, <1>6
  <2>5. CASE r = Ok(<<"bool", TRUE>>)
    <3>1. <<"bool", TRUE>> \in JsonValues /\ (<<"bool", TRUE>>)[1] = "bool"
      BY <2>5, JsonHolds
    <3> HIDE DEF r
    <3> QED BY <2>5, <3>1, <1>3, <1>4, <1>6
  <2>6. CASE r = Ok(<<"bool", FALSE>>)
    <3>1. <<"bool", FALSE>> \in JsonValues /\ (<<"bool", FALSE>>)[1] = "bool"
      BY <2>6, JsonHolds
    <3> HIDE DEF r
    <3> QED BY <2>6, <3>1, <1>3, <1>4, <1>6
  <2> QED BY <2>2, <2>3, <2>4, <2>5, <2>6
<1>7. CASE T[1] = "int"
  <2>1. r = CoerceInt(v)
    BY <1>7 DEF CoerceScalar
  <2>2. \/ r = Ok(v) /\ v[1] = "int"
        \/ r = Ok(v[2]) /\ v[1] = "str" /\ v[2][1] = "int"
        \/ r = Ok(<<"int", v[2] \div 2>>) /\ v[1] = "float"
        \/ r = Ok(<<"int", -((-v[2]) \div 2)>>) /\ v[1] = "float"
    BY <2>1 DEF CoerceInt, Failed, Invalid, Raised
  <2>3. CASE r = Ok(v) /\ v[1] = "int"
    <3>1. v \in JsonValues /\ (v)[1] = "int"
      BY <2>3, JsonTag
    <3> HIDE DEF r
    <3> QED BY <2>3, <3>1, <1>3, <1>4, <1>7
  <2>4. CASE r = Ok(v[2]) /\ v[1] = "str" /\ v[2][1] = "int"
    <3>1. v[2] \in JsonValues /\ (v[2])[1] = "int"
      BY <2>4, JsonTag
    <3> HIDE DEF r
    <3> QED BY <2>4, <3>1, <1>3, <1>4, <1>7
  <2>5. CASE r = Ok(<<"int", v[2] \div 2>>) /\ v[1] = "float"
    <3>1. <<"int", v[2] \div 2>> \in JsonValues /\ (<<"int", v[2] \div 2>>)[1] = "int"
      <4>1. v[2] \in Int
        BY <2>5, JsonTag
      <4>2. v[2] \div 2 \in Int
        BY <4>1
      <4> QED BY <4>2, JsonHolds
    <3> HIDE DEF r
    <3> QED BY <2>5, <3>1, <1>3, <1>4, <1>7
  <2>6. CASE r = Ok(<<"int", -((-v[2]) \div 2)>>) /\ v[1] = "float"
    <3>1. <<"int", -((-v[2]) \div 2)>> \in JsonValues /\ (<<"int", -((-v[2]) \div 2)>>)[1] = "int"
      <4>1. v[2] \in Int
        BY <2>6, JsonTag
      <4>2. -((-v[2]) \div 2) \in Int
        BY <4>1
      <4> QED BY <4>2, JsonHolds
    <3> HIDE DEF r
    <3> QED BY <2>6, <3>1, <1>3, <1>4, <1>7
  <2> QED BY <2>2, <2>3, <2>4, <2>5, <2>6
<1>8. CASE T[1] = "float"
  <2>1. r = CoerceFloat(v)
    BY <1>8 DEF CoerceScalar
  <2>2. \/ r = Ok(v) /\ v[1] \in {"float", "inf", "nan"}
        \/ r = Ok(<<"float", 2 * v[2]>>) /\ v[1] = "int"
        \/ r = Ok(v[2]) /\ v[1] = "str" /\ v[2][1] \in {"float", "inf", "nan"}
        \/ r = Ok(<<"float", 2 * v[2][2]>>) /\ v[1] = "str" /\ v[2][1] = "int"
        \/ r = Ok(<<"inf">>)
    BY <2>1 DEF CoerceFloat, Failed, Invalid, Raised
  <2>3. CASE r = Ok(v) /\ v[1] \in {"float", "inf", "nan"}
    <3>1. v \in JsonValues /\ (v)[1] \in {"float", "inf", "nan"}
      BY <2>3, JsonTag
    <3> HIDE DEF r
    <3> QED BY <2>3, <3>1, <1>3, <1>4, <1>8
  <2>4. CASE r = Ok(<<"float", 2 * v[2]>>) /\ v[1] = "int"
    <3>1. <<"float", 2 * v[2]>> \in JsonValues /\ (<<"float", 2 * v[2]>>)[1] \in {"float", "inf", "nan"}
      <4>1. v[2] \in Int
        BY <2>4, JsonTag
      <4>2. 2 * v[2] \in Int
        BY <4>1
      <4> QED BY <4>2, JsonHolds
    <3> HIDE DEF r
    <3> QED BY <2>4, <3>1, <1>3, <1>4, <1>8
  <2>5. CASE r = Ok(v[2]) /\ v[1] = "str" /\ v[2][1] \in {"float", "inf", "nan"}
    <3>1. v[2] \in JsonValues /\ (v[2])[1] \in {"float", "inf", "nan"}
      BY <2>5, JsonTag
    <3> HIDE DEF r
    <3> QED BY <2>5, <3>1, <1>3, <1>4, <1>8
  <2>6. CASE r = Ok(<<"float", 2 * v[2][2]>>) /\ v[1] = "str" /\ v[2][1] = "int"
    <3>1. <<"float", 2 * v[2][2]>> \in JsonValues /\ (<<"float", 2 * v[2][2]>>)[1] \in {"float", "inf", "nan"}
      <4>1. v[2][2] \in Int
        BY <2>6, JsonTag
      <4>2. 2 * v[2][2] \in Int
        BY <4>1
      <4> QED BY <4>2, JsonHolds
    <3> HIDE DEF r
    <3> QED BY <2>6, <3>1, <1>3, <1>4, <1>8
  <2>7. CASE r = Ok(<<"inf">>)
    <3>1. <<"inf">> \in JsonScalars /\ (<<"inf">>)[1] \in {"float", "inf", "nan"}
      BY DEF JsonScalars
    <3>2. <<"inf">> \in JsonValues
      BY <3>1, JsonHolds
    <3> HIDE DEF r
    <3> QED BY <2>7, <3>1, <3>2, <1>3, <1>4, <1>8
  <2> QED BY <2>2, <2>3, <2>4, <2>5, <2>6, <2>7
<1>9. CASE T[1] = "str"
  <2> DEFINE x == IF v[1] = "str" THEN v ELSE Text(v)
  <2>1. r = Ok(x)
    BY <1>9 DEF CoerceScalar
  <2>2. x \in Python[m] /\ x[1] = "str"
    BY <1>4, PythonHolds DEF Text
  <2> HIDE DEF r, x
  <2> QED BY <2>1, <2>2, <1>3, <1>9
<1>10. CASE T[1] = "bytes"
  <2>0. r = CoerceBytes(v)
    BY <1>10 DEF CoerceScalar
  <2>1. r = Ok(<<"bytes", v[2]>>) /\ v[1] = "str"
    BY <2>0 DEF CoerceBytes, Failed, Invalid, Raised, Lone
  <2>2. <<"bytes", v[2]>> \in Python[m]
    BY <2>1, JsonTag, PythonHolds
  <2> HIDE DEF r
  <2> QED BY <2>1, <2>2, <1>3, <1>10
<1>11. CASE T[1] = "class"
  <2>1. r = Ok(v) /\ v[1] = T[2]
    BY <1>11 DEF CoerceScalar, Failed, Invalid
  <2> HIDE DEF r
  <2> QED BY <2>1, <1>3, <1>4, <1>11
<1> QED BY <1>1, <1>5, <1>6, <1>7, <1>8, <1>9, <1>10, <1>11

\* Arithmetic of levels.
LEMMA NextLevel ==
  ASSUME NEW m \in 1..MaxLevels-1
  PROVE  m + 1 \in 1..MaxLevels /\ m \in 1..MaxLevels /\ (m + 1) - 1 = m
BY Bounds

\* A union does, when its alternatives do.
LEMMA UnionFits ==
  ASSUME NEW m \in 1..MaxLevels-1, NEW coerce,
         \A T \in Types : \A v \in JsonValues : Fits(coerce[T][v], T, m),
         NEW v \in JsonValues, NEW T \in Types, T[1] = "union"
  PROVE  Fits(CoerceUnion(v, T[2], coerce), T, m + 1)
<1> DEFINE r == CoerceUnion(v, T[2], coerce)
           subs == {i \in DOMAIN T[2] : T[2][i] # NoneType}
           hits == {i \in subs : coerce[T[2][i]][v] # Invalid}
           first == CHOOSE i \in hits : \A j \in hits : i <= j
<1>1. m + 1 \in 1..MaxLevels /\ m \in 1..MaxLevels /\ (m + 1) - 1 = m
  BY NextLevel
<1>2. T[2] \in Seq(Types) /\ Elements(T[2]) \subseteq Types
  BY TypesClosed
<1>3. r = IF v = None /\ NoneType \in Elements(T[2]) THEN Ok(None)
          ELSE IF hits = {} THEN Invalid ELSE coerce[T[2][first]][v]
  BY DEF CoerceUnion
<1>4. CASE v = None /\ NoneType \in Elements(T[2])
  <2>1. r[2] = None /\ None \in Python[m] /\ None \in Python[m + 1]
    <3>1. r = Ok(None) /\ None \in JsonValues
      BY <1>3, <1>4, JsonHolds
    <3>2. r[2] = None
      BY <3>1, OkHolds
    <3> HIDE DEF r
    <3> QED BY <1>1, <3>1, <3>2, PythonHolds
  <2>2. NoneType \in Types /\ NoneType[1] = "class" /\ NoneType[2] = "none" /\ None[1] = "none"
    BY <1>2, <1>4 DEF NoneType, None
  <2>3. None \in Given(NoneType, m)
    <3>1. None \in Of[m][NoneType]
      BY <1>1, <2>1, <2>2, IntoOf
    <3> QED BY <1>1, <2>1, <2>2, <3>1, IntoGiven
  <2>4. None \in Given(T, m + 1)
    BY <1>1, <1>4, <2>1, <2>3, IntoGiven
  <2> QED BY <2>1, <2>4 DEF Fits
<1>5. CASE ~(v = None /\ NoneType \in Elements(T[2])) /\ hits # {}
  <2>1. hits \subseteq Nat
    BY TypesClosed
  <2>2. first \in hits
    <3> HIDE DEF hits
    <3> QED BY <1>5, <2>1, FirstOf
  <2> HIDE DEF first
  <2>3. first \in DOMAIN T[2] /\ T[2][first] \in Elements(T[2]) /\ T[2][first] \in Types
    BY <1>2, <2>2 DEF Elements
  <2>4. Fits(coerce[T[2][first]][v], T[2][first], m) /\ r = coerce[T[2][first]][v]
    BY <1>3, <1>5, <2>3
  <2>5. ASSUME ~Failed(r) PROVE r[2] \in Python[m + 1] /\ r[2] \in Given(T, m + 1)
    <3>1. r[2] \in Python[m] /\ r[2] \in Given(T[2][first], m)
      BY <2>4, <2>5 DEF Fits
    <3>2. r[2] \in Python[m + 1]
      BY <1>1, <3>1, PythonHolds
    <3> HIDE DEF r
    <3> QED BY <1>1, <2>3, <3>1, <3>2, IntoGiven
  <2> QED BY <2>5 DEF Fits
<1>6. CASE ~(v = None /\ NoneType \in Elements(T[2])) /\ hits = {}
  <2>1. r = Invalid
    BY <1>3, <1>6
  <2> QED BY <2>1, OkHolds DEF Fits
<1> QED BY <1>4, <1>5, <1>6

\* A list of one value.
LEMMA SeqSingle ==
  ASSUME NEW A, NEW x \in A
  PROVE  <<x>> \in Seq(A)
OBVIOUS

\* A list of values.
LEMMA SeqMade ==
  ASSUME NEW k \in Nat, NEW A, NEW s, s = [i \in 1..k |-> s[i]], \A i \in 1..k : s[i] \in A
  PROVE  s \in Seq(A)
<1>1. s \in [1..k -> A]
  OBVIOUS
<1> QED BY <1>1

\* Lists, tuples and sets do, when their items do.
LEMMA ItemsFits ==
  ASSUME NEW m \in 1..MaxLevels-1, NEW coerce,
         \A T \in Types : \A v \in JsonValues : Fits(coerce[T][v], T, m),
         NEW v \in JsonValues, NEW T \in Types, NEW kind \in {"list", "tuple", "set"}, NEW U \in Types,
         (T[1] = kind /\ U = T[2]) \/ T \in Unchecked[m + 1]
  PROVE  Fits(CoerceItems(v, kind, U, coerce), T, m + 1)
<1> DEFINE r == CoerceItems(v, kind, U, coerce)
           given == IF v[1] = "list" THEN v[2] ELSE <<v>>
           rs == [i \in DOMAIN given |-> coerce[U][given[i]]]
           items == Collect(rs)
<1>1. m + 1 \in 1..MaxLevels /\ m \in 1..MaxLevels /\ (m + 1) - 1 = m
  BY NextLevel
<1>3. given \in Seq(JsonValues)
  <2>1. CASE v[1] = "list"
    BY <2>1, JsonTag
  <2>2. CASE v[1] # "list"
    <3>1. <<v>> \in Seq(JsonValues)
      BY SeqSingle
    <3> QED BY <2>2, <3>1
  <2> QED BY <2>1, <2>2
<1>4. Len(given) \in Nat /\ DOMAIN given = 1..Len(given) /\ \A i \in DOMAIN given : given[i] \in JsonValues
  <2> HIDE DEF given
  <2> QED BY <1>3, SeqItems
<1>5. r = IF Failed(items) THEN items
          ELSE IF kind # "set" THEN Ok(<<kind, items[2]>>)
          ELSE IF Elements(items[2]) \subseteq Hashable[MaxLevels] THEN Ok(<<"set", Elements(items[2])>>)
          ELSE Raised
  BY DEF CoerceItems
<1> HIDE DEF given
<1>6. DOMAIN rs = 1..Len(given) /\ \A i \in 1..Len(given) : Fits(rs[i], U, m)
  BY <1>4
<1> HIDE DEF rs
<1> SUFFICES ASSUME ~Failed(r) PROVE r[2] \in Python[m + 1] /\ r[2] \in Given(T, m + 1)
  BY DEF Fits
<1>7. ~Failed(items)
  BY <1>5
<1>8. /\ items[2] \in Seq(Python[m])
      /\ Elements(items[2]) \subseteq Python[m] /\ Elements(items[2]) \subseteq Given(U, m)
  <2> DEFINE k == Len(given)
             S == Python[m] \cap Given(U, m)
  <2>1. Yields(rs, k, S)
    BY <1>6 DEF Fits, Yields
  <2>2. S \subseteq Python[m] /\ S \subseteq Given(U, m)
    OBVIOUS
  <2>3. k \in Nat /\ DOMAIN rs = 1..k
    BY <1>4, <1>6
  <2> HIDE DEF k, S
  <2>4. ListOf(items[2], k, S)
    BY <1>7, <2>1, <2>3, CollectedIn
  <2> HIDE DEF items
  <2>5. items[2] \in Seq(Python[m])
    BY <2>2, <2>4, SeqWiden DEF ListOf
  <2> QED BY <2>2, <2>4, <2>5 DEF Elements, ListOf
<1> HIDE DEF items
<1>9. Python[m + 1] = PythonAround(Python[m])
  BY <1>1, PythonHolds
<1>10. CASE kind # "set"
  <2> DEFINE x == <<kind, items[2]>>
  <2>1. r = Ok(x)
    BY <1>5, <1>7, <1>10
  <2>2. r[2] = x
    BY <2>1, OkHolds
  <2>3. kind \in {"list", "tuple"}
    BY <1>10
  <2>4. x \in {"list", "tuple"} \X Seq(Python[m])
    BY <1>8, <2>3
  <2>5. x \in Python[m + 1]
    BY <1>9, <2>4 DEF PythonAround
  <2>6. x[1] = kind /\ x[2] = items[2]
    OBVIOUS
  <2> HIDE DEF x, r
  <2>7. x \in Given(T, m + 1)
    BY <1>1, <1>8, <2>3, <2>5, <2>6, IntoGiven
  <2> QED BY <2>2, <2>5, <2>7
<1>11. CASE kind = "set"
  <2> DEFINE x == <<"set", Elements(items[2])>>
  <2>1. r = Ok(x)
    BY <1>5, <1>7, <1>11, OkHolds
  <2>2. r[2] = x
    BY <2>1, OkHolds
  <2>3. x \in {"set"} \X SUBSET Python[m]
    BY <1>8
  <2>4. x \in Python[m + 1]
    BY <1>9, <2>3 DEF PythonAround
  <2>5. x[1] = "set" /\ x[2] = Elements(items[2])
    OBVIOUS
  <2> HIDE DEF x, r
  <2>6. x \in Given(T, m + 1)
    BY <1>1, <1>8, <1>11, <2>4, <2>5, IntoGiven
  <2> QED BY <2>2, <2>4, <2>6
<1> QED BY <1>10, <1>11

\* A dict does, when its values do.
LEMMA DictFits ==
  ASSUME NEW m \in 1..MaxLevels-1, NEW coerce,
         \A T \in Types : \A v \in JsonValues : Fits(coerce[T][v], T, m),
         NEW v \in JsonValues, NEW T \in Types, T[1] = "dict"
  PROVE  Fits(CoerceDict(v, T[2], coerce), T, m + 1)
<1> DEFINE r == CoerceDict(v, T[2], coerce)
           rs == [i \in DOMAIN v[2] |-> coerce[T[2]][v[2][i][2]]]
           items == Collect(rs)
           pairs == [i \in DOMAIN v[2] |-> <<v[2][i][1], items[2][i]>>]
           x == <<"dict", pairs>>
<1>1. m + 1 \in 1..MaxLevels /\ m \in 1..MaxLevels /\ (m + 1) - 1 = m
  BY NextLevel
<1>2. T[2] \in Types
  BY TypesClosed
<1>3. r = IF v[1] # "dict" THEN Invalid ELSE IF Failed(items) THEN items ELSE Ok(x)
  BY DEF CoerceDict
<1> SUFFICES ASSUME ~Failed(r) PROVE r[2] \in Python[m + 1] /\ r[2] \in Given(T, m + 1)
  BY DEF Fits
<1>4. v[1] = "dict" /\ ~Failed(items) /\ r = Ok(x)
  BY <1>3, OkHolds
<1>5. v[2] \in Seq(STRING \X JsonValues)
  BY <1>4, JsonTag
<1>6. /\ Len(v[2]) \in Nat /\ DOMAIN v[2] = 1..Len(v[2])
      /\ \A i \in 1..Len(v[2]) : v[2][i][1] \in STRING /\ v[2][i][2] \in JsonValues
  <2>1. Len(v[2]) \in Nat /\ DOMAIN v[2] = 1..Len(v[2]) /\ \A i \in DOMAIN v[2] : v[2][i] \in STRING \X JsonValues
    BY <1>5, SeqItems
  <2> QED BY <2>1
<1>7. DOMAIN rs = 1..Len(v[2]) /\ \A i \in 1..Len(v[2]) : Fits(rs[i], T[2], m)
  BY <1>2, <1>6
<1> HIDE DEF rs
<1>8. \A i \in 1..Len(v[2]) : items[2][i] \in Python[m] \cap Given(T[2], m)
  <2> DEFINE k == Len(v[2])
             S == Python[m] \cap Given(T[2], m)
  <2>1. Yields(rs, k, S)
    BY <1>7 DEF Fits, Yields
  <2>2. k \in Nat /\ DOMAIN rs = 1..k
    BY <1>6, <1>7
  <2>3. ListOf(items[2], k, S)
    <3> HIDE DEF k, S
    <3> QED BY <1>4, <2>1, <2>2, CollectedIn
  <2> HIDE DEF items
  <2> QED BY <2>3 DEF ListOf
<1> HIDE DEF items
<1>9. pairs \in Seq(STRING \X Python[m])
  <2>1. \A i \in 1..Len(v[2]) : <<v[2][i][1], items[2][i]>> \in STRING \X Python[m]
    BY <1>6, <1>8
  <2>2. pairs = [i \in 1..Len(v[2]) |-> <<v[2][i][1], items[2][i]>>]
    BY <1>6
  <2>3. \A i \in 1..Len(v[2]) : pairs[i] \in STRING \X Python[m]
    BY <2>1, <2>2
  <2>4. pairs = [i \in 1..Len(v[2]) |-> pairs[i]]
    BY <2>2
  <2> HIDE DEF pairs
  <2> QED BY <1>6, <2>3, <2>4, SeqMade
<1>10. DOMAIN pairs = 1..Len(v[2]) /\ \A i \in DOMAIN pairs : pairs[i][2] \in Given(T[2], m)
  BY <1>6, <1>8
<1>11. x[1] = "dict" /\ x[2] = pairs /\ r[2] = x
  BY <1>4, OkHolds
<1> HIDE DEF pairs
<1>12. x \in Python[m + 1]
  <2>1. Python[m + 1] = PythonAround(Python[m])
    BY <1>1, PythonHolds
  <2>2. x \in {"dict"} \X Seq(STRING \X Python[m])
    BY <1>9
  <2> QED BY <2>1, <2>2 DEF PythonAround
<1> HIDE DEF x, r
<1>13. x \in Given(T, m + 1)
  BY <1>1, <1>10, <1>11, <1>12, IntoGiven
<1> QED BY <1>11, <1>12, <1>13

\* The value of a key is one of the values.
LEMMA ValueAtIn ==
  ASSUME NEW A, NEW pairs \in Seq(STRING \X A), NEW key \in Keys(pairs)
  PROVE  ValueAt(pairs, key) \in A
<1> DEFINE S == {j \in DOMAIN pairs : pairs[j][1] = key}
           i == CHOOSE j \in S : TRUE
<1>1. S # {}
  BY DEF Keys
<1>2. i \in S
  <2> HIDE DEF S
  <2> QED BY <1>1
<1>3. ValueAt(pairs, key) = pairs[i][2]
  BY DEF ValueAt
<1> HIDE DEF i
<1>4. pairs[i] \in STRING \X A
  BY <1>2, SeqItems
<1> QED BY <1>3, <1>4

\* A field has a value of its type, sent or by default.
LEMMA FieldFits ==
  ASSUME NEW m \in MaxDepth..MaxLevels-1, NEW coerce,
         \A T \in Types : \A v \in JsonValues : Fits(coerce[T][v], T, m),
         NEW c \in DOMAIN Models, NEW i \in DOMAIN Models[c], NEW pairs \in Seq(STRING \X JsonValues)
  PROVE  Fits(CoerceField(Models[c][i], pairs, coerce), Models[c][i].type, m)
<1> DEFINE f == Models[c][i]
           r == CoerceField(f, pairs, coerce)
<1>1. f.type \in Types
  BY FieldsTyped
<1>2. m \in 0..MaxLevels /\ MaxDepth \in 0..m
  <2>1. MaxDepth \in Nat /\ MaxLevels \in Nat
    BY Bounds
  <2> QED BY <2>1
<1>3. CASE f.name \in Keys(pairs)
  <2>1. r = coerce[f.type][ValueAt(pairs, f.name)]
    BY <1>3 DEF CoerceField
  <2>2. ValueAt(pairs, f.name) \in JsonValues
    BY <1>3, ValueAtIn
  <2> QED BY <1>1, <2>1, <2>2
<1>4. CASE f.name \notin Keys(pairs) /\ f.default = Required
  <2>1. r = Invalid
    BY <1>4 DEF CoerceField
  <2> QED BY <2>1, OkHolds DEF Fits
<1>5. CASE f.name \notin Keys(pairs) /\ f.default # Required
  <2>1. r = Ok(f.default)
    BY <1>5 DEF CoerceField
  <2>2. f.default \in Python[MaxDepth] /\ f.default \in Of[MaxDepth][f.type]
    BY <1>5, FieldsTyped
  <2>3. f.default \in Python[m]
    BY <1>2, <2>2, PythonIncreasing
  <2>4. f.default \in Of[m][f.type]
    BY <1>1, <1>2, <2>2, OfIncreasing
  <2>5. r[2] = f.default
    BY <2>1, OkHolds
  <2>6. f.default \in Given(f.type, m)
    <3>1. m \in 1..MaxLevels
      BY Bounds
    <3> QED BY <1>1, <2>3, <2>4, <3>1, IntoGiven
  <2> QED BY <2>3, <2>5, <2>6 DEF Fits
<1> QED BY <1>3, <1>4, <1>5

\* validate_model makes an object of the class.
LEMMA ModelFits ==
  ASSUME NEW m \in MaxDepth..MaxLevels-1, NEW coerce,
         \A T \in Types : \A v \in JsonValues : Fits(coerce[T][v], T, m),
         NEW pairs \in Seq(STRING \X JsonValues), NEW T \in Types, T[1] = "model"
  PROVE  Fits(ValidateModel(T[2], pairs, coerce), T, m + 1)
<1> DEFINE c == T[2]
           k == Len(Models[c])
           r == ValidateModel(c, pairs, coerce)
           rs == [i \in DOMAIN Models[c] |-> CoerceField(Models[c][i], pairs, coerce)]
           fields == Collect(rs)
           x == <<"obj", c, fields[2]>>
<1>1. m \in 1..MaxLevels-1 /\ m + 1 \in 1..MaxLevels /\ (m + 1) - 1 = m
  <2>1. m \in 1..MaxLevels-1
    BY Bounds
  <2> QED BY <2>1, NextLevel
<1>2. c \in DOMAIN Models
  BY TypesClosed
<1>3. k \in Nat /\ DOMAIN Models[c] = 1..k
  BY <1>2, FieldsTyped
<1>4. r = IF ~(Keys(pairs) \subseteq FieldNames(c)) THEN Invalid ELSE IF Failed(fields) THEN fields ELSE Ok(x)
  BY DEF ValidateModel
<1> SUFFICES ASSUME ~Failed(r) PROVE r[2] \in Python[m + 1] /\ r[2] \in Given(T, m + 1)
  BY DEF Fits
<1>5. ~Failed(fields) /\ r = Ok(x)
  BY <1>4, OkHolds
<1>6. DOMAIN rs = 1..k /\ \A i \in 1..k : Fits(rs[i], Models[c][i].type, m)
  <2>1. ASSUME NEW i \in 1..k PROVE rs[i] = CoerceField(Models[c][i], pairs, coerce)
    BY <1>3
  <2>2. ASSUME NEW i \in 1..k PROVE Fits(rs[i], Models[c][i].type, m)
    <3>1. i \in DOMAIN Models[c]
      BY <1>3
    <3>2. Fits(CoerceField(Models[c][i], pairs, coerce), Models[c][i].type, m)
      BY <1>2, <3>1, FieldFits
    <3> QED BY <2>1, <3>2
  <2>3. DOMAIN rs = 1..k
    BY <1>3
  <2> QED BY <2>2, <2>3
<1> HIDE DEF rs
<1>7. ListOf(fields[2], k, Python[m])
  <2>1. Yields(rs, k, Python[m])
    BY <1>6 DEF Fits, Yields
  <2> HIDE DEF k
  <2> QED BY <1>3, <1>5, <1>6, <2>1, CollectedIn
<1>8. fields[2] = [i \in 1..k |-> rs[i][2]] /\ \A i \in 1..k : ~Failed(rs[i])
  <2> HIDE DEF k
  <2>1. fields = Ok([i \in 1..k |-> rs[i][2]]) /\ \A i \in 1..k : ~Failed(rs[i])
    BY <1>3, <1>5, <1>6, Collected
  <2> QED BY <2>1, OkHolds
<1>9. \A i \in 1..k : fields[2][i] \in Given(Models[c][i].type, m)
  BY <1>6, <1>8 DEF Fits
<1> HIDE DEF fields
<1>10. x \in Python[m + 1]
  <2>1. Python[m + 1] = PythonAround(Python[m])
    BY <1>1, PythonHolds
  <2>2. fields[2] \in Seq(Python[m])
    BY <1>7 DEF ListOf
  <2>3. x \in {"obj"} \X (DOMAIN Models) \X Seq(Python[m])
    BY <1>2, <2>2
  <2> QED BY <2>1, <2>3 DEF PythonAround
<1>11. x[1] = "obj" /\ x[2] = c /\ x[3] = fields[2] /\ DOMAIN fields[2] = DOMAIN Models[c] /\ r[2] = x
  BY <1>3, <1>5, <1>7, OkHolds DEF ListOf
<1> HIDE DEF x, r
<1>12. x \in Given(T, m + 1)
  <2>1. \A i \in DOMAIN Models[T[2]] : x[3][i] \in Given(Models[T[2]][i].type, m)
    BY <1>3, <1>9, <1>11
  <2>2. x[1] = "obj" /\ x[2] = T[2] /\ DOMAIN x[3] = DOMAIN Models[T[2]]
    BY <1>11
  <2> QED BY <1>1, <1>10, <2>1, <2>2, IntoGiven
<1> QED BY <1>10, <1>11, <1>12

\* Which branch of coerce_value a declared type takes.
LEMMA CoerceCases ==
  ASSUME NEW coerce, NEW T \in Types, NEW v \in JsonValues
  PROVE  /\ T[1] = "union" => CoerceNested(coerce)[T][v] = CoerceUnion(v, T[2], coerce)
         /\ T[1] \in {"list", "tuple", "set"} => CoerceNested(coerce)[T][v] = CoerceItems(v, T[1], T[2], coerce)
         /\ T[1] = "fixed" => CoerceNested(coerce)[T][v] = CoerceItems(v, "tuple", T[2][1], coerce)
         /\ T[1] = "dict" => CoerceNested(coerce)[T][v] = CoerceDict(v, T[2], coerce)
         /\ T[1] = "model" => CoerceNested(coerce)[T][v] =
                                IF v[1] = "dict" THEN ValidateModel(T[2], v[2], coerce) ELSE Invalid
         /\ T[1] \notin {"union", "list", "tuple", "set", "fixed", "dict", "model"} =>
              CoerceNested(coerce)[T][v] = CoerceScalar(v, T)
<1>1. CoerceNested(coerce)[T][v] =
        CASE T[1] = "union"       -> CoerceUnion(v, T[2], coerce)
          [] T[1] \in Sequenced   -> CoerceItems(v, T[1], T[2], coerce)
          [] T[1] = "fixed"       -> CoerceItems(v, "tuple", T[2][1], coerce)
          [] T[1] = "dict"        -> CoerceDict(v, T[2], coerce)
          [] T[1] = "model"       -> IF v[1] = "dict" THEN ValidateModel(T[2], v[2], coerce) ELSE Invalid
          [] OTHER                -> CoerceScalar(v, T)
  BY DEF CoerceNested
<1> QED BY <1>1 DEF Sequenced

\* coerce_value, at every level of its recursion.
LEMMA CoerceFits ==
  \A n \in 0..MaxDepth : \A T \in Types : \A v \in JsonValues : Fits(Coerce[n][T][v], T, MaxDepth + n)
<1> DEFINE S == {n \in 0..MaxDepth : \A T \in Types : \A v \in JsonValues : Fits(Coerce[n][T][v], T, MaxDepth + n)}
<1>1. 0 \in S
  <2>1. \A T \in Types : \A v \in JsonValues : Coerce[0][T][v] = Raised
    BY CoerceLevels DEF CoerceNever
  <2>2. \A T \in Types : Fits(Raised, T, MaxDepth + 0)
    BY OkHolds DEF Fits
  <2> QED BY <2>1, <2>2, Bounds
<1>2. \A n \in 1..MaxDepth : n - 1 \in S => n \in S
  <2> SUFFICES ASSUME NEW n \in 1..MaxDepth, n - 1 \in S, NEW v \in JsonValues, NEW T \in Types
               PROVE  Fits(Coerce[n][T][v], T, MaxDepth + n)
    OBVIOUS
  <2> DEFINE m == MaxDepth + (n - 1)
             coerce == Coerce[n - 1]
  <2>1. m \in MaxDepth..MaxLevels-1 /\ m \in 1..MaxLevels-1 /\ MaxDepth + n = m + 1 /\ MaxDepth + n \in 1..MaxLevels
    BY Bounds
  <2>2. \A U \in Types : \A u \in JsonValues : Fits(coerce[U][u], U, m)
    OBVIOUS
  <2>3. Coerce[n][T][v] = CoerceNested(coerce)[T][v]
    BY CoerceLevels
  <2> HIDE DEF m, coerce
  <2>4. CASE T[1] = "union"
    <3>1. Coerce[n][T][v] = CoerceUnion(v, T[2], coerce)
      BY <2>3, <2>4, CoerceCases
    <3>2. Fits(CoerceUnion(v, T[2], coerce), T, m + 1)
      BY <2>1, <2>2, <2>4, UnionFits
    <3> QED BY <2>1, <3>1, <3>2
  <2>5. CASE T[1] \in {"list", "tuple", "set"}
    <3>1. Coerce[n][T][v] = CoerceItems(v, T[1], T[2], coerce)
      BY <2>3, <2>5, CoerceCases
    <3>2. T[2] \in Types
      BY <2>5, TypesClosed
    <3>3. Fits(CoerceItems(v, T[1], T[2], coerce), T, m + 1)
      BY <2>1, <2>2, <2>5, <3>2, ItemsFits
    <3> QED BY <2>1, <3>1, <3>3
  <2>6. CASE T[1] = "dict"
    <3>1. Coerce[n][T][v] = CoerceDict(v, T[2], coerce)
      BY <2>3, <2>6, CoerceCases
    <3>2. Fits(CoerceDict(v, T[2], coerce), T, m + 1)
      BY <2>1, <2>2, <2>6, DictFits
    <3> QED BY <2>1, <3>1, <3>2
  <2>7. CASE T[1] = "model"
    <3>1. Coerce[n][T][v] = IF v[1] = "dict" THEN ValidateModel(T[2], v[2], coerce) ELSE Invalid
      BY <2>3, <2>7, CoerceCases
    <3>2. CASE v[1] = "dict"
      <4>1. v[2] \in Seq(STRING \X JsonValues)
        BY <3>2, JsonTag
      <4>2. Fits(ValidateModel(T[2], v[2], coerce), T, m + 1)
        BY <2>1, <2>2, <2>7, <4>1, ModelFits
      <4> QED BY <2>1, <3>1, <3>2, <4>2
    <3>3. CASE v[1] # "dict"
      <4>1. Fits(Invalid, T, m + 1)
        BY OkHolds DEF Fits
      <4> QED BY <2>1, <3>1, <3>3, <4>1
    <3> QED BY <3>2, <3>3
  <2>8. CASE T[1] \in {"any", "bool", "int", "float", "str", "bytes", "class"}
    <3>1. Coerce[n][T][v] = CoerceScalar(v, T)
      BY <2>3, <2>8, CoerceCases
    <3>2. Conforms(CoerceScalar(v, T), T, MaxDepth + n)
      BY <2>1, <2>8, ScalarFits
    <3>3. Fits(CoerceScalar(v, T), T, MaxDepth + n)
      BY <2>1, <3>2, IntoGiven DEF Conforms, Fits
    <3> QED BY <3>1, <3>3
  <2>9. CASE T[1] = "fixed"
    <3>1. Coerce[n][T][v] = CoerceItems(v, "tuple", T[2][1], coerce)
      BY <2>3, <2>9, CoerceCases
    <3>2. T[2][1] \in Types /\ T \in Unchecked[m + 1]
      BY <2>1, <2>9, TypesClosed, UncheckedCases
    <3>3. Fits(CoerceItems(v, "tuple", T[2][1], coerce), T, m + 1)
      BY <2>1, <2>2, <3>2, ItemsFits
    <3> QED BY <2>1, <3>1, <3>3
  <2>10. CASE T[1] = "mapping"
    <3>1. Coerce[n][T][v] = Ok(v)
      BY <2>3, <2>10, CoerceCases DEF CoerceScalar
    <3>2. v \in Python[MaxDepth + n] /\ T \in Unchecked[MaxDepth + n]
      BY <2>1, <2>10, PythonHolds, UncheckedCases
    <3> QED BY <3>1, <3>2, OkHolds DEF Fits, Given
  <2> QED BY <2>4, <2>5, <2>6, <2>7, <2>8, <2>9, <2>10, TypesClosed
<1>3. \A n \in 0..MaxDepth : n \in S
  <2> HIDE DEF S
  <2> QED BY <1>1, <1>2, Bounds, Upward
<1> QED BY <1>3

-----------------------------------------------------------------------------
(* Validation: a value that is of the type already is kept.                *)

\* A loop of calls that all succeed succeeds.
LEMMA CollectedAll ==
  ASSUME NEW k \in Nat, NEW rs, NEW f, DOMAIN rs = 1..k, f = [i \in 1..k |-> f[i]],
         \A i \in 1..k : rs[i] = Ok(f[i])
  PROVE  Collect(rs) = Ok(f)
<1>1. \A i \in 1..k : ~Failed(rs[i]) /\ rs[i][2] = f[i]
  BY OkHolds
<1>2. {i \in DOMAIN rs : Failed(rs[i])} = {}
  BY <1>1
<1>3. Collect(rs) = Ok([i \in 1..k |-> rs[i][2]])
  BY <1>2 DEF Collect
<1>4. [i \in 1..k |-> rs[i][2]] = f
  BY <1>1
<1> QED BY <1>3, <1>4

\* The parts of a type without a choice.
LEMMA UnambiguousCases ==
  ASSUME NEW n \in 1..MaxDepth, NEW T \in Unambiguous[n]
  PROVE  /\ T \in Types
         /\ T[1] = "union" => Len(T[2]) = 2 /\ T[2][2] = NoneType /\ T[2][1] \in Unambiguous[n - 1]
         /\ T[1] \in {"list", "tuple", "set", "dict"} => T[2] \in Unambiguous[n - 1]
         /\ T[1] \notin {"fixed", "mapping"}
<1>1. T \in UnambiguousAround(Unambiguous[n - 1])
  BY UnambiguousLevels
<1> QED BY <1>1 DEF UnambiguousAround, Scalars, Sequenced

\* What a value of a type looks like.
LEMMA OfCases ==
  ASSUME NEW n \in 1..MaxLevels, NEW T \in Types, NEW v \in Of[n][T]
  PROVE  /\ T[1] = "union" => \E A \in Elements(T[2]) : v \in Of[n - 1][A]
         /\ T[1] = "list" => v[1] = "list" /\ Elements(v[2]) \subseteq Of[n - 1][T[2]]
         /\ T[1] = "tuple" => v[1] = "tuple"
         /\ T[1] = "set" => v[1] = "set"
         /\ T[1] = "dict" => v[1] = "dict" /\ \A i \in DOMAIN v[2] : v[2][i][2] \in Of[n - 1][T[2]]
         /\ T[1] = "model" => v[1] = "obj"
         /\ T[1] = "class" => v[1] = T[2]
         /\ T[1] = "float" => v[1] \in {"float", "inf", "nan"}
         /\ T[1] \in {"bool", "int", "str", "bytes"} => v[1] = T[1]
<1>1. v \in OfType(T, Of[n - 1])
  BY OfUnfold
<1> QED BY <1>1 DEF OfType

\* _coerce_scalar keeps a JSON value that is of the type.
LEMMA ScalarKept ==
  ASSUME NEW n \in 1..MaxLevels, NEW T \in Types, NEW v \in Of[n][T], v \in JsonValues,
         T[1] \in {"any", "bool", "int", "float", "str", "bytes", "class"}
  PROVE  CoerceScalar(v, T) = Ok(v)
<1>1. T[1] \in {"any", "bool", "int", "float", "str", "bytes", "class"}
  OBVIOUS
<1>2. CASE T[1] = "any"
  BY <1>2 DEF CoerceScalar
<1>3. CASE T[1] = "bool"
  BY <1>3, OfCases DEF CoerceScalar, CoerceBool, Text
<1>4. CASE T[1] = "int"
  BY <1>4, OfCases DEF CoerceScalar, CoerceInt
<1>5. CASE T[1] = "float"
  BY <1>5, OfCases DEF CoerceScalar, CoerceFloat
<1>6. CASE T[1] = "str"
  BY <1>6, OfCases DEF CoerceScalar
<1>7. CASE T[1] = "bytes"
  BY <1>7, OfCases, JsonTag
<1>8. CASE T[1] = "class"
  BY <1>8, OfCases DEF CoerceScalar
<1> QED BY <1>1, <1>2, <1>3, <1>4, <1>5, <1>6, <1>7, <1>8

\* coerce keeps the JSON values of the unambiguous types of level n.
Keeps(coerce, n) ==
  \A T \in Unambiguous[n] : \A v \in JsonValues : v \in Of[n][T] => coerce[T][v] = Ok(v)

\* An optional type: the alternative that is not None.
LEMMA OptionalCoerced ==
  ASSUME NEW n \in 1..MaxDepth, NEW T \in Unambiguous[n], T[1] = "union",
         NEW coerce, NEW x, NEW y, x # None, T[2][1] # NoneType, coerce[T[2][1]][x] = Ok(y)
  PROVE  CoerceUnion(x, T[2], coerce) = Ok(y)
<1> DEFINE subs == {i \in DOMAIN T[2] : T[2][i] # NoneType}
           hits == {i \in subs : coerce[T[2][i]][x] # Invalid}
           first == CHOOSE i \in hits : \A j \in hits : i <= j
<1>1. T[2][2] = NoneType /\ Len(T[2]) = 2 /\ T[2] \in Seq(Types)
  BY UnambiguousCases, TypesClosed
<1>2. DOMAIN T[2] = {1, 2}
  <2>1. DOMAIN T[2] = 1..2
    BY <1>1, SeqItems
  <2> QED BY <2>1
<1>3. CoerceUnion(x, T[2], coerce) = IF hits = {} THEN Invalid ELSE coerce[T[2][first]][x]
  BY DEF CoerceUnion
<1>4. hits = {1}
  BY <1>1, <1>2, OkHolds
<1>5. first = 1
  <2>1. hits \subseteq Nat /\ hits # {}
    BY <1>4
  <2>2. first \in hits
    <3> HIDE DEF hits
    <3> QED BY <2>1, FirstOf
  <2> HIDE DEF first, hits
  <2> QED BY <1>4, <2>2
<1> HIDE DEF first, hits
<1> QED BY <1>3, <1>4, <1>5

\* A value of an optional type, None excepted, is of the other alternative.
LEMMA OptionalOf ==
  ASSUME NEW n \in 1..MaxDepth, NEW T \in Unambiguous[n], T[1] = "union",
         NEW v \in Of[n][T], v \in JsonValues, v # None
  PROVE  /\ v \in Of[n - 1][T[2][1]] /\ T[2][1] # NoneType /\ T[2][1] \in Types
         /\ T[2][1] \in Unambiguous[n - 1] /\ n - 1 \in 1..MaxDepth
<1> DEFINE A == T[2][1]
<1>1. n \in 1..MaxLevels /\ n - 1 \in 0..MaxLevels /\ n - 1 \in 0..MaxDepth
  BY Bounds
<1>2. T \in Types /\ T[2][2] = NoneType /\ Len(T[2]) = 2 /\ A \in Unambiguous[n - 1] /\ T[2] \in Seq(Types)
  BY UnambiguousCases, TypesClosed
<1>3. Elements(T[2]) = {A, NoneType} /\ A \in Types /\ NoneType \in Types
  <2>1. DOMAIN T[2] = 1..2 /\ \A i \in DOMAIN T[2] : T[2][i] \in Types
    BY <1>2, SeqItems
  <2> QED BY <1>2, <2>1 DEF Elements
<1>4. n - 1 \in 1..MaxDepth
  <2>1. Unambiguous[0] = {}
    BY UnambiguousLevels
  <2> QED BY <1>1, <1>2, <2>1
<1>5. v \notin Of[n - 1][NoneType]
  <2>1. n - 1 \in 1..MaxLevels /\ NoneType[1] = "class" /\ NoneType[2] = "none"
    BY <1>1, <1>4 DEF NoneType
  <2>2. v \in Of[n - 1][NoneType] => v[1] = "none"
    BY <1>3, <2>1, OfCases
  <2> QED BY <2>2, JsonTag
<1>6. \E B \in {A, NoneType} : v \in Of[n - 1][B]
  BY <1>1, <1>2, <1>3, OfCases
<1> QED BY <1>2, <1>3, <1>4, <1>5, <1>6

\* An optional type does, when its alternative does.
LEMMA UnionKept ==
  ASSUME NEW n \in 1..MaxDepth, NEW coerce, Keeps(coerce, n - 1),
         NEW T \in Unambiguous[n], T[1] = "union", NEW v \in Of[n][T], v \in JsonValues
  PROVE  CoerceUnion(v, T[2], coerce) = Ok(v)
<1>1. CASE v = None
  <2>1. T[2] \in Seq(Types) /\ Len(T[2]) = 2 /\ T[2][2] = NoneType
    BY UnambiguousCases, TypesClosed
  <2>2. NoneType \in Elements(T[2])
    <3>1. DOMAIN T[2] = 1..2
      BY <2>1, SeqItems
    <3> QED BY <2>1, <3>1 DEF Elements
  <2> QED BY <1>1, <2>2 DEF CoerceUnion
<1>2. CASE v # None
  <2>1. v \in Of[n - 1][T[2][1]] /\ T[2][1] # NoneType /\ T[2][1] \in Unambiguous[n - 1]
    BY <1>2, OptionalOf
  <2>2. coerce[T[2][1]][v] = Ok(v)
    BY <2>1 DEF Keeps
  <2> QED BY <1>2, <2>1, <2>2, OptionalCoerced
<1> QED BY <1>1, <1>2

\* A list does, when its items do.
LEMMA ListKept ==
  ASSUME NEW n \in 1..MaxDepth, NEW coerce, Keeps(coerce, n - 1),
         NEW T \in Unambiguous[n], T[1] = "list", NEW v \in Of[n][T], v \in JsonValues
  PROVE  CoerceItems(v, T[1], T[2], coerce) = Ok(v)
<1> DEFINE s == v[2]
           rs == [i \in DOMAIN s |-> coerce[T[2]][s[i]]]
<1>1. T \in Types /\ T[2] \in Unambiguous[n - 1] /\ n \in 1..MaxLevels
  BY UnambiguousCases, Bounds
<1>2. v[1] = "list" /\ Elements(s) \subseteq Of[n - 1][T[2]]
  BY <1>1, OfCases
<1>3. v = <<"list", s>> /\ s \in Seq(JsonValues)
  BY <1>2, JsonTag
<1>4. Len(s) \in Nat /\ DOMAIN s = 1..Len(s) /\ \A i \in DOMAIN s : s[i] \in JsonValues
  BY <1>3, SeqItems
<1>5. \A i \in 1..Len(s) : coerce[T[2]][s[i]] = Ok(s[i])
  BY <1>1, <1>2, <1>4 DEF Keeps, Elements
<1>6. DOMAIN rs = 1..Len(s) /\ \A i \in 1..Len(s) : rs[i] = Ok(s[i])
  BY <1>4, <1>5
<1>7. s = [i \in 1..Len(s) |-> s[i]]
  <2>1. s = [i \in DOMAIN s |-> s[i]]
    BY <1>3
  <2> QED BY <1>4, <2>1
<1>8. CoerceItems(v, T[1], T[2], coerce) =
        IF Failed(Collect(rs)) THEN Collect(rs) ELSE Ok(<<"list", Collect(rs)[2]>>)
  BY <1>2 DEF CoerceItems
<1> HIDE DEF rs
<1>9. Collect(rs) = Ok(s)
  <2> HIDE DEF s
  <2> QED BY <1>4, <1>6, <1>7, CollectedAll
<1>10. CoerceItems(v, T[1], T[2], coerce) = Ok(<<"list", s>>)
  <2> HIDE DEF s
  <2> QED BY <1>8, <1>9, OkHolds
<1> QED BY <1>3, <1>10

\* A dict does, when its values do.
LEMMA DictKept ==
  ASSUME NEW n \in 1..MaxDepth, NEW coerce, Keeps(coerce, n - 1),
         NEW T \in Unambiguous[n], T[1] = "dict", NEW v \in Of[n][T], v \in JsonValues
  PROVE  CoerceDict(v, T[2], coerce) = Ok(v)
<1> DEFINE s == v[2]
           values == [i \in 1..Len(s) |-> s[i][2]]
           rs == [i \in DOMAIN s |-> coerce[T[2]][s[i][2]]]
<1>1. T \in Types /\ T[2] \in Unambiguous[n - 1] /\ n \in 1..MaxLevels
  <2>1. T \in Types /\ T[2] \in Unambiguous[n - 1]
    BY UnambiguousCases
  <2>2. n \in 1..MaxLevels
    BY Bounds
  <2> QED BY <2>1, <2>2
<1>2. v[1] = "dict" /\ \A i \in DOMAIN s : s[i][2] \in Of[n - 1][T[2]]
  BY <1>1, OfCases
<1>3. v = <<"dict", s>> /\ s \in Seq(STRING \X JsonValues)
  BY <1>2, JsonTag
<1>4. Len(s) \in Nat /\ DOMAIN s = 1..Len(s) /\ \A i \in DOMAIN s : s[i] \in STRING \X JsonValues
  BY <1>3, SeqItems
<1>5. \A i \in 1..Len(s) : s[i][2] \in JsonValues /\ s[i] = <<s[i][1], s[i][2]>>
  BY <1>4
<1>6. \A i \in 1..Len(s) : coerce[T[2]][s[i][2]] = Ok(s[i][2])
  BY <1>1, <1>2, <1>4, <1>5 DEF Keeps
<1>7. DOMAIN rs = 1..Len(s) /\ \A i \in 1..Len(s) : rs[i] = Ok(values[i])
  BY <1>4, <1>6
<1>8. values = [i \in 1..Len(s) |-> values[i]]
  OBVIOUS
<1>9. CoerceDict(v, T[2], coerce) =
        IF Failed(Collect(rs)) THEN Collect(rs)
        ELSE Ok(<<"dict", [i \in DOMAIN s |-> <<s[i][1], Collect(rs)[2][i]>>]>>)
  BY <1>2 DEF CoerceDict
<1> HIDE DEF rs
<1>10. Collect(rs) = Ok(values)
  <2> HIDE DEF s, values
  <2> QED BY <1>4, <1>7, <1>8, CollectedAll
<1>11. [i \in DOMAIN s |-> <<s[i][1], values[i]>>] = s
  <2>1. s = [i \in DOMAIN s |-> s[i]]
    BY <1>3
  <2>2. \A i \in DOMAIN s : <<s[i][1], values[i]>> = s[i]
    BY <1>4, <1>5
  <2> HIDE DEF s, values
  <2> QED BY <2>1, <2>2
<1>12. CoerceDict(v, T[2], coerce) = Ok(<<"dict", [i \in DOMAIN s |-> <<s[i][1], values[i]>>]>>)
  <2>1. ~Failed(Collect(rs)) /\ Collect(rs)[2] = values
    BY <1>10, OkHolds
  <2> HIDE DEF s, values
  <2> QED BY <1>9, <2>1
<1> QED BY <1>3, <1>11, <1>12

\* coerce_value does, at every level of its recursion.
LEMMA CoerceKeeps == \A n \in 0..MaxDepth : Keeps(Coerce[n], n)
<1> DEFINE S == {n \in 0..MaxDepth : Keeps(Coerce[n], n)}
<1>1. 0 \in S
  <2>1. Unambiguous[0] = {} /\ 0 \in 0..MaxDepth
    BY UnambiguousLevels, Bounds
  <2> QED BY <2>1 DEF Keeps
<1>2. \A n \in 1..MaxDepth : n - 1 \in S => n \in S
  <2> SUFFICES ASSUME NEW n \in 1..MaxDepth, n - 1 \in S,
                      NEW T \in Unambiguous[n], NEW v \in JsonValues, v \in Of[n][T]
               PROVE  Coerce[n][T][v] = Ok(v)
    BY DEF Keeps
  <2> DEFINE coerce == Coerce[n - 1]
  <2>1. Keeps(coerce, n - 1)
    OBVIOUS
  <2>2. Coerce[n][T][v] = CoerceNested(coerce)[T][v]
    BY CoerceLevels
  <2>0. n \in 1..MaxLevels
    BY Bounds
  <2>3. T \in Types /\ n \in 1..MaxLevels
    BY <2>0, UnambiguousCases
  <2> HIDE DEF coerce
  <2>4. CASE T[1] = "union"
    BY <2>1, <2>2, <2>3, <2>4, CoerceCases, UnionKept
  <2>5. CASE T[1] = "list"
    BY <2>1, <2>2, <2>3, <2>5, CoerceCases, ListKept
  <2>6. CASE T[1] \in {"tuple", "set", "model"}
    BY <2>3, <2>6, OfCases, JsonTag
  <2>7. CASE T[1] = "dict"
    BY <2>1, <2>2, <2>3, <2>7, CoerceCases, DictKept
  <2>8. CASE T[1] \in {"any", "bool", "int", "float", "str", "bytes", "class"}
    BY <2>2, <2>3, <2>8, CoerceCases, ScalarKept
  <2> QED BY <2>3, <2>4, <2>5, <2>6, <2>7, <2>8, TypesClosed, UnambiguousCases
<1>3. \A n \in 0..MaxDepth : n \in S
  <2> HIDE DEF S
  <2> QED BY <1>1, <1>2, Bounds, Upward
<1> QED BY <1>3

\* str() of a scalar is read back.
LEMMA TextKept ==
  ASSUME NEW n \in 1..MaxLevels, NEW T \in Types, NEW v \in Of[n][T], v \in JsonValues,
         T[1] \in {"bool", "int", "float", "str"}, v[1] # "str"
  PROVE  Text(v) \in JsonValues /\ CoerceScalar(Text(v), T) = Ok(v)
<1>1. v \in JsonScalars
  BY OfCases, JsonTag
<1>2. Text(v) \in JsonValues
  BY <1>1, JsonHolds
<1>3. Text(v)[1] = "str" /\ Text(v)[2] = v
  BY DEF Text
<1>4. CASE T[1] = "bool"
  <2>1. v[1] = "bool"
    BY <1>4, OfCases
  <2>2. Text(v) # Text(<<"int", 1>>) /\ Text(v) # Text(<<"int", 0>>)
    BY <2>1 DEF Text
  <2>3. CoerceScalar(Text(v), T) = CoerceBool(Text(v))
    BY <1>4 DEF CoerceScalar
  <2>4. CoerceBool(Text(v)) = Ok(v)
    BY <1>3, <2>1, <2>2 DEF CoerceBool
  <2> QED BY <1>2, <2>3, <2>4
<1>5. CASE T[1] = "int"
  <2>1. v[1] = "int"
    BY <1>5, OfCases
  <2>2. CoerceScalar(Text(v), T) = CoerceInt(Text(v))
    BY <1>5 DEF CoerceScalar
  <2>3. CoerceInt(Text(v)) = Ok(v)
    BY <1>3, <2>1 DEF CoerceInt
  <2> QED BY <1>2, <2>2, <2>3
<1>6. CASE T[1] = "float"
  <2>1. v[1] \in {"float", "inf", "nan"}
    BY <1>6, OfCases
  <2>2. CoerceScalar(Text(v), T) = CoerceFloat(Text(v))
    BY <1>6 DEF CoerceScalar
  <2>3. CoerceFloat(Text(v)) = Ok(v)
    BY <1>3, <2>1 DEF CoerceFloat
  <2> QED BY <1>2, <2>2, <2>3
<1>7. CASE T[1] = "str"
  BY <1>7, OfCases
<1> QED BY <1>2, <1>4, <1>5, <1>6, <1>7

\* What a query parameter is coerced to: the value whose text it is.
LEMMA QueryKept ==
  ASSUME NEW T \in Unambiguous[MaxDepth], ReadFromText(T),
         NEW v \in JsonValues, v \in Of[MaxDepth][T], v # None, v[1] # "str"
  PROVE  Text(v) \in JsonValues /\ Coerce[MaxDepth][T][Text(v)] = Ok(v)
<1>1. MaxDepth \in 1..MaxDepth /\ \A n \in 1..MaxDepth : n \in 1..MaxLevels
  BY Bounds
<1>2. T \in Types
  BY <1>1, UnambiguousCases
<1>3. ASSUME NEW n \in 1..MaxDepth, NEW U \in Types, v \in Of[n][U], U[1] \in {"bool", "int", "float", "str"}
      PROVE  Text(v) \in JsonValues /\ Coerce[n][U][Text(v)] = Ok(v)
  <2>1. Text(v) \in JsonValues /\ CoerceScalar(Text(v), U) = Ok(v)
    BY <1>1, <1>3, TextKept
  <2>2. CoerceNested(Coerce[n - 1])[U][Text(v)] = CoerceScalar(Text(v), U)
    BY <1>3, <2>1, CoerceCases
  <2>3. Coerce[n] = CoerceNested(Coerce[n - 1])
    BY CoerceLevels
  <2> QED BY <2>1, <2>2, <2>3
<1>4. CASE T[1] # "union"
  <2>1. T[1] \in {"bool", "int", "float", "str"}
    BY <1>4 DEF ReadFromText
  <2> QED BY <1>1, <1>2, <1>3, <2>1
<1>5. CASE T[1] = "union"
  <2> DEFINE A == T[2][1]
             coerce == Coerce[MaxDepth - 1]
  <2>1. A[1] \in {"bool", "int", "float", "str"}
    BY <1>5 DEF ReadFromText
  <2>2. v \in Of[MaxDepth - 1][A] /\ A # NoneType /\ A \in Types /\ MaxDepth - 1 \in 1..MaxDepth
    BY <1>1, <1>5, OptionalOf
  <2>3. Text(v) \in JsonValues /\ coerce[A][Text(v)] = Ok(v)
    BY <1>3, <2>1, <2>2
  <2>4. Coerce[MaxDepth] = CoerceNested(coerce)
    BY <1>1, CoerceLevels
  <2>5. Text(v) # None
    BY DEF Text, None
  <2> HIDE DEF coerce
  <2>6. CoerceUnion(Text(v), T[2], coerce) = Ok(v)
    BY <1>1, <1>5, <2>2, <2>3, <2>5, OptionalCoerced
  <2>7. CoerceNested(coerce)[T][Text(v)] = CoerceUnion(Text(v), T[2], coerce)
    BY <1>2, <1>5, <2>3, CoerceCases
  <2> QED BY <2>3, <2>4, <2>6, <2>7
<1> QED BY <1>4, <1>5

-----------------------------------------------------------------------------
(* The resource with a validated body.                                     *)

\* A body with the one field p makes an object with its value.
LEMMA RowValidated ==
  ASSUME NEW m \in Classes, NEW pairs, Keys(pairs) = {"p"},
         NEW coerce, NEW y, coerce[TypeOfP(m)][ValueAt(pairs, "p")] = Ok(y)
  PROVE  ValidateModel(m, pairs, coerce) = Ok(<<"obj", m, <<Models[m][1].default, y>>>>)
<1> DEFINE d == Models[m][1].default
           f == <<d, y>>
           rs == [i \in DOMAIN Models[m] |-> CoerceField(Models[m][i], pairs, coerce)]
<1>1. /\ m \in DOMAIN Models /\ Len(Models[m]) = 2
      /\ Models[m][1].name = "id" /\ d # Required /\ Models[m][2].name = "p"
  BY ApiAssumption
<1>2. DOMAIN Models[m] = 1..2
  BY <1>1, FieldsTyped
<1>3. CoerceField(Models[m][1], pairs, coerce) = Ok(d)
  BY <1>1 DEF CoerceField
<1>4. CoerceField(Models[m][2], pairs, coerce) = Ok(y)
  BY <1>1 DEF CoerceField, TypeOfP
<1>5. DOMAIN rs = 1..2 /\ \A i \in 1..2 : rs[i] = Ok(f[i])
  <2>1. DOMAIN rs = 1..2 /\ rs[1] = Ok(d) /\ rs[2] = Ok(y)
    BY <1>2, <1>3, <1>4
  <2>2. f[1] = d /\ f[2] = y
    OBVIOUS
  <2> HIDE DEF rs, f, d
  <2> QED BY <2>1, <2>2
<1>6. f = [i \in 1..2 |-> f[i]]
  OBVIOUS
<1>7. Keys(pairs) \subseteq FieldNames(m)
  BY <1>1, <1>2 DEF FieldNames
<1>8. ValidateModel(m, pairs, coerce) = IF Failed(Collect(rs)) THEN Collect(rs) ELSE Ok(<<"obj", m, Collect(rs)[2]>>)
  BY <1>7 DEF ValidateModel
<1> HIDE DEF rs, f
<1>9. Collect(rs) = Ok(f)
  <2> DEFINE k == 2
  <2>1. /\ k \in Nat /\ DOMAIN rs = 1..k /\ \A i \in 1..k : rs[i] = Ok(f[i])
        /\ f = [i \in 1..k |-> f[i]]
    BY <1>5, <1>6
  <2> HIDE DEF k
  <2> QED BY <2>1, CollectedAll
<1>10. ValidateModel(m, pairs, coerce) = Ok(<<"obj", m, f>>)
  BY <1>8, <1>9, OkHolds
<1> QED BY <1>10 DEF f

\* Pairs with the same keys in the same places: a key is found at one place.
LEMMA SamePlace ==
  ASSUME NEW pairs, NEW query, DOMAIN query = DOMAIN pairs, \A i \in DOMAIN pairs : query[i][1] = pairs[i][1],
         NEW key \in Keys(pairs)
  PROVE  /\ Keys(query) = Keys(pairs)
         /\ \E i \in DOMAIN pairs : ValueAt(query, key) = query[i][2] /\ ValueAt(pairs, key) = pairs[i][2]
<1> DEFINE S == {j \in DOMAIN pairs : pairs[j][1] = key}
           i == CHOOSE j \in S : TRUE
<1>1. Keys(query) = Keys(pairs)
  BY DEF Keys
<1>2. S # {}
  BY DEF Keys
<1>3. i \in S
  <2> HIDE DEF S
  <2> QED BY <1>2
<1>4. {j \in DOMAIN query : query[j][1] = key} = S
  OBVIOUS
<1>5. ValueAt(query, key) = query[i][2]
  <2> HIDE DEF S
  <2> QED BY <1>4 DEF ValueAt
<1>6. ValueAt(pairs, key) = pairs[i][2]
  BY DEF ValueAt
<1> HIDE DEF i
<1> QED BY <1>1, <1>3, <1>5, <1>6

\* The class and the body that were chosen.
ApiInv == cls \in Classes /\ body \in Bodies

\* They stay what they were.
LEMMA ApiInvariant == ApiSpec => []ApiInv
<1>1. ApiInit => ApiInv
  BY DEF ApiInit, ApiInv
<1>2. ApiInv /\ [ApiNext]_<<ormVars, cls, body>> => ApiInv'
  BY DEF ApiInv, ApiNext
<1> QED BY <1>1, <1>2, PTL DEF ApiSpec

\* CoercedConforms of any class and body.
LEMMA ValidatedOf == ApiInv => CoercedConforms
<1> SUFFICES ASSUME ApiInv, ~Failed(Validated), <<"model", cls>> \notin Unchecked[MaxLevels]
             PROVE  Validated[2] \in Of[MaxLevels][<<"model", cls>>]
  BY DEF CoercedConforms
<1> DEFINE T == <<"model", cls>>
<1>1. cls \in DOMAIN Models /\ body \in JsonValues
  BY ApiAssumption DEF ApiInv
<1>2. T \in Types /\ T[1] = "model" /\ T[2] = cls
  BY <1>1, ValidationAssumption
<1>3. Validated = IF body[1] = "dict" THEN ValidateModel(cls, body[2], Coerce[MaxDepth]) ELSE Invalid
  BY DEF Validated, ValidateBody
<1>4. body[1] = "dict" /\ Validated = ValidateModel(T[2], body[2], Coerce[MaxDepth])
  BY <1>2, <1>3, OkHolds
<1>5. body[2] \in Seq(STRING \X JsonValues)
  BY <1>1, <1>4, JsonTag
<1>6. MaxDepth + MaxDepth \in MaxDepth..MaxLevels-1 /\ (MaxDepth + MaxDepth) + 1 = MaxLevels /\ MaxDepth \in 0..MaxDepth
  BY Bounds
<1>7. \A U \in Types : \A v \in JsonValues : Fits(Coerce[MaxDepth][U][v], U, MaxDepth + MaxDepth)
  BY <1>6, CoerceFits
<1> HIDE DEF T
<1>8. Fits(ValidateModel(T[2], body[2], Coerce[MaxDepth]), T, (MaxDepth + MaxDepth) + 1)
  BY <1>2, <1>5, <1>6, <1>7, ModelFits
<1> QED BY <1>4, <1>6, <1>8 DEF Fits, Given, T

\* ConformingKept of any class and body.
LEMMA ValidatedKeeps == ApiInv => ConformingKept
<1> DEFINE T == TypeOfP(cls)
           v == ValueAt(body[2], "p")
           text(x) == IF x[1] = "str" THEN x ELSE Text(x)
           query == [i \in DOMAIN body[2] |-> <<body[2][i][1], text(body[2][i][2])>>]
           row == Ok(<<"obj", cls, <<Models[cls][1].default, v>>>>)
<1> SUFFICES ASSUME ApiInv, body[1] = "dict", Keys(body[2]) = {"p"},
                    v \in Of[MaxDepth][T], T \in Unambiguous[MaxDepth]
             PROVE  /\ ~Failed(Validated) /\ Validated[2][3][2] = v
                    /\ ReadFromText(T) /\ v # None => ValidateQuery(cls, body[2]) = Validated
  BY DEF ConformingKept
<1>1. cls \in Classes /\ body \in JsonValues
  BY ApiAssumption DEF ApiInv
<1>2. body[2] \in Seq(STRING \X JsonValues) /\ "p" \in Keys(body[2])
  BY <1>1, JsonTag
<1>3. v \in JsonValues
  BY <1>2, ValueAtIn
<1>4. MaxDepth \in 0..MaxDepth
  BY Bounds
<1>5. Coerce[MaxDepth][T][v] = Ok(v)
  BY <1>3, <1>4, CoerceKeeps DEF Keeps
<1>6. Validated = row
  <2>1. Validated = ValidateModel(cls, body[2], Coerce[MaxDepth])
    BY DEF Validated, ValidateBody
  <2> QED BY <1>1, <1>5, <2>1, RowValidated
<1>7. ~Failed(Validated) /\ Validated[2][3][2] = v
  BY <1>6, OkHolds
<1>8. ASSUME ReadFromText(T), v # None PROVE ValidateQuery(cls, body[2]) = Validated
  <2>1. ValidateQuery(cls, body[2]) = ValidateModel(cls, query, Coerce[MaxDepth])
    BY DEF ValidateQuery
  <2>2. Keys(query) = {"p"} /\ ValueAt(query, "p") = text(v)
    <3>1. DOMAIN query = DOMAIN body[2] /\ \A i \in DOMAIN body[2] : query[i][1] = body[2][i][1] /\ query[i][2] = text(body[2][i][2])
      <4> HIDE DEF text
      <4> QED OBVIOUS
    <3> HIDE DEF text, query
    <3>2. /\ Keys(query) = Keys(body[2])
          /\ \E i \in DOMAIN body[2] : ValueAt(query, "p") = query[i][2] /\ v = body[2][i][2]
      <4> DEFINE pairs == body[2]
      <4>1. "p" \in Keys(pairs) /\ DOMAIN query = DOMAIN pairs /\ \A i \in DOMAIN pairs : query[i][1] = pairs[i][1]
        BY <1>2, <3>1
      <4> HIDE DEF pairs
      <4>2. /\ Keys(query) = Keys(pairs)
            /\ \E i \in DOMAIN pairs : ValueAt(query, "p") = query[i][2] /\ ValueAt(pairs, "p") = pairs[i][2]
        BY <4>1, SamePlace
      <4> QED BY <4>2 DEF pairs
    <3> QED BY <3>1, <3>2
  <2>3. Coerce[MaxDepth][T][text(v)] = Ok(v)
    BY <1>3, <1>5, <1>8, QueryKept
  <2> HIDE DEF text, query
  <2>4. ValidateModel(cls, query, Coerce[MaxDepth]) = row
    BY <1>1, <2>2, <2>3, RowValidated
  <2> QED BY <1>6, <2>1, <2>4
<1> QED BY <1>7, <1>8

\* What a handler gets has the declared type, whatever was sent, when the
\* validator looks into the types that are declared (validation.py:63-123):
\* for every set of dataclasses and JSON bodies.
THEOREM ApiCoerced == ApiSpec => []CoercedConforms
BY ApiInvariant, ValidatedOf, PTL

\* A value of the declared type comes through validation unchanged, from JSON
\* and from a query string (validation.py:67-78, 144-152).
THEOREM ApiKeeps == ApiSpec => []ConformingKept
BY ApiInvariant, ValidatedKeeps, PTL

\* The calls of the resource are calls of the table, with validated values.
LEMMA ApiTableStep == [ApiNext]_<<ormVars, cls, body>> => [TableNext]_ormVars
<1>1. ASSUME NEW t \in Threads, Create(t) PROVE TableNext
  BY <1>1, Zenon DEF Create, TableNext
<1>2. ASSUME NEW t \in Threads, Save(t) PROVE TableNext
  BY <1>2, Zenon DEF Save, TableNext
<1>3. ASSUME NEW t \in Threads, SaveInsert(t) \/ Delete(t) \/ \E i \in Ids : Get(t, i) PROVE TableNext
  BY <1>3, Zenon DEF TableNext
<1>4. ApiNext => TableNext
  BY <1>1, <1>2, <1>3, Zenon DEF ApiNext
<1>5. UNCHANGED <<ormVars, cls, body>> => UNCHANGED ormVars
  OBVIOUS
<1>6. QED BY <1>4, <1>5

\* The rows of a resource keep their identity, and what makes a save of its
\* handlers fail is another process's row, whatever is sent and stored
\* (orm.py:139 and 180-196).
THEOREM ApiRows == ApiSpec => [](RowIdentity /\ ConflictIsForeign)
<1>1. ApiInit => TableInv
  BY OrmInitInv DEF ApiInit
<1>2. TableInv => RowIdentity /\ ConflictIsForeign
  BY DEF TableInv
<1>3. QED BY <1>1, <1>2, TableStep, ApiTableStep, PTL DEF ApiSpec

-----------------------------------------------------------------------------
(* The columns: what JSON keeps.                                           *)

\* JSON nested that deep.
Deep == Json[MaxNesting]

\* All of it is among the Python values.
LEMMA JsonIsPython == \A n \in 0..MaxLevels : Json[MaxDepth + n] \subseteq Python[n]
<1> DEFINE S == {n \in 0..MaxLevels : Json[MaxDepth + n] \subseteq Python[n]}
<1>1. 0 \in S
  BY Bounds, PythonLevels DEF JsonValues
<1>2. \A n \in 1..MaxLevels : n - 1 \in S => n \in S
  <2> SUFFICES ASSUME NEW n \in 1..MaxLevels, n - 1 \in S PROVE Json[MaxDepth + n] \subseteq Python[n]
    OBVIOUS
  <2> DEFINE A == Json[MaxDepth + (n - 1)]
             B == Python[n - 1]
  <2>1. Json[MaxDepth + n] = JsonAround(A)
    <3>1. MaxDepth + n \in 1..MaxNesting /\ (MaxDepth + n) - 1 = MaxDepth + (n - 1)
      BY Bounds
    <3> QED BY <3>1, JsonLevels
  <2>2. Python[n] = PythonAround(B)
    BY PythonLevels
  <2>3. A \subseteq B
    OBVIOUS
  <2> HIDE DEF A, B
  <2>4. JsonAround(A) \subseteq PythonAround(B)
    <3> SUFFICES ASSUME NEW v \in JsonAround(A) PROVE v \in PythonAround(B)
      OBVIOUS
    <3>1. CASE v \in {"str"} \X A
      BY <2>3, <3>1 DEF PythonAround
    <3>2. CASE v \in {"list"} \X Seq(A)
      <4>1. v = <<"list", v[2]>> /\ v[2] \in Seq(A)
        BY <3>2
      <4>2. v[2] \in Seq(B)
        BY <2>3, <4>1, SeqWiden
      <4> QED BY <4>1, <4>2 DEF PythonAround
    <3>3. CASE v \in {"dict"} \X Seq(STRING \X A)
      <4>1. v = <<"dict", v[2]>> /\ v[2] \in Seq(STRING \X A)
        BY <3>3
      <4>2. v[2] \in Seq(STRING \X B)
        BY <2>3, <4>1, PairsWiden
      <4> QED BY <4>1, <4>2 DEF PythonAround
    <3>4. CASE v \in A
      BY <2>3, <3>4 DEF PythonAround
    <3> QED BY <3>1, <3>2, <3>3, <3>4 DEF JsonAround
  <2> QED BY <2>1, <2>2, <2>4
<1>3. \A n \in 0..MaxLevels : n \in S
  <2> HIDE DEF S
  <2> QED BY <1>1, <1>2, Bounds, Upward
<1> QED BY <1>3

\* JSON values are Python values, at every depth that is used.
LEMMA DeepIsPython == Deep \subseteq PythonValues /\ JsonValues \subseteq Deep
<1>1. MaxLevels \in 0..MaxLevels /\ MaxDepth + MaxLevels = MaxNesting
  BY Bounds
<1>2. MaxNesting \in 0..MaxNesting /\ MaxDepth \in 0..MaxNesting
  BY Bounds
<1> QED BY <1>1, <1>2, JsonIsPython, JsonGrows DEF Deep, PythonValues, JsonValues

\* The parts of such a value.
LEMMA DeepParts ==
  ASSUME NEW v \in Deep
  PROVE  /\ v \in JsonScalars \/ v[1] \in {"str", "list", "dict"}
         /\ v[1] = "list" => v = <<"list", v[2]>> /\ v[2] \in Seq(Deep)
         /\ v[1] = "dict" => v = <<"dict", v[2]>> /\ v[2] \in Seq(STRING \X Deep)
         /\ v[1] \notin {"tuple", "set", "obj", "bytes"}
<1>1. JsonParts(v, Deep)
  <2>1. MaxNesting \in 0..MaxNesting
    BY Bounds
  <2> QED BY <2>1, JsonMade DEF Deep
<1>2. CASE v \in JsonScalars
  BY <1>2, ScalarTags
<1>3. CASE v \notin JsonScalars
  BY <1>1, <1>3 DEF JsonParts
<1> QED BY <1>2, <1>3

\* A pair is what its parts are.
LEMMA PairsOf ==
  ASSUME NEW A, NEW s \in Seq(STRING \X A)
  PROVE  /\ Len(s) \in Nat /\ DOMAIN s = 1..Len(s) /\ s = [i \in 1..Len(s) |-> s[i]]
         /\ \A i \in 1..Len(s) : s[i] \in STRING \X A /\ s[i] = <<s[i][1], s[i][2]>>
                                 /\ s[i][1] \in STRING /\ s[i][2] \in A
<1>1. Len(s) \in Nat /\ DOMAIN s = 1..Len(s) /\ \A i \in DOMAIN s : s[i] \in STRING \X A
  BY SeqItems
<1>2. s = [i \in 1..Len(s) |-> s[i]]
  OBVIOUS
<1> QED BY <1>1, <1>2

\* asdict leaves JSON as it is.
LEMMA AsDictKeeps == \A n \in 0..MaxNesting : \A v \in Deep : AsDict[n][v] = v
<1> DEFINE S == {n \in 0..MaxNesting : \A v \in Deep : AsDict[n][v] = v}
<1>1. 0 \in S
  BY AsDictLevels, DeepIsPython, Bounds
<1>2. \A n \in 1..MaxNesting : n - 1 \in S => n \in S
  <2> SUFFICES ASSUME NEW n \in 1..MaxNesting, n - 1 \in S, NEW v \in Deep PROVE AsDict[n][v] = v
    OBVIOUS
  <2> DEFINE inner == AsDict[n - 1]
  <2>1. \A u \in Deep : inner[u] = u
    OBVIOUS
  <2>2. AsDict[n][v] =
          CASE v[1] = "obj" -> <<"dict", [i \in DOMAIN v[3] |-> <<Models[v[2]][i].name, inner[v[3][i]]>>]>>
            [] v[1] \in {"list", "tuple"} -> <<v[1], [i \in DOMAIN v[2] |-> inner[v[2][i]]]>>
            [] v[1] = "dict" -> <<"dict", [i \in DOMAIN v[2] |-> <<v[2][i][1], inner[v[2][i][2]]>>]>>
            [] OTHER -> v
    <3>1. AsDict[n] = AsDictNested(inner) /\ v \in PythonValues
      BY AsDictLevels, DeepIsPython
    <3> HIDE DEF inner
    <3> QED BY <3>1 DEF AsDictNested
  <2> HIDE DEF inner
  <2>3. CASE v[1] = "list"
    <3>1. v = <<"list", v[2]>> /\ v[2] \in Seq(Deep)
      BY <2>3, DeepParts
    <3>2. [i \in DOMAIN v[2] |-> inner[v[2][i]]] = v[2]
      BY <2>1, <3>1, SeqItems
    <3>3. AsDict[n][v] = <<v[1], [i \in DOMAIN v[2] |-> inner[v[2][i]]]>>
      BY <2>2, <2>3
    <3> QED BY <2>3, <3>1, <3>2, <3>3
  <2>4. CASE v[1] = "dict"
    <3>1. v = <<"dict", v[2]>> /\ v[2] \in Seq(STRING \X Deep)
      BY <2>4, DeepParts
    <3>2. \A i \in DOMAIN v[2] : <<v[2][i][1], inner[v[2][i][2]]>> = v[2][i]
      BY <2>1, <3>1, PairsOf
    <3>3. [i \in DOMAIN v[2] |-> <<v[2][i][1], inner[v[2][i][2]]>>] = v[2]
      BY <3>1, <3>2, PairsOf
    <3>4. AsDict[n][v] = <<"dict", [i \in DOMAIN v[2] |-> <<v[2][i][1], inner[v[2][i][2]]>>]>>
      BY <2>2, <2>4
    <3> QED BY <3>1, <3>3, <3>4
  <2>5. CASE v[1] \notin {"list", "dict"}
    <3>1. v[1] \notin {"obj", "tuple"}
      BY DeepParts
    <3> QED BY <2>2, <2>5, <3>1
  <2> QED BY <2>3, <2>4, <2>5
<1>3. \A n \in 0..MaxNesting : n \in S
  <2> HIDE DEF S
  <2> QED BY <1>1, <1>2, Bounds, Upward
<1> QED BY <1>3

\* A call that gives x, or fails.
Gets(r, x) == ~Failed(r) => r = Ok(x)

\* The calls of a loop that does not fail.
LEMMA CollectedSame ==
  ASSUME NEW k \in Nat, NEW rs, DOMAIN rs = 1..k, NEW f, f = [i \in 1..k |-> f[i]],
         \A i \in 1..k : Gets(rs[i], f[i]), ~Failed(Collect(rs))
  PROVE  Collect(rs) = Ok(f)
<1>1. \A i \in 1..k : ~Failed(rs[i])
  BY Collected
<1>2. \A i \in 1..k : rs[i] = Ok(f[i])
  BY <1>1 DEF Gets
<1> QED BY <1>2, CollectedAll

\* What json.dumps can write, json.loads reads back.
LEMMA DumpsKeeps == \A n \in 0..MaxNesting : \A v \in Deep : Gets(Dumps[n][v], v)
<1> DEFINE S == {n \in 0..MaxNesting : \A v \in Deep : Gets(Dumps[n][v], v)}
<1>1. 0 \in S
  BY DumpsLevels, DeepIsPython, Bounds DEF Gets
<1>2. \A n \in 1..MaxNesting : n - 1 \in S => n \in S
  <2> SUFFICES ASSUME NEW n \in 1..MaxNesting, n - 1 \in S, NEW v \in Deep, ~Failed(Dumps[n][v])
               PROVE  Dumps[n][v] = Ok(v)
    BY DEF Gets
  <2> DEFINE inner == Dumps[n - 1]
             list == Collect([i \in DOMAIN v[2] |-> inner[v[2][i]]])
             dict == Collect([i \in DOMAIN v[2] |-> inner[v[2][i][2]]])
  <2>1. \A u \in Deep : Gets(inner[u], u)
    OBVIOUS
  <2>2. Dumps[n][v] =
          CASE v[1] \in {"list", "tuple"} -> IF Failed(list) THEN list ELSE Ok(<<"list", list[2]>>)
            [] v[1] = "dict" -> IF Failed(dict) THEN dict
                                ELSE Ok(<<"dict", [i \in DOMAIN v[2] |-> <<v[2][i][1], dict[2][i]>>]>>)
            [] v[1] \in {"set", "bytes"} \/ Lone(v) -> Raised
            [] OTHER -> Ok(v)
    <3>1. Dumps[n] = DumpsNested(inner) /\ v \in PythonValues
      BY DumpsLevels, DeepIsPython
    <3> HIDE DEF inner
    <3> QED BY <3>1 DEF DumpsNested
  <2> HIDE DEF inner
  <2>3. CASE v[1] = "list"
    <3>1. v = <<"list", v[2]>> /\ v[2] \in Seq(Deep)
      BY <2>3, DeepParts
    <3> DEFINE rs == [i \in DOMAIN v[2] |-> inner[v[2][i]]]
               k == Len(v[2])
    <3>2. k \in Nat /\ DOMAIN rs = 1..k /\ v[2] = [i \in 1..k |-> v[2][i]]
      BY <3>1, SeqItems
    <3>3. \A i \in 1..k : Gets(rs[i], v[2][i])
      BY <2>1, <3>1, SeqItems
    <3>0. ~Failed(Collect(rs))
      BY <2>2, <2>3 DEF Lone
    <3> HIDE DEF rs, k
    <3>4. Collect(rs) = Ok(v[2])
      BY <3>0, <3>2, <3>3, CollectedSame
    <3>5. list = Ok(v[2])
      BY <3>4 DEF rs
    <3> HIDE DEF list
    <3>6. ~Failed(list) /\ list[2] = v[2]
      BY <3>5, OkHolds
    <3> QED BY <2>2, <2>3, <3>1, <3>6 DEF Lone
  <2>4. CASE v[1] = "dict"
    <3>1. v = <<"dict", v[2]>> /\ v[2] \in Seq(STRING \X Deep)
      BY <2>4, DeepParts
    <3> DEFINE rs == [i \in DOMAIN v[2] |-> inner[v[2][i][2]]]
               k == Len(v[2])
               f == [i \in 1..k |-> v[2][i][2]]
    <3>2. k \in Nat /\ DOMAIN rs = 1..k /\ f = [i \in 1..k |-> f[i]]
      BY <3>1, PairsOf
    <3>3. \A i \in 1..k : Gets(rs[i], f[i])
      BY <2>1, <3>1, PairsOf
    <3>0. ~Failed(Collect(rs))
      BY <2>2, <2>4 DEF Lone
    <3>4. \A i \in DOMAIN v[2] : <<v[2][i][1], f[i]>> = v[2][i]
      BY <3>1, PairsOf
    <3> HIDE DEF rs, k, f
    <3>5. Collect(rs) = Ok(f)
      BY <3>0, <3>2, <3>3, CollectedSame
    <3>6. dict = Ok(f)
      BY <3>5 DEF rs
    <3> HIDE DEF dict, list
    <3>7. ~Failed(dict) /\ dict[2] = f
      BY <3>6, OkHolds
    <3>8. [i \in DOMAIN v[2] |-> <<v[2][i][1], f[i]>>] = v[2]
      BY <3>1, <3>4, PairsOf
    <3> QED BY <2>2, <2>4, <3>1, <3>7, <3>8 DEF Lone
  <2>5. CASE v[1] \notin {"list", "dict"}
    <3>1. v[1] \notin {"obj", "tuple", "set", "bytes"}
      BY DeepParts
    <3> HIDE DEF dict, list
    <3>2. CASE Lone(v)
      <4>1. Dumps[n][v] = Raised
        BY <2>2, <2>5, <3>1, <3>2
      <4> QED BY <4>1, OkHolds
    <3>3. CASE ~Lone(v)
      BY <2>2, <2>5, <3>1, <3>3
    <3> QED BY <3>2, <3>3
  <2> QED BY <2>3, <2>4, <2>5
<1>3. \A n \in 0..MaxNesting : n \in S
  <2> HIDE DEF S
  <2> QED BY <1>1, <1>2, Bounds, Upward
<1> QED BY <1>3

\* What a call gives is in S, unless it fails.
Gives(c, S) == \A v \in JsonValues : ~Failed(c[v]) => c[v][2] \in S

\* Of what kind the result of a union is.
LEMMA UnionGives ==
  ASSUME NEW coerce, NEW v \in JsonValues, NEW T \in Types, T[1] = "union"
  PROVE  \/ /\ v = None /\ NoneType \in Elements(T[2])
            /\ CoerceUnion(v, T[2], coerce) = Ok(None)
         \/ \E A \in Elements(T[2]) \ {NoneType} :
              A \in Types /\ CoerceUnion(v, T[2], coerce) = coerce[A][v] /\ coerce[A][v] # Invalid
         \/ /\ CoerceUnion(v, T[2], coerce) = Invalid /\ ~(v = None /\ NoneType \in Elements(T[2]))
            /\ \A A \in Elements(T[2]) \ {NoneType} : coerce[A][v] = Invalid
<1> DEFINE r == CoerceUnion(v, T[2], coerce)
           subs == {i \in DOMAIN T[2] : T[2][i] # NoneType}
           hits == {i \in subs : coerce[T[2][i]][v] # Invalid}
           first == CHOOSE i \in hits : \A j \in hits : i <= j
<1>1. Elements(T[2]) \subseteq Types
  BY TypesClosed
<1>2. r = IF v = None /\ NoneType \in Elements(T[2]) THEN Ok(None)
          ELSE IF hits = {} THEN Invalid ELSE coerce[T[2][first]][v]
  BY DEF CoerceUnion
<1>3. CASE v = None /\ NoneType \in Elements(T[2])
  BY <1>2, <1>3
<1>4. CASE ~(v = None /\ NoneType \in Elements(T[2])) /\ hits # {}
  <2>1. hits \subseteq Nat
    BY TypesClosed
  <2>2. first \in hits
    <3> HIDE DEF hits
    <3> QED BY <1>4, <2>1, FirstOf
  <2>3. r = coerce[T[2][first]][v]
    BY <1>2, <1>4
  <2> HIDE DEF first, r
  <2>4. T[2][first] \in Elements(T[2]) \ {NoneType} /\ coerce[T[2][first]][v] # Invalid
    BY <2>2 DEF Elements
  <2> QED BY <1>1, <2>3, <2>4 DEF r
<1>5. CASE ~(v = None /\ NoneType \in Elements(T[2])) /\ hits = {}
  <2>1. r = Invalid
    BY <1>2, <1>5
  <2>2. ASSUME NEW A \in Elements(T[2]) \ {NoneType} PROVE coerce[A][v] = Invalid
    <3>1. PICK i \in DOMAIN T[2] : T[2][i] = A
      BY DEF Elements
    <3> QED BY <1>5, <3>1
  <2> QED BY <1>5, <2>1, <2>2
<1> QED BY <1>3, <1>4, <1>5

\* A list or tuple is made of what its items became.
LEMMA ItemsGive ==
  ASSUME NEW coerce, NEW U \in Types, NEW S, Gives(coerce[U], S),
         NEW v \in JsonValues, NEW kind \in {"list", "tuple"}, ~Failed(CoerceItems(v, kind, U, coerce))
  PROVE  CoerceItems(v, kind, U, coerce)[2] \in {kind} \X Seq(S)
<1> DEFINE r == CoerceItems(v, kind, U, coerce)
           given == IF v[1] = "list" THEN v[2] ELSE <<v>>
           rs == [i \in DOMAIN given |-> coerce[U][given[i]]]
           items == Collect(rs)
           k == Len(given)
<1>1. given \in Seq(JsonValues)
  <2>1. CASE v[1] = "list"
    BY <2>1, JsonTag
  <2>2. CASE v[1] # "list"
    <3>1. <<v>> \in Seq(JsonValues)
      BY SeqSingle
    <3> QED BY <2>2, <3>1
  <2> QED BY <2>1, <2>2
<1>2. k \in Nat /\ DOMAIN given = 1..k /\ \A i \in DOMAIN given : given[i] \in JsonValues
  <2> HIDE DEF given
  <2> QED BY <1>1, SeqItems
<1>3. r = IF Failed(items) THEN items ELSE Ok(<<kind, items[2]>>)
  BY DEF CoerceItems
<1> HIDE DEF given
<1>4. DOMAIN rs = 1..k /\ Yields(rs, k, S)
  BY <1>2 DEF Gives, Yields
<1> HIDE DEF rs, k
<1>5. ~Failed(items) /\ r = Ok(<<kind, items[2]>>)
  BY <1>3
<1>6. items[2] \in Seq(S)
  BY <1>2, <1>4, <1>5, CollectedIn DEF ListOf
<1> HIDE DEF items
<1>7. r[2] = <<kind, items[2]>>
  BY <1>5, OkHolds
<1> HIDE DEF r
<1>8. r[2] \in {kind} \X Seq(S)
  BY <1>6, <1>7
<1> QED BY <1>8 DEF r

\* A dict keeps its keys, with what their values became.
LEMMA DictGives ==
  ASSUME NEW coerce, NEW U \in Types, NEW S, Gives(coerce[U], S),
         NEW v \in JsonValues, ~Failed(CoerceDict(v, U, coerce))
  PROVE  CoerceDict(v, U, coerce)[2] \in {"dict"} \X Seq(STRING \X S)
<1> DEFINE r == CoerceDict(v, U, coerce)
           rs == [i \in DOMAIN v[2] |-> coerce[U][v[2][i][2]]]
           items == Collect(rs)
           pairs == [i \in DOMAIN v[2] |-> <<v[2][i][1], items[2][i]>>]
           k == Len(v[2])
<1>1. r = IF v[1] # "dict" THEN Invalid ELSE IF Failed(items) THEN items ELSE Ok(<<"dict", pairs>>)
  BY DEF CoerceDict
<1>2. v[1] = "dict" /\ ~Failed(items) /\ r = Ok(<<"dict", pairs>>)
  BY <1>1, OkHolds
<1>3. v[2] \in Seq(STRING \X JsonValues)
  BY <1>2, JsonTag
<1>4. k \in Nat /\ DOMAIN v[2] = 1..k /\ \A i \in 1..k : v[2][i][1] \in STRING /\ v[2][i][2] \in JsonValues
  BY <1>3, PairsOf
<1>5. DOMAIN rs = 1..k /\ Yields(rs, k, S)
  BY <1>4 DEF Gives, Yields
<1> HIDE DEF rs, k
<1>6. ListOf(items[2], k, S)
  BY <1>2, <1>4, <1>5, CollectedIn
<1> HIDE DEF items
<1>7. pairs \in Seq(STRING \X S)
  <2>1. \A i \in 1..k : <<v[2][i][1], items[2][i]>> \in STRING \X S
    BY <1>4, <1>6 DEF ListOf
  <2>2. pairs = [i \in 1..k |-> <<v[2][i][1], items[2][i]>>]
    BY <1>4
  <2>3. \A i \in 1..k : pairs[i] \in STRING \X S
    BY <2>1, <2>2
  <2>4. pairs = [i \in 1..k |-> pairs[i]]
    BY <2>2
  <2> HIDE DEF pairs
  <2> QED BY <1>4, <2>3, <2>4, SeqMade
<1> HIDE DEF pairs
<1>8. r[2] = <<"dict", pairs>>
  BY <1>2, OkHolds
<1> HIDE DEF r
<1>9. r[2] \in {"dict"} \X Seq(STRING \X S)
  BY <1>7, <1>8
<1> QED BY <1>9 DEF r

\* Levels that grow from one to the next do so all the way.
LEMMA Rising ==
  ASSUME NEW K \in Nat \ {0}, NEW f, f[0] \subseteq f[1],
         \A n \in 1..K-1 : f[n - 1] \subseteq f[n] => f[n] \subseteq f[n + 1]
  PROVE  \A n \in 1..K : f[n - 1] \subseteq f[n]
<1> DEFINE S == {n \in 0..K-1 : f[n] \subseteq f[n + 1]}
<1>1. 0 \in S
  OBVIOUS
<1>2. \A n \in 1..K-1 : n - 1 \in S => n \in S
  <2> SUFFICES ASSUME NEW n \in 1..K-1, n - 1 \in S PROVE f[n] \subseteq f[n + 1]
    OBVIOUS
  <2>1. (n - 1) + 1 = n
    OBVIOUS
  <2> QED BY <2>1
<1>3. \A n \in 0..K-1 : n \in S
  <2>1. K - 1 \in Nat
    OBVIOUS
  <2> HIDE DEF S
  <2> QED BY <1>1, <1>2, <2>1, Upward
<1>4. \A n \in 1..K : n - 1 \in 0..K-1 /\ (n - 1) + 1 = n
  OBVIOUS
<1> QED BY <1>3, <1>4

\* The parts of a type of which JSON keeps every value.
LEMMA PlainParts ==
  ASSUME NEW T \in Plain[MaxDepth]
  PROVE  /\ T \in Types
         /\ T[1] \in {"any", "bool", "int", "float", "str", "union", "list", "dict"} \/ T = NoneType
         /\ T[1] = "union" => Elements(T[2]) \subseteq Plain[MaxDepth]
         /\ T[1] \in {"list", "dict"} => T[2] \in Plain[MaxDepth]
<1>1. ASSUME NEW n \in 1..MaxDepth-1, Plain[n - 1] \subseteq Plain[n] PROVE Plain[n] \subseteq Plain[n + 1]
  <2> DEFINE A == Plain[n - 1]
             B == Plain[n]
  <2>1. n \in 1..MaxDepth /\ n + 1 \in 1..MaxDepth /\ (n + 1) - 1 = n
    BY Bounds
  <2>2. B = PlainAround(A) /\ Plain[n + 1] = PlainAround(B) /\ A \subseteq B
    BY <1>1, <2>1, PlainLevels
  <2> HIDE DEF A, B
  <2>3. PlainAround(A) \subseteq PlainAround(B)
    BY <2>2 DEF PlainAround
  <2> QED BY <2>2, <2>3 DEF B
<1>2. Plain[0] \subseteq Plain[1] /\ MaxDepth \in Nat \ {0} /\ MaxDepth \in 1..MaxDepth
  BY PlainLevels, Bounds
<1>4. Plain[MaxDepth - 1] \subseteq Plain[MaxDepth]
  BY <1>1, <1>2, Rising
<1>5. T \in PlainAround(Plain[MaxDepth - 1])
  BY <1>2, PlainLevels
<1>6. /\ T \in Types
      /\ T[1] \in {"any", "bool", "int", "float", "str", "union", "list", "dict"} \/ T = NoneType
      /\ T[1] = "union" => Elements(T[2]) \subseteq Plain[MaxDepth - 1]
      /\ T[1] \in {"list", "dict"} => T[2] \in Plain[MaxDepth - 1]
  BY <1>5 DEF PlainAround, NoneType
<1> QED BY <1>4, <1>6

\* JSON around JSON, level by level.
LEMMA JsonNext ==
  ASSUME NEW n \in 1..MaxDepth
  PROVE  /\ Json[MaxDepth + n] = JsonAround(Json[MaxDepth + (n - 1)])
         /\ JsonValues \subseteq Json[MaxDepth + n] /\ Json[MaxDepth + (n - 1)] \subseteq Json[MaxDepth + n]
<1>1. /\ MaxDepth + n \in 1..MaxNesting /\ MaxDepth + n \in 0..MaxNesting
      /\ (MaxDepth + n) - 1 = MaxDepth + (n - 1)
      /\ MaxDepth \in 0..MaxDepth+n /\ MaxDepth + (n - 1) \in 0..MaxDepth+n
  BY Bounds
<1> QED BY <1>1, JsonLevels, JsonGrows DEF JsonValues

\* A scalar type of that kind gives JSON.
LEMMA ScalarPlain ==
  ASSUME NEW n \in 1..MaxDepth, NEW T \in Types, NEW v \in JsonValues,
         T[1] \in {"any", "bool", "int", "float", "str"} \/ T = NoneType,
         ~Failed(CoerceScalar(v, T))
  PROVE  CoerceScalar(v, T)[2] \in Json[MaxDepth + n]
<1> DEFINE r == CoerceScalar(v, T)
           x == r[2]
<1>1. /\ JsonValues \subseteq Json[MaxDepth + n] /\ Json[MaxDepth + (n - 1)] \subseteq Json[MaxDepth + n]
      /\ {"str"} \X JsonValues \subseteq Json[MaxDepth + n]
  <2>1. JsonValues \subseteq Json[MaxDepth + (n - 1)]
    <3>1. MaxDepth + (n - 1) \in 0..MaxNesting /\ MaxDepth \in 0..(MaxDepth + (n - 1))
      BY Bounds
    <3> QED BY <3>1, JsonGrows DEF JsonValues
  <2> DEFINE A == Json[MaxDepth + (n - 1)]
             B == Json[MaxDepth + n]
  <2>2. B = JsonAround(A) /\ JsonValues \subseteq B /\ A \subseteq B
    BY JsonNext
  <2>3. JsonValues \subseteq A
    BY <2>1
  <2> HIDE DEF A
  <2>4. {"str"} \X JsonValues \subseteq JsonAround(A)
    BY <2>3 DEF JsonAround
  <2> QED BY <2>2, <2>4 DEF A
<1>2. CASE T[1] = "any"
  <2>1. r = Ok(v)
    BY <1>2 DEF CoerceScalar
  <2>2. x = v
    BY <2>1, OkHolds
  <2> QED BY <1>1, <2>2
<1>3. CASE T[1] # "any"
  <2>1. 1 \in 1..MaxLevels /\ 1 - 1 = 0 /\ 1 \in 0..MaxLevels
    BY Bounds
  <2>2. T[1] \in {"any", "bool", "int", "float", "str", "bytes", "class"}
    BY DEF NoneType
  <2>3. x \in Python[1] /\ x \in Of[1][T]
    BY <2>1, <2>2, ScalarFits DEF Conforms
  <2> HIDE DEF x
  <2>4. x \in PythonAround(JsonValues)
    BY <2>1, <2>3, PythonLevels
  <2>5. x \in OfType(T, Of[0])
    BY <2>1, <2>3, OfUnfold
  <2>6. x[1] \in {"bool", "int", "float", "inf", "nan", "str", "none"}
    BY <1>3, <2>5 DEF OfType, NoneType
  <2>7. x \in JsonValues \/ x \in {"str"} \X JsonValues
    <3> DEFINE M == {"str", "bytes"} \X JsonValues
    <3>1. CASE x \in M
      BY <2>6, <3>1
    <3>2. CASE x \in JsonValues
      BY <3>2
    <3>3. CASE x \notin M /\ x \notin JsonValues
      <4>1. \/ x \in {"list", "tuple"} \X Seq(JsonValues)
            \/ x \in {"set"} \X SUBSET JsonValues
            \/ x \in {"dict"} \X Seq(STRING \X JsonValues)
            \/ x \in {"obj"} \X (DOMAIN Models) \X Seq(JsonValues)
        BY <2>4, <3>3 DEF PythonAround
      <4>2. x[1] \in {"list", "tuple", "set", "dict", "obj"}
        BY <4>1
      <4> QED BY <2>6, <4>2
    <3> HIDE DEF M
    <3> QED BY <3>1, <3>2, <3>3
  <2> QED BY <1>1, <2>7 DEF x
<1> QED BY <1>2, <1>3

\* So does every such type, when its parts do.
LEMMA PlainGives ==
  \A n \in 0..MaxDepth : \A T \in Plain[MaxDepth] : Gives(Coerce[n][T], Json[MaxDepth + n])
<1> DEFINE S == {n \in 0..MaxDepth : \A T \in Plain[MaxDepth] : Gives(Coerce[n][T], Json[MaxDepth + n])}
<1>1. 0 \in S
  <2>1. \A T \in Types : \A v \in JsonValues : Coerce[0][T][v] = Raised
    BY CoerceLevels DEF CoerceNever
  <2>2. Plain[MaxDepth] \subseteq Types
    BY PlainParts
  <2> QED BY <2>1, <2>2, Bounds, OkHolds DEF Gives
<1>2. \A n \in 1..MaxDepth : n - 1 \in S => n \in S
  <2> SUFFICES ASSUME NEW n \in 1..MaxDepth, n - 1 \in S, NEW T \in Plain[MaxDepth], NEW v \in JsonValues,
                      ~Failed(Coerce[n][T][v])
               PROVE  Coerce[n][T][v][2] \in Json[MaxDepth + n]
    BY DEF Gives
  <2> DEFINE coerce == Coerce[n - 1]
             A == Json[MaxDepth + (n - 1)]
             B == Json[MaxDepth + n]
  <2>1. \A U \in Plain[MaxDepth] : Gives(coerce[U], A)
    OBVIOUS
  <2>2. Coerce[n][T][v] = CoerceNested(coerce)[T][v]
    BY CoerceLevels, PlainParts
  <2>3. B = JsonAround(A) /\ JsonValues \subseteq B /\ A \subseteq B
    BY JsonNext
  <2>4. T \in Types
    BY PlainParts
  <2> HIDE DEF coerce, A
  <2>5. CASE T[1] = "union"
    <3>1. Coerce[n][T][v] = CoerceUnion(v, T[2], coerce)
      BY <2>2, <2>4, <2>5, CoerceCases
    <3>2. CASE Coerce[n][T][v] = Ok(None)
      <4>1. Coerce[n][T][v][2] = None
        BY <3>2, OkHolds
      <4> QED BY <2>3, <4>1, JsonHolds
    <3>3. CASE \E U \in Elements(T[2]) : Coerce[n][T][v] = coerce[U][v]
      <4>1. PICK U \in Elements(T[2]) : Coerce[n][T][v] = coerce[U][v]
        BY <3>3
      <4>2. U \in Plain[MaxDepth]
        BY <2>5, <4>1, PlainParts
      <4> QED BY <2>1, <2>3, <4>1, <4>2 DEF Gives
    <3>4. Coerce[n][T][v] # Invalid
      BY OkHolds
    <3> QED BY <2>4, <2>5, <3>1, <3>2, <3>3, <3>4, UnionGives
  <2>6. CASE T[1] = "list"
    <3>1. Coerce[n][T][v] = CoerceItems(v, "list", T[2], coerce)
      BY <2>2, <2>4, <2>6, CoerceCases
    <3>2. T[2] \in Types /\ Gives(coerce[T[2]], A)
      BY <2>1, <2>6, PlainParts
    <3>3. CoerceItems(v, "list", T[2], coerce)[2] \in {"list"} \X Seq(A)
      <4>1. ~Failed(CoerceItems(v, "list", T[2], coerce)) /\ "list" \in {"list", "tuple"}
        BY <3>1
      <4> QED BY <3>2, <4>1, ItemsGive
    <3> QED BY <2>3, <3>1, <3>3 DEF JsonAround
  <2>7. CASE T[1] = "dict"
    <3>1. Coerce[n][T][v] = CoerceDict(v, T[2], coerce)
      BY <2>2, <2>4, <2>7, CoerceCases
    <3>2. T[2] \in Types /\ Gives(coerce[T[2]], A)
      BY <2>1, <2>7, PlainParts
    <3>3. CoerceDict(v, T[2], coerce)[2] \in {"dict"} \X Seq(STRING \X A)
      <4>1. ~Failed(CoerceDict(v, T[2], coerce))
        BY <3>1
      <4> QED BY <3>2, <4>1, DictGives
    <3> QED BY <2>3, <3>1, <3>3 DEF JsonAround
  <2>8. CASE T[1] \in {"any", "bool", "int", "float", "str"} \/ T = NoneType
    <3>1. T[1] \notin {"union", "list", "tuple", "set", "fixed", "dict", "model"}
      BY <2>8 DEF NoneType
    <3>2. Coerce[n][T][v] = CoerceScalar(v, T)
      BY <2>2, <2>4, <3>1, CoerceCases
    <3> QED BY <2>4, <2>8, <3>2, ScalarPlain
  <2> QED BY <2>5, <2>6, <2>7, <2>8, PlainParts
<1>3. \A n \in 0..MaxDepth : n \in S
  <2> HIDE DEF S
  <2> QED BY <1>1, <1>2, Bounds, Upward
<1> QED BY <1>3

\* What is written into and read from a column is made of that.
Inner == Json[MaxNesting - 1]

\* The values of a type that a column keeps.
Shape(T, x) ==
  \/ T[1] = "bool" /\ x = <<"bool", x[2]>> /\ x[2] \in BOOLEAN
  \/ T[1] = "int" /\ x = <<"int", x[2]>> /\ x[2] \in Int
  \/ T[1] = "float" /\ (x = <<"inf">> \/ x = NaN \/ (x = <<"float", x[2]>> /\ x[2] \in Int))
  \/ T[1] \in {"str", "bytes"} /\ x = <<T[1], x[2]>> /\ x \in PythonValues
  \/ T[1] \in {"list", "tuple"} /\ x = <<T[1], x[2]>> /\ x[2] \in Seq(Inner)
  \/ T[1] = "dict" /\ x = <<"dict", x[2]>> /\ x[2] \in Seq(STRING \X Inner)
  \/ T[1] = "model" /\ x = <<"obj", T[2], x[3]>> /\ x[3] \in Seq(Inner) /\ DOMAIN x[3] = DOMAIN Models[T[2]]

\* How deep the columns' values are.
LEMMA InnerHolds ==
  /\ JsonAround(Inner) = Deep /\ Inner \subseteq Deep /\ Inner \subseteq PythonValues /\ JsonValues \subseteq Inner
  /\ \A n \in 0..MaxDepth : Json[MaxDepth + n] \subseteq Inner
<1>1. MaxNesting \in 1..MaxNesting /\ MaxNesting - 1 \in 0..MaxNesting /\ MaxNesting \in 0..MaxNesting
  BY Bounds
<1>2. JsonAround(Inner) = Deep /\ Inner \subseteq Deep
  BY <1>1, JsonLevels, JsonGrows DEF Deep, Inner
<1>3. ASSUME NEW n \in 0..MaxDepth PROVE Json[MaxDepth + n] \subseteq Inner
  <2>1. MaxDepth + n \in 0..MaxNesting-1
    BY Bounds
  <2> QED BY <1>1, <2>1, JsonGrows DEF Inner
<1>4. JsonValues \subseteq Inner
  <2>1. 0 \in 0..MaxDepth /\ MaxDepth + 0 = MaxDepth
    BY Bounds
  <2> QED BY <1>3, <2>1 DEF JsonValues
<1> QED BY <1>2, <1>3, <1>4, DeepIsPython

\* The values of a scalar type.
LEMMA ScalarShape ==
  ASSUME NEW T \in Types, NEW v \in JsonValues, T[1] \in {"bool", "int", "float", "str", "bytes"},
         ~Failed(CoerceScalar(v, T))
  PROVE  Shape(T, CoerceScalar(v, T)[2])
<1> DEFINE r == CoerceScalar(v, T)
           x == r[2]
<1>1. 1 \in 1..MaxLevels /\ 1 - 1 = 0 /\ 1 \in 0..MaxLevels
  BY Bounds
<1>2. x \in Python[1] /\ x \in Of[1][T]
  BY <1>1, ScalarFits DEF Conforms
<1> SUFFICES Shape(T, x)
  OBVIOUS
<1> HIDE DEF x
<1>3. x \in PythonAround(JsonValues)
  BY <1>1, <1>2, PythonLevels
<1>4. x \in PythonValues /\ (x[1] = T[1] \/ (T[1] = "float" /\ x[1] \in {"inf", "nan"}))
  <2>1. x \in OfType(T, Of[0])
    BY <1>1, <1>2, OfUnfold
  <2> QED BY <2>1 DEF OfType
<1>5. CASE x \in JsonValues
  <2>1. CASE x \in JsonScalars
    BY <1>4, <2>1, ScalarTags DEF Shape, None
  <2>2. CASE x \notin JsonScalars
    <3>1. x[1] \in {"list", "dict", "str"} /\ (x[1] = "str" => x = <<"str", x[2]>>)
      BY <1>5, <2>2, JsonTag
    <3> QED BY <1>4, <3>1 DEF Shape
  <2> QED BY <2>1, <2>2
<1>6. CASE x \notin JsonValues
  <2> DEFINE M == {"str", "bytes"} \X JsonValues
  <2>1. CASE x \in M
    <3>1. x = <<x[1], x[2]>> /\ x[1] \in {"str", "bytes"}
      BY <2>1
    <3> QED BY <1>4, <3>1 DEF Shape
  <2>2. CASE x \notin M
    <3>1. \/ x \in {"list", "tuple"} \X Seq(JsonValues)
          \/ x \in {"set"} \X SUBSET JsonValues
          \/ x \in {"dict"} \X Seq(STRING \X JsonValues)
          \/ x \in {"obj"} \X (DOMAIN Models) \X Seq(JsonValues)
      BY <1>3, <1>6, <2>2 DEF PythonAround
    <3>2. x[1] \in {"list", "tuple", "set", "dict", "obj"}
      BY <3>1
    <3> QED BY <1>4, <3>2
  <2> HIDE DEF M
  <2> QED BY <2>1, <2>2
<1> QED BY <1>5, <1>6

\* A field of an object.
LEMMA FieldPlain ==
  ASSUME NEW n \in 0..MaxDepth, NEW c \in DOMAIN Models, NEW i \in DOMAIN Models[c],
         Models[c][i].type \in Plain[MaxDepth], Models[c][i].default \in {Required} \cup JsonValues,
         NEW pairs \in Seq(STRING \X JsonValues),
         ~Failed(CoerceField(Models[c][i], pairs, Coerce[n]))
  PROVE  CoerceField(Models[c][i], pairs, Coerce[n])[2] \in Inner
<1> DEFINE f == Models[c][i]
           coerce == Coerce[n]
           r == CoerceField(f, pairs, coerce)
<1>1. Gives(coerce[f.type], Json[MaxDepth + n]) /\ Json[MaxDepth + n] \subseteq Inner /\ JsonValues \subseteq Inner
  BY PlainGives, InnerHolds
<1>2. CASE f.name \in Keys(pairs)
  <2>1. r = coerce[f.type][ValueAt(pairs, f.name)]
    BY <1>2 DEF CoerceField
  <2>2. ValueAt(pairs, f.name) \in JsonValues
    BY <1>2, ValueAtIn
  <2> HIDE DEF coerce
  <2>3. ~Failed(coerce[f.type][ValueAt(pairs, f.name)])
    BY <2>1 DEF coerce
  <2> QED BY <1>1, <2>1, <2>2, <2>3 DEF Gives, coerce
<1>3. CASE f.name \notin Keys(pairs) /\ f.default = Required
  <2>1. r = Invalid
    BY <1>3 DEF CoerceField
  <2> QED BY <2>1, OkHolds
<1>4. CASE f.name \notin Keys(pairs) /\ f.default # Required
  <2>1. r = Ok(f.default)
    BY <1>4 DEF CoerceField
  <2> QED BY <1>1, <1>4, <2>1, OkHolds
<1> QED BY <1>2, <1>3, <1>4

\* An object of a class that a column keeps.
LEMMA ModelShape ==
  ASSUME NEW n \in 0..MaxDepth, NEW T \in Types, T[1] = "model", StorableBare(T),
         NEW pairs \in Seq(STRING \X JsonValues),
         ~Failed(ValidateModel(T[2], pairs, Coerce[n]))
  PROVE  Shape(T, ValidateModel(T[2], pairs, Coerce[n])[2])
<1> DEFINE c == T[2]
           k == Len(Models[c])
           coerce == Coerce[n]
           r == ValidateModel(c, pairs, coerce)
           rs == [i \in DOMAIN Models[c] |-> CoerceField(Models[c][i], pairs, coerce)]
           fields == Collect(rs)
<1>1. c \in DOMAIN Models
  BY TypesClosed
<1>2. k \in Nat /\ DOMAIN Models[c] = 1..k
  BY <1>1, FieldsTyped
<1>3. r = IF ~(Keys(pairs) \subseteq FieldNames(c)) THEN Invalid ELSE IF Failed(fields) THEN fields
          ELSE Ok(<<"obj", c, fields[2]>>)
  BY DEF ValidateModel
<1>4. ~Failed(fields) /\ r = Ok(<<"obj", c, fields[2]>>)
  BY <1>3, OkHolds
<1>5. ASSUME NEW i \in 1..k, ~Failed(rs[i]) PROVE rs[i][2] \in Inner
  <2>1. i \in DOMAIN Models[c] /\ rs[i] = CoerceField(Models[c][i], pairs, coerce)
    BY <1>2
  <2>2. Models[c][i].type \in Plain[MaxDepth] /\ Models[c][i].default \in {Required} \cup JsonValues
    BY <2>1 DEF StorableBare, Elements
  <2> HIDE DEF rs
  <2> QED BY <1>1, <1>5, <2>1, <2>2, FieldPlain
<1>6. DOMAIN rs = 1..k /\ Yields(rs, k, Inner)
  BY <1>2, <1>5 DEF Yields
<1> HIDE DEF rs, k
<1>7. fields[2] \in Seq(Inner) /\ DOMAIN fields[2] = DOMAIN Models[c]
  BY <1>2, <1>4, <1>6, CollectedIn DEF ListOf
<1> HIDE DEF fields
<1>8. r[2] = <<"obj", c, fields[2]>>
  BY <1>4, OkHolds
<1> HIDE DEF r
<1>9. Shape(T, r[2])
  BY <1>7, <1>8 DEF Shape
<1> QED BY <1>9 DEF r

\* What the validator makes of a type that a column keeps.
LEMMA BareShape ==
  ASSUME NEW n \in 0..MaxDepth, NEW T \in Types, StorableBare(T), NEW v \in JsonValues, ~Failed(Coerce[n][T][v])
  PROVE  Shape(T, Coerce[n][T][v][2])
<1> DEFINE coerce == Coerce[n - 1]
           r == Coerce[n][T][v]
<1>1. n \in 1..MaxDepth /\ n - 1 \in 0..MaxDepth
  <2>1. n # 0
    BY CoerceLevels, OkHolds DEF CoerceNever
  <2> QED BY <2>1, Bounds
<1>2. r = CoerceNested(coerce)[T][v]
  BY <1>1, CoerceLevels
<1>3. \A U \in Plain[MaxDepth] : Gives(coerce[U], Inner)
  <2>1. \A U \in Plain[MaxDepth] : Gives(coerce[U], Json[MaxDepth + (n - 1)])
    BY <1>1, PlainGives
  <2>2. Json[MaxDepth + (n - 1)] \subseteq Inner
    BY <1>1, InnerHolds
  <2> QED BY <2>1, <2>2 DEF Gives
<1>4. CASE T[1] \in {"bool", "int", "float", "str", "bytes"}
  <2>1. r = CoerceScalar(v, T)
    BY <1>2, <1>4, CoerceCases
  <2> QED BY <1>4, <2>1, ScalarShape
<1>5. CASE T[1] \in {"list", "tuple"} /\ T[2] \in Plain[MaxDepth] \ {NoneType}
  <2> HIDE DEF coerce
  <2>1. r = CoerceItems(v, T[1], T[2], coerce)
    BY <1>2, <1>5, CoerceCases
  <2>2. T[2] \in Types /\ Gives(coerce[T[2]], Inner)
    BY <1>3, <1>5, PlainParts
  <2>3. CoerceItems(v, T[1], T[2], coerce)[2] \in {T[1]} \X Seq(Inner)
    <3>1. ~Failed(CoerceItems(v, T[1], T[2], coerce))
      BY <2>1
    <3> QED BY <1>5, <2>2, <3>1, ItemsGive
  <2> QED BY <1>5, <2>1, <2>3 DEF Shape
<1>6. CASE T[1] = "dict" /\ T[2] \in Plain[MaxDepth] \ {NoneType}
  <2> HIDE DEF coerce
  <2>1. r = CoerceDict(v, T[2], coerce)
    BY <1>2, <1>6, CoerceCases
  <2>2. T[2] \in Types /\ Gives(coerce[T[2]], Inner)
    BY <1>3, <1>6, PlainParts
  <2>3. CoerceDict(v, T[2], coerce)[2] \in {"dict"} \X Seq(STRING \X Inner)
    <3>1. ~Failed(CoerceDict(v, T[2], coerce))
      BY <2>1
    <3> QED BY <2>2, <3>1, DictGives
  <2> QED BY <1>6, <2>1, <2>3 DEF Shape
<1>7. CASE T[1] = "model"
  <2>1. r = IF v[1] = "dict" THEN ValidateModel(T[2], v[2], coerce) ELSE Invalid
    BY <1>2, <1>7, CoerceCases
  <2>2. v[1] = "dict" /\ r = ValidateModel(T[2], v[2], coerce)
    BY <2>1, OkHolds
  <2>3. v[2] \in Seq(STRING \X JsonValues)
    BY <2>2, JsonTag
  <2> QED BY <1>1, <1>7, <2>2, <2>3, ModelShape
<1> QED BY <1>4, <1>5, <1>6, <1>7 DEF StorableBare

\* What is made of that is a Python value.
LEMMA AroundInner ==
  ASSUME NEW s \in Seq(Inner)
  PROVE  /\ <<"tuple", s>> \in PythonValues /\ <<"list", s>> \in Deep
         /\ \A m \in DOMAIN Models : <<"obj", m, s>> \in PythonValues
<1> DEFINE A == Python[MaxLevels - 1]
<1>1. /\ MaxLevels \in 1..MaxLevels /\ MaxLevels - 1 \in 0..MaxLevels
      /\ MaxDepth + (MaxLevels - 1) = MaxNesting - 1
  BY Bounds
<1>2. Inner \subseteq A
  BY <1>1, JsonIsPython DEF Inner
<1>3. PythonValues = PythonAround(A)
  BY <1>1, PythonLevels DEF PythonValues
<1> HIDE DEF A
<1>4. s \in Seq(A)
  BY <1>2, SeqWiden
<1>5. <<"tuple", s>> \in {"list", "tuple"} \X Seq(A)
  BY <1>4
<1>6. ASSUME NEW m \in DOMAIN Models PROVE <<"obj", m, s>> \in {"obj"} \X (DOMAIN Models) \X Seq(A)
  BY <1>4
<1>7. <<"list", s>> \in JsonAround(Inner)
  BY DEF JsonAround
<1> QED BY <1>3, <1>5, <1>6, <1>7, InnerHolds DEF PythonAround

\* A parameter that is not written as JSON.
LEMMA EncodedAsIs ==
  ASSUME NEW x \in PythonValues, x[1] \notin {"obj", "list", "tuple", "dict", "set", "bool"}
  PROVE  Gets(EncodeValue(x), x)
<1> DEFINE inner == AsDict[MaxNesting - 1]
<1>1. AsDict[MaxNesting] = AsDictNested(inner)
  BY Bounds, AsDictLevels
<1> HIDE DEF inner
<1>2. AsDict[MaxNesting][x] = x
  BY <1>1 DEF AsDictNested
<1>3. EncodeValue(x) = Ok(x) \/ EncodeValue(x) = Raised
  BY <1>2 DEF EncodeValue
<1> QED BY <1>3, OkHolds DEF Gets

\* A truth value is written as a number.
LEMMA EncodedBool ==
  ASSUME NEW b \in BOOLEAN
  PROVE  EncodeValue(<<"bool", b>>) = Ok(<<"int", IF b THEN 1 ELSE 0>>)
<1>1. AsDict[MaxNesting][<<"bool", b>>] = <<"bool", b>>
  <2>1. <<"bool", b>> \in Deep /\ MaxNesting \in 0..MaxNesting
    BY JsonHolds, DeepIsPython, Bounds
  <2> QED BY <2>1, AsDictKeeps
<1> QED BY <1>1 DEF EncodeValue, Lone

\* A list or a dict is written as JSON,
LEMMA EncodedDeep ==
  ASSUME NEW x \in Deep, x[1] \in {"list", "dict"}
  PROVE  Gets(EncodeValue(x), Text(<<"json", x>>))
<1> DEFINE json == Dumps[MaxNesting][x]
<1>1. AsDict[MaxNesting][x] = x /\ Gets(json, x)
  <2>1. MaxNesting \in 0..MaxNesting
    BY Bounds
  <2> QED BY <2>1, AsDictKeeps, DumpsKeeps
<1>2. EncodeValue(x) = IF Failed(json) THEN json ELSE Ok(Text(<<"json", json[2]>>))
  BY <1>1 DEF EncodeValue, Lone
<1> HIDE DEF json
<1> QED BY <1>1, <1>2, OkHolds DEF Gets

\* a tuple as a list,
LEMMA EncodedTuple ==
  ASSUME NEW s \in Seq(Inner)
  PROVE  Gets(EncodeValue(<<"tuple", s>>), Text(<<"json", <<"list", s>>>>))
<1> DEFINE x == <<"tuple", s>>
           inner == AsDict[MaxNesting - 1]
           write == Dumps[MaxNesting - 1]
           rs == [i \in DOMAIN s |-> write[s[i]]]
           k == Len(s)
<1>1. MaxNesting \in 1..MaxNesting /\ MaxNesting - 1 \in 0..MaxNesting
  BY Bounds
<1>2. k \in Nat /\ DOMAIN s = 1..k /\ s = [i \in 1..k |-> s[i]] /\ \A i \in 1..k : s[i] \in Deep
  BY SeqItems, InnerHolds
<1>3. \A u \in Deep : inner[u] = u /\ Gets(write[u], u)
  BY <1>1, AsDictKeeps, DumpsKeeps
<1>4. AsDict[MaxNesting] = AsDictNested(inner) /\ Dumps[MaxNesting] = DumpsNested(write)
  BY <1>1, AsDictLevels, DumpsLevels
<1>5. x \in PythonValues /\ x[1] = "tuple" /\ x[2] = s
  BY AroundInner
<1> HIDE DEF inner, write, x
<1>6. AsDict[MaxNesting][x] = <<"tuple", [i \in DOMAIN s |-> inner[s[i]]]>>
  <2>1. AsDictNested(inner)[x] = <<x[1], [i \in DOMAIN x[2] |-> inner[x[2][i]]]>>
    BY <1>5 DEF AsDictNested
  <2> QED BY <1>4, <1>5, <2>1
<1>7. [i \in DOMAIN s |-> inner[s[i]]] = s
  BY <1>2, <1>3
<1>8. AsDict[MaxNesting][x] = x
  BY <1>6, <1>7 DEF x
<1>9. Dumps[MaxNesting][x] = IF Failed(Collect(rs)) THEN Collect(rs) ELSE Ok(<<"list", Collect(rs)[2]>>)
  <2> DEFINE items == Collect([i \in DOMAIN x[2] |-> write[x[2][i]]])
  <2>1. DumpsNested(write)[x] = IF Failed(items) THEN items ELSE Ok(<<"list", items[2]>>)
    BY <1>5 DEF DumpsNested, Lone
  <2>2. items = Collect(rs)
    BY <1>5
  <2> QED BY <1>4, <2>1, <2>2
<1>10. Gets(Collect(rs), s)
  <2>1. DOMAIN rs = 1..k /\ \A i \in 1..k : Gets(rs[i], s[i])
    BY <1>2, <1>3
  <2> HIDE DEF rs, k
  <2>2. ASSUME ~Failed(Collect(rs)) PROVE Collect(rs) = Ok(s)
    BY <1>2, <2>1, <2>2, CollectedSame
  <2> QED BY <2>2 DEF Gets
<1> HIDE DEF rs
<1> DEFINE json == Dumps[MaxNesting][x]
<1>11. Gets(json, <<"list", s>>)
  BY <1>9, <1>10, OkHolds DEF Gets
<1>12. EncodeValue(x) = IF Failed(json) THEN json ELSE Ok(Text(<<"json", json[2]>>))
  BY <1>5, <1>8 DEF EncodeValue, Lone
<1> HIDE DEF json
<1>13. Gets(EncodeValue(x), Text(<<"json", <<"list", s>>>>))
  BY <1>11, <1>12, OkHolds DEF Gets
<1> QED BY <1>13 DEF x

\* and an object as the dict of its fields.
LEMMA EncodedObject ==
  ASSUME NEW m \in DOMAIN Models, NEW s \in Seq(Inner), DOMAIN s = DOMAIN Models[m]
  PROVE  Gets(EncodeValue(<<"obj", m, s>>),
              Text(<<"json", <<"dict", [i \in DOMAIN s |-> <<Models[m][i].name, s[i]>>]>>>>))
<1> DEFINE x == <<"obj", m, s>>
           inner == AsDict[MaxNesting - 1]
           pairs == [i \in DOMAIN s |-> <<Models[m][i].name, s[i]>>]
           d == <<"dict", pairs>>
           k == Len(s)
<1>1. MaxNesting \in 1..MaxNesting /\ MaxNesting - 1 \in 0..MaxNesting /\ MaxNesting \in 0..MaxNesting
  BY Bounds
<1>2. k \in Nat /\ DOMAIN s = 1..k /\ \A i \in 1..k : s[i] \in Inner
  BY SeqItems
<1>3. \A u \in Inner : inner[u] = u
  BY <1>1, AsDictKeeps, InnerHolds
<1>4. AsDict[MaxNesting] = AsDictNested(inner)
  BY <1>1, AsDictLevels
<1>5. x \in PythonValues /\ x[1] = "obj" /\ x[2] = m /\ x[3] = s
  BY AroundInner
<1> HIDE DEF inner, x
<1>6. AsDict[MaxNesting][x] = <<"dict", [i \in DOMAIN s |-> <<Models[m][i].name, inner[s[i]]>>]>>
  <2>1. AsDictNested(inner)[x] = <<"dict", [i \in DOMAIN x[3] |-> <<Models[x[2]][i].name, inner[x[3][i]]>>]>>
    BY <1>5 DEF AsDictNested
  <2> QED BY <1>4, <1>5, <2>1
<1>7. [i \in DOMAIN s |-> <<Models[m][i].name, inner[s[i]]>>] = pairs
  BY <1>2, <1>3
<1>8. AsDict[MaxNesting][x] = d
  BY <1>6, <1>7
<1>9. pairs \in Seq(STRING \X Inner)
  <2>1. \A i \in DOMAIN Models[m] : Models[m][i].name \in STRING
    <3>1. /\ Models[m] \in Seq([name : STRING, type : Types, default : {Required} \cup Python[MaxDepth]])
      BY FieldsTyped
    <3>2. \A i \in DOMAIN Models[m] :
            Models[m][i] \in [name : STRING, type : Types, default : {Required} \cup Python[MaxDepth]]
      BY <3>1, SeqItems
    <3> QED BY <3>2
  <2>2. \A i \in 1..k : <<Models[m][i].name, s[i]>> \in STRING \X Inner
    BY <1>2, <2>1
  <2>3. pairs = [i \in 1..k |-> <<Models[m][i].name, s[i]>>]
    BY <1>2
  <2>4. \A i \in 1..k : pairs[i] \in STRING \X Inner
    BY <2>2, <2>3
  <2>5. pairs = [i \in 1..k |-> pairs[i]]
    BY <2>3
  <2> HIDE DEF pairs, k
  <2> QED BY <1>2, <2>4, <2>5, SeqMade
<1> HIDE DEF pairs
<1>10. d \in Deep /\ d[1] = "dict"
  <2>1. d \in JsonAround(Inner)
    BY <1>9 DEF JsonAround
  <2> QED BY <2>1, InnerHolds
<1> DEFINE json == Dumps[MaxNesting][d]
<1>11. Gets(json, d)
  BY <1>1, <1>10, DumpsKeeps
<1> HIDE DEF d
<1>12. EncodeValue(x) = IF Failed(json) THEN json ELSE Ok(Text(<<"json", json[2]>>))
  BY <1>8, <1>10 DEF EncodeValue, Lone
<1> HIDE DEF json
<1>13. Gets(EncodeValue(x), Text(<<"json", d>>))
  BY <1>11, <1>12, OkHolds DEF Gets
<1> QED BY <1>13 DEF x, d, pairs

\* The column of a type that is not optional.
ColumnOf(U) ==
  IF U[1] \in {"int", "bool"} THEN "INTEGER"
  ELSE IF U[1] = "float" THEN "REAL" ELSE IF U[1] = "bytes" THEN "BLOB" ELSE "TEXT"
HasColumn(T) == SqliteType(T) = ColumnOf(Bare(T))

\* What a column of the declared type T makes of x: a NaN comes back as None.
ReadBack(T, x) == DecodeColumn(Affinity(EncodeValue(x)[2], SqliteType(T)), T)
ComesBack(T, x) == ReadBack(T, x) = Ok(IF x = NaN THEN None ELSE x)

\* None is read back as None, whatever the type.
LEMMA NoneKept ==
  ASSUME NEW T, HasColumn(T), ~Failed(EncodeValue(None))
  PROVE  ComesBack(T, None)
<1>1. None \in PythonValues /\ None[1] = "none"
  BY JsonHolds, DeepIsPython DEF None
<1>2. EncodeValue(None) = Ok(None)
  BY <1>1, EncodedAsIs DEF Gets
<1>3. Affinity(None, SqliteType(T)) = None
  <2>1. SqliteType(T) \in {"INTEGER", "REAL", "BLOB", "TEXT"}
    BY DEF HasColumn, ColumnOf
  <2> QED BY <2>1 DEF Affinity, None
<1>4. DecodeColumn(None, T) = Ok(None)
  BY DEF DecodeColumn, Loads
<1>5. EncodeValue(None)[2] = None
  BY <1>2, OkHolds
<1>6. ReadBack(T, None) = DecodeColumn(None, T)
  BY <1>3, <1>5 DEF ReadBack
<1> QED BY <1>4, <1>6 DEF ComesBack

\* A scalar is read back as it was,
LEMMA ScalarRead ==
  ASSUME NEW T, HasColumn(T), Bare(T)[1] \in {"bool", "int", "float", "str", "bytes"},
         NEW x, Shape(Bare(T), x), ~Failed(EncodeValue(x))
  PROVE  ComesBack(T, x)
<1> DEFINE U == Bare(T)
<1>1. CASE U[1] = "bool"
  <2>1. x = <<"bool", x[2]>> /\ x[2] \in BOOLEAN
    BY <1>1 DEF Shape
  <2>2. PICK b \in BOOLEAN : x = <<"bool", b>>
    BY <2>1
  <2> DEFINE c == <<"int", IF b THEN 1 ELSE 0>>
  <2>3. EncodeValue(x) = Ok(c)
    BY <2>2, EncodedBool
  <2>4. SqliteType(T) = "INTEGER"
    BY <1>1 DEF HasColumn, ColumnOf
  <2>5. Affinity(c, "INTEGER") = c
    BY DEF Affinity, NaN
  <2>6. DecodeColumn(c, T) = Ok(<<"bool", c # <<"int", 0>>>>)
    BY <1>1 DEF DecodeColumn, Sequenced, Loads, None
  <2>7. (c # <<"int", 0>>) = b
    BY <2>2
  <2>8. x # NaN
    BY <2>2 DEF NaN
  <2> HIDE DEF c
  <2> QED BY <2>2, <2>3, <2>4, <2>5, <2>6, <2>7, <2>8, OkHolds DEF ReadBack, ComesBack
<1>2. CASE U[1] = "int"
  <2>1. x = <<"int", x[2]>> /\ x[2] \in Int
    BY <1>2 DEF Shape
  <2>2. PICK k \in Int : x = <<"int", k>>
    BY <2>1
  <2>3. x \in PythonValues /\ x[1] = "int"
    BY <2>2, JsonHolds, DeepIsPython
  <2>4. EncodeValue(x) = Ok(x)
    BY <2>3, EncodedAsIs DEF Gets
  <2>5. SqliteType(T) = "INTEGER"
    BY <1>2 DEF HasColumn, ColumnOf
  <2>6. Affinity(x, "INTEGER") = x
    BY <2>3 DEF Affinity, NaN
  <2>7. DecodeColumn(x, T) = CoerceInt(x)
    BY <1>2, <2>3 DEF DecodeColumn, Sequenced, Loads, None
  <2>8. CoerceInt(x) = Ok(x)
    BY <2>3 DEF CoerceInt
  <2>9. x # NaN
    BY <2>2 DEF NaN
  <2> QED BY <2>4, <2>5, <2>6, <2>7, <2>8, <2>9, OkHolds DEF ReadBack, ComesBack
<1>3. CASE U[1] = "float"
  <2>1. x = <<"inf">> \/ x = NaN \/ (x = <<"float", x[2]>> /\ x[2] \in Int)
    BY <1>3 DEF Shape
  <2>2. x \in PythonValues /\ x[1] \in {"inf", "nan", "float"} /\ (x[1] = "nan" <=> x = NaN)
    <3>1. CASE x = <<"inf">>
      <4>1. x \in JsonScalars
        BY <3>1 DEF JsonScalars
      <4> QED BY <3>1, <4>1, JsonHolds, DeepIsPython DEF NaN
    <3>2. CASE x = <<"float", x[2]>> /\ x[2] \in Int
      <4>1. PICK k \in Int : x = <<"float", k>>
        BY <3>2
      <4> QED BY <4>1, JsonHolds, DeepIsPython DEF NaN
    <3>3. CASE x = NaN
      <4>1. x \in JsonScalars
        BY <3>3 DEF JsonScalars, NaN
      <4> QED BY <3>3, <4>1, JsonHolds, DeepIsPython DEF NaN
    <3> QED BY <2>1, <3>1, <3>2, <3>3
  <2>3. EncodeValue(x) = Ok(x)
    BY <2>2, EncodedAsIs DEF Gets
  <2>4. SqliteType(T) = "REAL"
    BY <1>3 DEF HasColumn, ColumnOf
  <2>5. CASE x = NaN
    <3>1. Affinity(x, "REAL") = None
      BY <2>5 DEF Affinity
    <3>2. DecodeColumn(None, T) = Ok(None)
      BY DEF DecodeColumn, Loads
    <3> QED BY <2>3, <2>4, <2>5, <3>1, <3>2, OkHolds DEF ReadBack, ComesBack
  <2>6. CASE x # NaN
    <3>1. Affinity(x, "REAL") = x
      BY <2>2, <2>6 DEF Affinity
    <3>2. DecodeColumn(x, T) = CoerceFloat(x)
      BY <1>3, <2>2, <2>6 DEF DecodeColumn, Sequenced, Loads, None
    <3>3. CoerceFloat(x) = Ok(x)
      BY <2>2 DEF CoerceFloat
    <3> QED BY <2>3, <2>4, <2>6, <3>1, <3>2, <3>3, OkHolds DEF ReadBack, ComesBack
  <2> QED BY <2>5, <2>6
<1>4. CASE U[1] \in {"str", "bytes"}
  <2>1. x = <<U[1], x[2]>> /\ x \in PythonValues
    BY <1>4 DEF Shape
  <2>2. x[1] = U[1]
    BY <2>1
  <2>3. EncodeValue(x) = Ok(x)
    BY <1>4, <2>1, <2>2, EncodedAsIs DEF Gets
  <2>4. SqliteType(T) = (IF U[1] = "str" THEN "TEXT" ELSE "BLOB")
    BY <1>4 DEF HasColumn, ColumnOf
  <2>5. Affinity(x, SqliteType(T)) = x
    BY <1>4, <2>2, <2>4 DEF Affinity, NaN
  <2>6. DecodeColumn(x, T) = Ok(x)
    BY <1>4, <2>2 DEF DecodeColumn, Sequenced, Loads, None
  <2>7. x # NaN
    BY <1>4, <2>2 DEF NaN
  <2> QED BY <2>3, <2>5, <2>6, <2>7, OkHolds DEF ReadBack, ComesBack
<1> QED BY <1>1, <1>2, <1>3, <1>4

\* and so is what was written as JSON: data is what json.loads makes of it.
Written(x, data) == Gets(EncodeValue(x), Text(<<"json", data>>))

\* A container is read back as what json.loads gives, a tuple as a tuple.
LEMMA JsonRead ==
  ASSUME NEW T, HasColumn(T), NEW x, NEW data, Written(x, data), ~Failed(EncodeValue(x))
  PROVE  /\ Bare(T)[1] \in {"list", "dict"} => ReadBack(T, x) = Ok(data)
         /\ Bare(T)[1] = "tuple" => ReadBack(T, x) = Ok(<<"tuple", data[2]>>)
         /\ Bare(T)[1] = "model" =>
              ReadBack(T, x) = Ok(<<"obj", Bare(T)[2], [i \in DOMAIN data[2] |-> data[2][i][2]]>>)
<1> DEFINE c == Text(<<"json", data>>)
           U == Bare(T)
<1>1. EncodeValue(x)[2] = c
  BY OkHolds DEF Written, Gets
<1>2. c[1] = "str" /\ c[2] = <<"json", data>> /\ c # None /\ c[2][1] = "json" /\ c[2][2] = data
  BY DEF Text, None
<1> HIDE DEF c
<1>3. ASSUME U[1] \in {"list", "tuple", "dict", "model"} PROVE ReadBack(T, x) = DecodeColumn(c, T)
  <2>1. SqliteType(T) = "TEXT"
    BY <1>3 DEF HasColumn, ColumnOf
  <2>2. Affinity(c, "TEXT") = c
    BY <1>2 DEF Affinity, NaN
  <2> QED BY <1>1, <2>1, <2>2 DEF ReadBack
<1>4. ~Failed(Ok(data)) /\ Ok(data)[2] = data
  BY OkHolds
<1>5. CASE U[1] = "model"
  <2>1. DecodeColumn(c, T) = Ok(<<"obj", U[2], [i \in DOMAIN data[2] |-> data[2][i][2]]>>)
    BY <1>2, <1>4, <1>5 DEF DecodeColumn, Loads
  <2> QED BY <1>1, <1>3, <1>5, <2>1
<1>6. CASE U[1] = "tuple"
  <2>1. DecodeColumn(c, T) = Ok(<<"tuple", data[2]>>)
    BY <1>2, <1>4, <1>6 DEF DecodeColumn, Loads, Sequenced
  <2> QED BY <1>1, <1>3, <1>6, <2>1
<1>7. CASE U[1] \in {"list", "dict"}
  <2>1. DecodeColumn(c, T) = Ok(data)
    BY <1>2, <1>4, <1>7 DEF DecodeColumn, Loads, Sequenced
  <2> QED BY <1>1, <1>3, <1>7, <2>1
<1> QED BY <1>1, <1>5, <1>6, <1>7

\* A value that a column keeps is read back as it was.
LEMMA RoundTrip ==
  ASSUME NEW T, HasColumn(T), Bare(T) \in Types, NEW x, x = None \/ Shape(Bare(T), x), ~Failed(EncodeValue(x))
  PROVE  ComesBack(T, x)
<1> DEFINE U == Bare(T)
<1>1. CASE x = None
  BY <1>1, NoneKept
<1>2. CASE Shape(U, x) /\ U[1] \in {"bool", "int", "float", "str", "bytes"}
  BY <1>2, ScalarRead
<1>3. CASE Shape(U, x) /\ U[1] = "list"
  <2>1. PICK s \in Seq(Inner) : x = <<"list", s>>
    BY <1>3 DEF Shape
  <2>2. x \in Deep /\ x[1] = "list"
    BY <2>1, AroundInner
  <2>3. Written(x, x)
    BY <2>2, EncodedDeep DEF Written
  <2>4. x # NaN
    BY <2>2 DEF NaN
  <2>5. ReadBack(T, x) = Ok(x)
    BY <1>3, <2>3, JsonRead
  <2> QED BY <2>4, <2>5 DEF ComesBack
<1>4. CASE Shape(U, x) /\ U[1] = "dict"
  <2>1. x = <<"dict", x[2]>> /\ x[2] \in Seq(STRING \X Inner)
    BY <1>4 DEF Shape
  <2>2. x \in Deep /\ x[1] = "dict"
    <3>1. x \in JsonAround(Inner)
      BY <2>1 DEF JsonAround
    <3> QED BY <2>1, <3>1, InnerHolds
  <2>3. Written(x, x)
    BY <2>2, EncodedDeep DEF Written
  <2>4. x # NaN
    BY <2>2 DEF NaN
  <2>5. ReadBack(T, x) = Ok(x)
    BY <1>4, <2>3, JsonRead
  <2> QED BY <2>4, <2>5 DEF ComesBack
<1>5. CASE Shape(U, x) /\ U[1] = "tuple"
  <2>1. PICK s \in Seq(Inner) : x = <<"tuple", s>>
    BY <1>5 DEF Shape
  <2> DEFINE data == <<"list", s>>
  <2>2. Written(x, data)
    BY <2>1, EncodedTuple DEF Written
  <2>3. data[2] = s
    OBVIOUS
  <2> HIDE DEF data
  <2>4. ReadBack(T, x) = Ok(<<"tuple", data[2]>>)
    BY <1>5, <2>2, JsonRead
  <2>5. x # NaN
    BY <2>1 DEF NaN
  <2> QED BY <2>1, <2>3, <2>4, <2>5 DEF ComesBack
<1>6. CASE Shape(U, x) /\ U[1] = "model"
  <2>1. x = <<"obj", U[2], x[3]>> /\ x[3] \in Seq(Inner) /\ DOMAIN x[3] = DOMAIN Models[U[2]]
    BY <1>6 DEF Shape
  <2>2. U[2] \in DOMAIN Models
    BY <1>6, TypesClosed
  <2> DEFINE m == U[2]
             s == x[3]
             pairs == [i \in DOMAIN s |-> <<Models[m][i].name, s[i]>>]
             data == <<"dict", pairs>>
  <2>3. s \in Seq(Inner) /\ DOMAIN s = DOMAIN Models[m] /\ x = <<"obj", m, s>> /\ m \in DOMAIN Models
    BY <2>1, <2>2
  <2>4. data[2] = pairs /\ DOMAIN pairs = DOMAIN s /\ \A i \in DOMAIN s : pairs[i][2] = s[i]
    OBVIOUS
  <2> HIDE DEF m, s
  <2>5. Written(x, data)
    BY <2>3, EncodedObject DEF Written
  <2> HIDE DEF data, pairs
  <2>6. ReadBack(T, x) = Ok(<<"obj", U[2], [i \in DOMAIN data[2] |-> data[2][i][2]]>>)
    BY <1>6, <2>5, JsonRead
  <2>7. s = [i \in DOMAIN s |-> s[i]]
    BY <2>3
  <2>8. [i \in DOMAIN data[2] |-> data[2][i][2]] = s
    BY <2>4, <2>7
  <2>9. x # NaN
    BY <2>3 DEF NaN
  <2> QED BY <2>3, <2>6, <2>8, <2>9 DEF m, ComesBack
<1> QED BY <1>1, <1>2, <1>3, <1>4, <1>5, <1>6, TypesClosed DEF Shape

\* The type that a column keeps, optional or not.
LEMMA BareOf ==
  ASSUME NEW T \in Types, Storable(T)
  PROVE  /\ Bare(T) \in Types /\ StorableBare(Bare(T)) /\ ~IsOptional(Bare(T))
         /\ \/ Bare(T) = T
            \/ /\ T[1] = "union" /\ IsOptional(T) /\ Bare(T) = First(Args(T)) /\ Bare(T) \in Elements(Args(T))
               /\ \A A \in Elements(T[2]) \ {NoneType} : A = Bare(T)
<1>0. ASSUME NEW U, StorableBare(U) PROVE ~IsOptional(U)
  <2>1. CASE U[1] \in {"list", "tuple", "dict"}
    <3>1. U[2] # NoneType /\ Ellipsis # NoneType /\ <<"str">> # NoneType
      BY <1>0, <2>1 DEF StorableBare, Ellipsis, NoneType
    <3>2. Args(U) = <<U[2]>> \/ Args(U) = <<U[2], Ellipsis>> \/ Args(U) = <<<<"str">>, U[2]>>
      BY <2>1 DEF Args
    <3> QED BY <3>1, <3>2 DEF IsOptional, Elements
  <2>2. CASE U[1] \notin {"list", "tuple", "dict"}
    <3>1. U[1] \notin {"union", "fixed", "list", "set", "tuple", "dict", "mapping"}
      BY <1>0, <2>2 DEF StorableBare
    <3>2. Args(U) = <<>>
      BY <3>1 DEF Args
    <3> QED BY <3>2 DEF IsOptional, Elements
  <2> QED BY <2>1, <2>2
<1>1. CASE StorableBare(T)
  BY <1>0, <1>1 DEF Bare
<1>2. CASE T[1] = "union" /\ Len(T[2]) = 2 /\ T[2][2] = NoneType /\ StorableBare(T[2][1])
  <2> DEFINE s == T[2]
             P(i) == s[i] # NoneType /\ \A j \in 1 .. i - 1 : s[j] = NoneType
  <2>1. s \in Seq(Types) /\ DOMAIN s = 1..2
    BY <1>2, TypesClosed
  <2>2. s[1] # NoneType /\ s[2] = NoneType /\ s[1] \in Types /\ s[1] \in Elements(s) /\ NoneType \in Elements(s)
    BY <1>2, <2>1 DEF StorableBare, NoneType, Elements
  <2> HIDE DEF s
  <2>3. P(1) /\ \A i \in DOMAIN s : P(i) => i = 1
    BY <2>1, <2>2
  <2>4. First(s) = s[CHOOSE i \in DOMAIN s : P(i)]
    BY DEF First
  <2>5. First(s) = s[1]
    <3> HIDE DEF P
    <3> QED BY <2>1, <2>3, <2>4
  <2>6. Args(T) = s /\ IsOptional(T)
    BY <1>2, <2>2 DEF IsOptional, Args, s
  <2>8. Bare(T) = s[1]
    BY <2>5, <2>6 DEF Bare
  <2>7. \A A \in Elements(s) \ {NoneType} : A = s[1]
    BY <2>1, <2>2 DEF Elements
  <2> QED BY <1>0, <1>2, <2>2, <2>5, <2>6, <2>7, <2>8 DEF s
<1> QED BY <1>1, <1>2 DEF Storable

\* Its column, when it has one.
LEMMA BareColumn ==
  ASSUME NEW T \in Types, Storable(T), SqliteType(T) # NoColumn
  PROVE  HasColumn(T)
<1>1. MaxDepth \in 1..MaxDepth /\ MaxDepth - 1 \in 0..MaxDepth
  BY Bounds
<1>2. ASSUME NEW n \in 0..MaxDepth, NEW U \in Types, ~IsOptional(U), SqliteTypes[n][U] # NoColumn
      PROVE  SqliteTypes[n][U] = ColumnOf(U)
  <2>1. n # 0
    BY <1>2, ColumnLevels DEF NoColumns
  <2> DEFINE inner == SqliteTypes[n - 1]
  <2>2. SqliteTypes[n] = SqliteTypeNested(inner)
    BY <2>1, Bounds, ColumnLevels
  <2> HIDE DEF inner
  <2> QED BY <1>2, <2>2 DEF SqliteTypeNested, ColumnOf
<1>3. CASE Bare(T) = T
  <2>1. ~IsOptional(T) /\ MaxDepth \in 0..MaxDepth
    BY <1>3, BareOf, Bounds
  <2> QED BY <1>2, <1>3, <2>1 DEF SqliteType, HasColumn
<1>4. CASE IsOptional(T) /\ Bare(T) = First(Args(T)) /\ Bare(T) \in Elements(Args(T))
  <2> DEFINE inner == SqliteTypes[MaxDepth - 1]
  <2>1. SqliteTypes[MaxDepth] = SqliteTypeNested(inner)
    BY <1>1, ColumnLevels
  <2> HIDE DEF inner
  <2>2. SqliteTypes[MaxDepth][T] = IF Elements(Args(T)) = {NoneType} THEN NoColumn ELSE inner[First(Args(T))]
    BY <1>4, <2>1 DEF SqliteTypeNested
  <2>3. SqliteType(T) = SqliteTypes[MaxDepth - 1][Bare(T)]
    BY <1>4, <2>2 DEF SqliteType, inner
  <2> QED BY <1>1, <1>2, <2>3, BareOf DEF HasColumn
<1> QED BY <1>3, <1>4, BareOf

\* What the validator makes of a value for a column is kept by that column.
LEMMA CoercedKept ==
  ASSUME NEW T \in Types, Storable(T), NEW v \in JsonValues, ~Failed(Coerce[MaxDepth][T][v])
  PROVE  Coerce[MaxDepth][T][v][2] = None \/ Shape(Bare(T), Coerce[MaxDepth][T][v][2])
<1>1. MaxDepth \in 0..MaxDepth /\ MaxDepth - 1 \in 0..MaxDepth /\ MaxDepth \in 1..MaxDepth
  BY Bounds
<1>2. CASE Bare(T) = T
  BY <1>1, <1>2, BareOf, BareShape
<1>3. CASE T[1] = "union" /\ \A A \in Elements(T[2]) \ {NoneType} : A = Bare(T)
  <2> DEFINE coerce == Coerce[MaxDepth - 1]
             r == Coerce[MaxDepth][T][v]
  <2>1. Coerce[MaxDepth] = CoerceNested(coerce)
    BY <1>1, CoerceLevels
  <2>2. r = CoerceUnion(v, T[2], coerce)
    BY <1>3, <2>1, CoerceCases
  <2>3. r # Invalid
    BY OkHolds
  <2> HIDE DEF coerce
  <2>4. CASE r = Ok(None)
    BY <2>4, OkHolds
  <2>5. CASE r = coerce[Bare(T)][v]
    <3>1. ~Failed(Coerce[MaxDepth - 1][Bare(T)][v])
      BY <2>5 DEF coerce
    <3>2. Shape(Bare(T), Coerce[MaxDepth - 1][Bare(T)][v][2])
      BY <1>1, <3>1, BareOf, BareShape
    <3> QED BY <2>5, <3>2 DEF coerce
  <2> QED BY <1>3, <2>2, <2>3, <2>4, <2>5, UnionGives
<1> QED BY <1>2, <1>3, BareOf

\* An object or a row of the class, with a value that its column keeps.
Keep(m, x) == \E y : x = <<m, y>> /\ (y = None \/ Shape(Bare(TypeOfP(m)), y))

\* The columns are those of ModelColumns.
ColumnsOfP ==
  /\ \A x : Encode(x) = EncodeP(x) /\ Writable(x) = WritableP(x)
  /\ \A c : Decode(c) = DecodeP(c) /\ Readable(c) = ReadableP(c)

\* Such a value, when it can be written, is read back as it was, or as None.
LEMMA KeptRead ==
  ASSUME ColumnsOfP, NEW m \in Classes, Storable(TypeOfP(m)), NEW x, Keep(m, x), Writable(x)
  PROVE  /\ Keep(m, Decode(Encode(x)))
         /\ x[2] # NaN => ReadableP(Encode(x)) /\ DecodeP(Encode(x)) = x
<1> DEFINE T == TypeOfP(m)
<1>1. T \in Types /\ Bare(T) \in Types
  <2>1. m \in DOMAIN Models /\ 2 \in DOMAIN Models[m]
    BY ApiAssumption, FieldsTyped
  <2>2. T \in Types
    BY <2>1, FieldsTyped DEF TypeOfP
  <2> QED BY <2>2, BareOf
<1>2. PICK y : x = <<m, y>> /\ (y = None \/ Shape(Bare(T), y))
  BY DEF Keep
<1>3. SqliteType(T) # NoColumn /\ ~Failed(EncodeValue(y))
  <2>1. WritableP(x)
    BY DEF ColumnsOfP
  <2> QED BY <1>2, <2>1 DEF WritableP
<1>4. ComesBack(T, y)
  BY <1>1, <1>2, <1>3, BareColumn, RoundTrip
<1> DEFINE c == Affinity(EncodeValue(y)[2], SqliteType(T))
           z == IF y = NaN THEN None ELSE y
<1>5. Encode(x) = <<m, c>>
  BY <1>2 DEF ColumnsOfP, EncodeP
<1>6. DecodeColumn(c, T) = Ok(z)
  BY <1>4 DEF ComesBack, ReadBack
<1>7. z = None \/ Shape(Bare(T), z)
  BY <1>2
<1>8. y # NaN => z = y
  OBVIOUS
<1> HIDE DEF c, z
<1>9. ReadableP(<<m, c>>) /\ DecodeP(<<m, c>>) = <<m, z>>
  BY <1>6, OkHolds DEF ReadableP, DecodeP
<1>10. Decode(Encode(x)) = <<m, z>>
  BY <1>5, <1>9 DEF ColumnsOfP
<1> QED BY <1>2, <1>5, <1>7, <1>8, <1>9, <1>10 DEF Keep

\* What a request is validated into is kept.
LEMMA PayloadKept ==
  ASSUME ApiInv, Storable(TypeOfP(cls)), ~Failed(Validated)
  PROVE  Keep(cls, Payload(Validated))
<1> DEFINE T == TypeOfP(cls)
           coerce == Coerce[MaxDepth]
           pairs == body[2]
           rs == [i \in DOMAIN Models[cls] |-> CoerceField(Models[cls][i], pairs, coerce)]
           fields == Collect(rs)
           f == Models[cls][2]
<1>1. /\ cls \in DOMAIN Models /\ Len(Models[cls]) = 2 /\ f.name = "p" /\ f.default = Required
      /\ body \in JsonValues
  BY ApiAssumption DEF ApiInv
<1>2. DOMAIN Models[cls] = 1..2 /\ T \in Types /\ f.type = T
  BY <1>1, FieldsTyped DEF TypeOfP
<1>3. body[1] = "dict" /\ Validated = ValidateModel(cls, pairs, coerce)
  <2>1. Validated = IF body[1] = "dict" THEN ValidateModel(cls, body[2], Coerce[MaxDepth]) ELSE Invalid
    BY DEF Validated, ValidateBody
  <2> QED BY <2>1, OkHolds
<1>4. ~Failed(fields) /\ Validated = Ok(<<"obj", cls, fields[2]>>)
  <2>1. Validated = IF ~(Keys(pairs) \subseteq FieldNames(cls)) THEN Invalid
                    ELSE IF Failed(fields) THEN fields ELSE Ok(<<"obj", cls, fields[2]>>)
    BY <1>3 DEF ValidateModel
  <2> QED BY <2>1, OkHolds
<1>5. ~Failed(rs[2]) /\ fields[2][2] = rs[2][2] /\ rs[2] = CoerceField(f, pairs, coerce)
  <2> DEFINE k == 2
  <2>1. k \in Nat /\ DOMAIN rs = 1..k /\ rs[2] = CoerceField(f, pairs, coerce) /\ 2 \in 1..k
    BY <1>2
  <2> HIDE DEF k, rs
  <2>2. (\A i \in 1..k : ~Failed(rs[i])) /\ fields = Ok([i \in 1..k |-> rs[i][2]])
    BY <1>4, <2>1, Collected
  <2> HIDE DEF fields
  <2>3. fields[2] = [i \in 1..k |-> rs[i][2]]
    BY <2>2, OkHolds
  <2> QED BY <2>1, <2>2, <2>3
<1> HIDE DEF rs, fields
<1>6. "p" \in Keys(pairs) /\ rs[2] = coerce[T][ValueAt(pairs, "p")]
  BY <1>1, <1>2, <1>5, OkHolds DEF CoerceField
<1>7. ValueAt(pairs, "p") \in JsonValues
  BY <1>1, <1>3, <1>6, JsonTag, ValueAtIn
<1>8. rs[2][2] = None \/ Shape(Bare(T), rs[2][2])
  BY <1>2, <1>5, <1>6, <1>7, CoercedKept
<1>9. Payload(Validated) = <<cls, rs[2][2]>>
  BY <1>4, <1>5, OkHolds DEF Payload
<1> QED BY <1>8, <1>9 DEF Keep

\* Every object and every row of the class has a value that its column keeps;
\* a row has the columns of its value, and what a save() has still to insert
\* can be written.
WrittenRow(m, row) == Keep(m, row.saved) /\ Writable(row.saved) /\ row.columns = Encode(row.saved)
ColumnInv(m) ==
  /\ \A t \in Threads : object[t] # NoObject => Keep(m, object[t].value)
  /\ \A t \in missed : Writable(object[t].value)
  /\ \A i \in DOMAIN table : WrittenRow(m, table[i])
LoadInv == \A m \in Classes : cls = m /\ Storable(TypeOfP(m)) => ColumnInv(m)

\* A call of the table keeps that, when the value it is made with has it.
LEMMA ColumnStep ==
  ASSUME ColumnsOfP, NEW m \in Classes, Storable(TypeOfP(m)), TypeInv, SaveHeld, ColumnInv(m), NEW t \in Threads,
         \/ \E v : Keep(m, v) /\ (Insert(t, v) \/ SaveUpdate(t, v))
         \/ SaveInsert(t) \/ Delete(t) \/ \E i \in Ids : Get(t, i)
  PROVE  ColumnInv(m)'
<1> DEFINE K(x) == Keep(m, x)
           W(row) == WrittenRow(m, row)
           W2(x) == Writable(x)
           Objects == \A u \in Threads : object'[u] # NoObject => K(object'[u].value)
           Missed == \A u \in missed' : W2(object'[u].value)
           Rows == \A i \in DOMAIN table' : W(table'[i])
<1>1. ASSUME NEW v, NEW origin, NEW by, K(v), W2(v) PROVE W(RowOf(v, origin, by))
  BY <1>1 DEF RowOf, WrittenRow
<1>2. (\A x : Keep(m, x)' <=> K(x)) /\ (\A x : WrittenRow(m, x)' <=> W(x))
  BY DEF Keep, WrittenRow
<1> SUFFICES Objects /\ Missed /\ Rows
  BY <1>2 DEF ColumnInv
<1>3. /\ \A u \in Threads : object[u] # NoObject => K(object[u].value)
      /\ \A u \in missed : W2(object[u].value)
      /\ \A i \in DOMAIN table : W(table[i])
  BY DEF ColumnInv
<1>4. DOMAIN object = Threads /\ missed \subseteq Threads
  BY DEF TypeInv
<1>10. \A i \in DOMAIN table : K(table[i].saved) /\ Writable(table[i].saved) /\ table[i].columns = Encode(table[i].saved)
  BY <1>3 DEF WrittenRow
<1> HIDE DEF K, W, W2
<1>5. ASSUME NEW v, K(v), Insert(t, v) PROVE Objects /\ Missed /\ Rows
  <2>1. /\ DOMAIN table' = DOMAIN table \cup {NextId}
        /\ \A j \in DOMAIN table' : table'[j] = IF j = NextId THEN RowOf(v, ops + 1, t) ELSE table[j]
    BY <1>5, PutTable DEF Insert
  <2>2. object'[t].value = v /\ \A u \in Threads \ {t} : object'[u] = object[u]
    BY <1>4, <1>5 DEF Insert
  <2>3. missed' = missed /\ t \notin missed /\ W2(v)
    BY <1>5 DEF Insert, Call, W2
  <2>4. W(RowOf(v, ops + 1, t))
    BY <1>1, <1>5, <2>3
  <2> QED BY <1>3, <1>4, <1>5, <2>1, <2>2, <2>3, <2>4
<1>6. ASSUME NEW v, K(v), SaveUpdate(t, v) PROVE Objects /\ Missed /\ Rows
  <2>1. object'[t].value = v /\ \A u \in Threads \ {t} : object'[u] = object[u]
    BY <1>4, <1>6 DEF SaveUpdate, SaveChanged
  <2>2. missed' \subseteq missed \cup {t} /\ W2(v)
    BY <1>6 DEF SaveUpdate, W2
  <2>3. Objects /\ Missed
    BY <1>3, <1>4, <1>6, <2>1, <2>2
  <2>4. CASE object[t].id \in DOMAIN table
    <3> DEFINE row == RowOf(v, table[object[t].id].origin, table[object[t].id].by)
    <3>1. Put(object[t].id, row)
      BY <1>6, <2>4 DEF SaveUpdate, Overwrite
    <3>2. W(row)
      BY <1>1, <1>6, <2>2
    <3> HIDE DEF row
    <3>3. /\ DOMAIN table' = DOMAIN table \cup {object[t].id}
          /\ \A j \in DOMAIN table' : table'[j] = IF j = object[t].id THEN row ELSE table[j]
      BY <3>1, PutTable
    <3> QED BY <1>3, <2>3, <3>2, <3>3
  <2>5. CASE object[t].id \notin DOMAIN table
    <3>1. table' = table
      BY <1>6, <2>5 DEF SaveUpdate
    <3> QED BY <1>3, <2>3, <3>1
  <2> QED BY <2>4, <2>5
<1>7. ASSUME SaveInsert(t) PROVE Objects /\ Missed /\ Rows
  <2>1. object' = object /\ missed' \subseteq missed /\ K(object[t].value) /\ W2(object[t].value)
    <3>1. object[t] # NoObject /\ t \in missed
      BY <1>7 DEF SaveInsert, SaveHeld
    <3> QED BY <1>3, <1>7, <3>1 DEF SaveInsert
  <2>2. Objects /\ Missed
    BY <1>3, <2>1
  <2>3. CASE object[t].id \in DOMAIN table
    <3>1. table' = table
      BY <1>7, <2>3 DEF SaveInsert
    <3> QED BY <1>3, <2>2, <3>1
  <2>4. CASE object[t].id \notin DOMAIN table
    <3> DEFINE row == RowOf(object[t].value, object[t].origin, t)
    <3>1. Put(object[t].id, row)
      BY <1>7, <2>4 DEF SaveInsert
    <3>2. W(row)
      BY <1>1, <2>1
    <3> HIDE DEF row
    <3>3. /\ DOMAIN table' = DOMAIN table \cup {object[t].id}
          /\ \A j \in DOMAIN table' : table'[j] = IF j = object[t].id THEN row ELSE table[j]
      BY <3>1, PutTable
    <3> QED BY <1>3, <2>2, <3>2, <3>3
  <2> QED BY <2>3, <2>4
<1>8. ASSUME Delete(t) PROVE Objects /\ Missed /\ Rows
  <2>1. object' = object /\ missed' = missed /\ Drop(object[t].id)
    BY <1>8 DEF Delete
  <2>2. DOMAIN table' \subseteq DOMAIN table /\ \A j \in DOMAIN table' : table'[j] = table[j]
    BY <2>1, DropTable
  <2> QED BY <1>3, <2>1, <2>2
<1>9. ASSUME NEW i \in Ids, Get(t, i) PROVE Objects /\ Missed /\ Rows
  <2>1. /\ i \in DOMAIN table /\ table' = table /\ object'[t].value = Decode(table[i].columns)
        /\ missed' = missed /\ t \notin missed
        /\ \A u \in Threads \ {t} : object'[u] = object[u]
    BY <1>4, <1>9 DEF Get, Call
  <2>2. K(Decode(table[i].columns))
    <3>1. Keep(m, table[i].saved) /\ Writable(table[i].saved) /\ table[i].columns = Encode(table[i].saved)
      BY <1>10, <2>1 DEF K
    <3>2. Keep(m, Decode(Encode(table[i].saved)))
      BY <3>1, KeptRead
    <3> QED BY <3>1, <3>2 DEF K
  <2> QED BY <1>3, <1>4, <2>1, <2>2
<1> QED BY <1>5, <1>6, <1>7, <1>8, <1>9 DEF K

\* A row of a resource reads back as the value that was saved, for every
\* declared type that a column can keep (orm.py:11-62), whatever was sent,
\* unless that value is a NaN itself, which SQLite keeps as NULL.
THEOREM ApiLoads ==
  ASSUME ColumnsOfP
  PROVE  ApiSpec => []LoadedAsSaved
<1> DEFINE Loading == TableInv /\ ApiInv /\ LoadInv
<1>1. ApiInit => Loading
  <2> SUFFICES ASSUME ApiInit PROVE Loading
    OBVIOUS
  <2>1. TableInv /\ ApiInv
    BY OrmInitInv DEF ApiInit, ApiInv
  <2>2. \A m \in Classes : ColumnInv(m)
    BY DEF ApiInit, OrmInit, ColumnInv
  <2> QED BY <2>1, <2>2 DEF LoadInv
<1>2. Loading /\ [ApiNext]_<<ormVars, cls, body>> => Loading'
  <2> SUFFICES ASSUME Loading, [ApiNext]_<<ormVars, cls, body>> PROVE Loading'
    OBVIOUS
  <2>1. TableInv'
    BY ApiTableStep, TableStep
  <2>2. cls' = cls /\ body' = body
    BY DEF ApiNext
  <2>3. ASSUME NEW m \in Classes, cls = m, Storable(TypeOfP(m)) PROVE ColumnInv(m)'
    <3>1. ColumnInv(m) /\ TypeInv /\ SaveHeld
      BY <2>3 DEF LoadInv, TableInv
    <3>2. ~Failed(Validated) => Keep(m, Payload(Validated))
      BY <2>3, PayloadKept
    <3>3. ASSUME NEW t \in Threads, Create(t) PROVE ColumnInv(m)'
      <4>1. \E v : Keep(m, v) /\ (Insert(t, v) \/ SaveUpdate(t, v))
        BY <3>2, <3>3, Zenon DEF Create
      <4> QED BY <2>3, <3>1, <4>1, ColumnStep
    <3>4. ASSUME NEW t \in Threads, Save(t) PROVE ColumnInv(m)'
      <4>1. object[t] # NoObject => Keep(m, object[t].value)
        BY <3>1 DEF ColumnInv
      <4>2. \E v : Keep(m, v) /\ (Insert(t, v) \/ SaveUpdate(t, v))
        BY <3>2, <3>4, <4>1, Zenon DEF Save
      <4> QED BY <2>3, <3>1, <4>2, ColumnStep
    <3>5. ASSUME NEW t \in Threads, SaveInsert(t) \/ Delete(t) \/ \E i \in Ids : Get(t, i) PROVE ColumnInv(m)'
      BY <2>3, <3>1, <3>5, ColumnStep
    <3>6. CASE UNCHANGED <<ormVars, cls, body>>
      BY <3>1, <3>6 DEF ColumnInv, ormVars, Keep, WrittenRow
    <3>7. CASE ApiNext
      BY <3>3, <3>4, <3>5, <3>7, Zenon DEF ApiNext
    <3> QED BY <3>6, <3>7
  <2> QED BY <2>1, <2>2, <2>3 DEF LoadInv, ApiInv
<1>3. Loading => LoadedAsSaved
  <2> SUFFICES ASSUME Loading, Storable(TypeOfP(cls)), NEW i \in DOMAIN table, table[i].saved[2] # NaN
               PROVE  ReadableP(table[i].columns) /\ DecodeP(table[i].columns) = table[i].saved
    BY DEF LoadedAsSaved
  <2>1. PICK m \in Classes : m = cls
    BY DEF ApiInv
  <2>2. /\ Keep(m, table[i].saved) /\ Writable(table[i].saved) /\ table[i].columns = Encode(table[i].saved)
        /\ Storable(TypeOfP(m))
    BY <2>1 DEF LoadInv, ColumnInv, WrittenRow
  <2> QED BY <2>1, <2>2, KeptRead
<1> QED BY <1>1, <1>2, <1>3, PTL DEF ApiSpec

-----------------------------------------------------------------------------
(* The published schemas: what they admit is accepted.                     *)

\* What a document is made of, documents are.
LEMMA DocumentParts ==
  ASSUME NEW v \in Documents
  PROVE  /\ v \in JsonValues /\ v[1] \notin {"inf", "nan"}
         /\ v[1] = "list" => Elements(v[2]) \subseteq Documents
         /\ v[1] = "dict" => \A i \in DOMAIN v[2] : v[2][i][2] \in Documents
<1>1. ASSUME NEW n \in 1..MaxDepth-1, Document[n - 1] \subseteq Document[n] PROVE Document[n] \subseteq Document[n + 1]
  <2> DEFINE A == Document[n - 1]
             B == Document[n]
  <2>1. n \in 1..MaxDepth /\ n + 1 \in 1..MaxDepth /\ (n + 1) - 1 = n
    BY Bounds
  <2>2. B = DocumentAround(A) /\ Document[n + 1] = DocumentAround(B) /\ A \subseteq B
    BY <1>1, <2>1, DocumentLevels
  <2> HIDE DEF A, B
  <2>3. DocumentAround(A) \subseteq DocumentAround(B)
    BY <2>2 DEF DocumentAround
  <2> QED BY <2>2, <2>3 DEF B
<1>2. MaxDepth \in Nat \ {0} /\ MaxDepth \in 1..MaxDepth /\ 1 \in 1..MaxDepth /\ 1 - 1 = 0
  BY Bounds
<1>3. Document[0] \subseteq Document[1]
  <2> DEFINE A == Document[0]
  <2>1. A = DocumentAround({}) /\ Document[1] = DocumentAround(A)
    BY <1>2, DocumentLevels
  <2> HIDE DEF A
  <2>2. DocumentAround({}) \subseteq DocumentAround(A)
    BY DEF DocumentAround
  <2> QED BY <2>1, <2>2 DEF A
<1>4. Document[MaxDepth - 1] \subseteq Document[MaxDepth]
  BY <1>1, <1>2, <1>3, Rising
<1>5. v \in DocumentAround(Document[MaxDepth - 1])
  BY <1>2, DocumentLevels DEF Documents
<1>6. /\ v \in JsonValues /\ v[1] \notin {"inf", "nan"}
      /\ v[1] = "list" => Elements(v[2]) \subseteq Document[MaxDepth - 1]
      /\ v[1] = "dict" => \A i \in DOMAIN v[2] : v[2][i][2] \in Document[MaxDepth - 1]
  BY <1>5 DEF DocumentAround
<1> QED BY <1>4, <1>6 DEF Documents

\* The ordinary documents are documents, and so are their parts.
LEMMA OrdinaryParts ==
  ASSUME NEW v \in Ordinary[MaxDepth]
  PROVE  /\ v \in Documents /\ v \in JsonValues /\ v[1] \notin {"inf", "nan"} /\ ~Lone(v)
         /\ v[1] = "int" => v[2] \in -MaxFloat .. MaxFloat
         /\ v[1] = "list" => Elements(v[2]) \subseteq Ordinary[MaxDepth]
         /\ v[1] = "dict" => \A i \in DOMAIN v[2] : v[2][i][2] \in Ordinary[MaxDepth]
<1>1. ASSUME NEW n \in 1..MaxDepth-1, Ordinary[n - 1] \subseteq Ordinary[n] PROVE Ordinary[n] \subseteq Ordinary[n + 1]
  <2> DEFINE A == Ordinary[n - 1]
             B == Ordinary[n]
  <2>1. n \in 1..MaxDepth /\ n + 1 \in 1..MaxDepth /\ (n + 1) - 1 = n
    BY Bounds
  <2>2. B = OrdinaryAround(A) /\ Ordinary[n + 1] = OrdinaryAround(B) /\ A \subseteq B
    BY <1>1, <2>1, OrdinaryLevels
  <2> HIDE DEF A, B
  <2>3. OrdinaryAround(A) \subseteq OrdinaryAround(B)
    BY <2>2 DEF OrdinaryAround
  <2> QED BY <2>2, <2>3 DEF B
<1>2. MaxDepth \in Nat \ {0} /\ MaxDepth \in 1..MaxDepth /\ 1 \in 1..MaxDepth /\ 1 - 1 = 0
  BY Bounds
<1>3. Ordinary[0] \subseteq Ordinary[1]
  <2> DEFINE A == Ordinary[0]
  <2>1. A = OrdinaryAround({}) /\ Ordinary[1] = OrdinaryAround(A)
    BY <1>2, OrdinaryLevels
  <2> HIDE DEF A
  <2>2. OrdinaryAround({}) \subseteq OrdinaryAround(A)
    BY DEF OrdinaryAround
  <2> QED BY <2>1, <2>2 DEF A
<1>4. Ordinary[MaxDepth - 1] \subseteq Ordinary[MaxDepth]
  BY <1>1, <1>2, <1>3, Rising
<1>5. v \in OrdinaryAround(Ordinary[MaxDepth - 1])
  BY <1>2, OrdinaryLevels
<1>6. /\ v \in Documents /\ ~Lone(v)
      /\ v[1] = "int" => v[2] \in -MaxFloat .. MaxFloat
      /\ v[1] = "list" => Elements(v[2]) \subseteq Ordinary[MaxDepth - 1]
      /\ v[1] = "dict" => \A i \in DOMAIN v[2] : v[2][i][2] \in Ordinary[MaxDepth - 1]
  BY <1>5 DEF OrdinaryAround
<1>7. v \in JsonValues /\ v[1] \notin {"inf", "nan"}
  BY <1>6, DocumentParts
<1> QED BY <1>4, <1>6, <1>7

\* The parts of a type whose values can be in a set.
LEMMA HashableTypeParts ==
  ASSUME NEW T \in HashableType[MaxDepth]
  PROVE  /\ T \in Types
         /\ T[1] \in {"bool", "int", "float", "str", "bytes", "union", "tuple"} \/ T = NoneType
         /\ T[1] = "union" => Elements(T[2]) \subseteq HashableType[MaxDepth]
         /\ T[1] = "tuple" => T[2] \in HashableType[MaxDepth]
<1>1. ASSUME NEW n \in 1..MaxDepth-1, HashableType[n - 1] \subseteq HashableType[n]
      PROVE  HashableType[n] \subseteq HashableType[n + 1]
  <2> DEFINE A == HashableType[n - 1]
             B == HashableType[n]
  <2>1. n \in 1..MaxDepth /\ n + 1 \in 1..MaxDepth /\ (n + 1) - 1 = n
    BY Bounds
  <2>2. B = HashableTypeAround(A) /\ HashableType[n + 1] = HashableTypeAround(B) /\ A \subseteq B
    BY <1>1, <2>1, HashableTypeLevels
  <2> HIDE DEF A, B
  <2>3. HashableTypeAround(A) \subseteq HashableTypeAround(B)
    BY <2>2 DEF HashableTypeAround
  <2> QED BY <2>2, <2>3 DEF B
<1>2. HashableType[0] \subseteq HashableType[1] /\ MaxDepth \in Nat \ {0} /\ MaxDepth \in 1..MaxDepth
  BY HashableTypeLevels, Bounds
<1>3. HashableType[MaxDepth - 1] \subseteq HashableType[MaxDepth]
  BY <1>1, <1>2, Rising
<1>4. T \in HashableTypeAround(HashableType[MaxDepth - 1])
  BY <1>2, HashableTypeLevels
<1>5. /\ T \in Types
      /\ T[1] \in {"bool", "int", "float", "str", "bytes", "union", "tuple"} \/ T = NoneType
      /\ T[1] = "union" => Elements(T[2]) \subseteq HashableType[MaxDepth - 1]
      /\ T[1] = "tuple" => T[2] \in HashableType[MaxDepth - 1]
  BY <1>4 DEF HashableTypeAround, NoneType, Scalars
<1> QED BY <1>3, <1>5

\* More levels hash more values.
LEMMA HashableIncreasing == \A m \in 0..MaxLevels : \A n \in 0..m : Hashable[n] \subseteq Hashable[m]
<1>1. ASSUME NEW n \in 1..MaxLevels-1, Hashable[n - 1] \subseteq Hashable[n] PROVE Hashable[n] \subseteq Hashable[n + 1]
  <2> DEFINE A == Hashable[n - 1]
             B == Hashable[n]
  <2>1. n \in 1..MaxLevels /\ n + 1 \in 1..MaxLevels /\ (n + 1) - 1 = n
    BY Bounds
  <2>2. B = HashableAround(A) /\ Hashable[n + 1] = HashableAround(B) /\ A \subseteq B
    BY <1>1, <2>1, HashableLevels
  <2> HIDE DEF A, B
  <2>3. HashableAround(A) \subseteq HashableAround(B)
    BY <2>2 DEF HashableAround
  <2> QED BY <2>2, <2>3 DEF B
<1>2. Hashable[0] \subseteq Hashable[1] /\ MaxLevels \in Nat \ {0}
  BY HashableLevels, Bounds
<1> QED BY <1>1, <1>2, Rising, Increasing

\* What such a type gives can be in a set.
LEMMA HashableGiven ==
  \A n \in 0..MaxDepth : \A T \in HashableType[MaxDepth] : Gives(Coerce[n][T], Hashable[n])
<1> DEFINE S == {n \in 0..MaxDepth : \A T \in HashableType[MaxDepth] : Gives(Coerce[n][T], Hashable[n])}
<1>1. 0 \in S
  <2>1. \A T \in Types : \A v \in JsonValues : Coerce[0][T][v] = Raised
    BY CoerceLevels DEF CoerceNever
  <2>2. HashableType[MaxDepth] \subseteq Types
    BY HashableTypeParts
  <2> QED BY <2>1, <2>2, Bounds, OkHolds DEF Gives
<1>2. \A n \in 1..MaxDepth : n - 1 \in S => n \in S
  <2> SUFFICES ASSUME NEW n \in 1..MaxDepth, n - 1 \in S, NEW T \in HashableType[MaxDepth], NEW v \in JsonValues,
                      ~Failed(Coerce[n][T][v])
               PROVE  Coerce[n][T][v][2] \in Hashable[n]
    BY DEF Gives
  <2> DEFINE coerce == Coerce[n - 1]
             A == Hashable[n - 1]
             r == Coerce[n][T][v]
             x == r[2]
  <2>1. \A U \in HashableType[MaxDepth] : Gives(coerce[U], A)
    OBVIOUS
  <2>2. T \in Types
    BY HashableTypeParts
  <2>3. r = CoerceNested(coerce)[T][v]
    BY <2>2, CoerceLevels
  <2>4. Hashable[n] = HashableAround(A) /\ A \subseteq Hashable[n]
    <3>1. n \in 1..MaxLevels /\ n \in 0..MaxLevels /\ n - 1 \in 0..n
      BY Bounds
    <3> QED BY <3>1, HashableLevels, HashableIncreasing
  <2>5. x \in PythonValues
    <3>1. n \in 0..MaxDepth /\ MaxDepth + n \in 0..MaxLevels /\ MaxLevels \in 0..MaxLevels
      BY Bounds
    <3>2. x \in Python[MaxDepth + n]
      BY <2>2, <3>1, CoerceFits DEF Fits
    <3> QED BY <3>1, <3>2, PythonIncreasing DEF PythonValues
  <2> SUFFICES x \in HashableAround(A) \cup A
    BY <2>4
  <2> HIDE DEF coerce, A
  <2>6. CASE T[1] = "union"
    <3>1. r = CoerceUnion(v, T[2], coerce)
      BY <2>2, <2>3, <2>6, CoerceCases
    <3>2. CASE r = Ok(None)
      <4>1. x = None
        BY <3>2, OkHolds
      <4> HIDE DEF x
      <4> QED BY <2>5, <4>1 DEF HashableAround, None
    <3>3. CASE \E U \in Elements(T[2]) : r = coerce[U][v]
      <4>1. PICK U \in Elements(T[2]) : r = coerce[U][v]
        BY <3>3
      <4>2. U \in HashableType[MaxDepth]
        BY <2>6, <4>1, HashableTypeParts
      <4> QED BY <2>1, <4>1, <4>2 DEF Gives
    <3>4. r # Invalid
      BY OkHolds
    <3> QED BY <2>2, <2>6, <3>1, <3>2, <3>3, <3>4, UnionGives
  <2>7. CASE T[1] = "tuple"
    <3>1. r = CoerceItems(v, "tuple", T[2], coerce)
      BY <2>2, <2>3, <2>7, CoerceCases
    <3>2. T[2] \in Types /\ Gives(coerce[T[2]], A)
      BY <2>1, <2>7, HashableTypeParts
    <3>3. CoerceItems(v, "tuple", T[2], coerce)[2] \in {"tuple"} \X Seq(A)
      <4>1. ~Failed(CoerceItems(v, "tuple", T[2], coerce)) /\ "tuple" \in {"list", "tuple"}
        BY <3>1
      <4> QED BY <3>2, <4>1, ItemsGive
    <3>4. x \in {"tuple"} \X Seq(A)
      BY <3>1, <3>3
    <3> HIDE DEF x
    <3>5. x[1] = "tuple" /\ x[2] \in Seq(A)
      BY <3>4
    <3>6. Elements(x[2]) \subseteq A
      BY <3>5, SeqItems DEF Elements
    <3> QED BY <2>5, <3>5, <3>6 DEF HashableAround
  <2>8. CASE T[1] \in {"bool", "int", "float", "str", "bytes"} \/ T = NoneType
    <3>1. T[1] \in {"any", "bool", "int", "float", "str", "bytes", "class"}
      BY <2>8 DEF NoneType
    <3>2. r = CoerceScalar(v, T)
      BY <2>2, <2>3, <3>1, CoerceCases
    <3>3. x[1] \in {"bool", "int", "float", "inf", "nan", "str", "bytes", "none"}
      <4>1. 1 \in 1..MaxLevels /\ 1 - 1 = 0
        BY Bounds
      <4>2. x \in Of[1][T]
        BY <2>2, <3>1, <3>2, <4>1, ScalarFits DEF Conforms
      <4> HIDE DEF x
      <4>3. x \in OfType(T, Of[0])
        BY <2>2, <4>1, <4>2, OfUnfold
      <4> QED BY <2>8, <4>3 DEF OfType, NoneType
    <3> HIDE DEF x
    <3> QED BY <2>5, <3>3 DEF HashableAround
  <2> QED BY <2>6, <2>7, <2>8, HashableTypeParts
<1>3. \A n \in 0..MaxDepth : n \in S
  <2> HIDE DEF S
  <2> QED BY <1>1, <1>2, Bounds, Upward
<1> QED BY <1>3

\* A call refuses an ordinary document by a ValidationError only, and none that the
\* schema admits; what it gives for a type whose values can be in a set, can.
Answers(c, schema) == \A v \in Ordinary[MaxDepth] : Failed(c[v]) => c[v] = Invalid /\ v \notin schema
Hashes(coerce) == \A T \in HashableType[MaxDepth] : Gives(coerce[T], Hashable[MaxLevels])

\* A loop that fails ends as the call that failed.
LEMMA CollectedFailed ==
  ASSUME NEW k \in Nat, NEW rs, DOMAIN rs = 1..k, Failed(Collect(rs))
  PROVE  \E i \in 1..k : Failed(rs[i]) /\ Collect(rs) = rs[i]
<1> DEFINE bad == {i \in 1..k : Failed(rs[i])}
           first == CHOOSE i \in bad : \A j \in bad : i <= j
<1>1. Collect(rs) = IF bad = {} THEN Ok([i \in 1..k |-> rs[i][2]]) ELSE rs[first]
  BY DEF Collect
<1>2. bad # {}
  BY <1>1, OkHolds
<1>3. bad \subseteq Nat
  OBVIOUS
<1>4. first \in bad
  <2> HIDE DEF bad
  <2> QED BY <1>2, <1>3, FirstOf
<1> HIDE DEF first
<1> QED BY <1>1, <1>2, <1>4

\* A scalar type refuses no document of its schema.
LEMMA ScalarAnswers ==
  ASSUME NEW T \in Types, T[1] \in Scalars, NEW v \in Ordinary[MaxDepth], Failed(CoerceScalar(v, T))
  PROVE  /\ CoerceScalar(v, T) = Invalid
         /\ T[1] \in {"bool", "int", "float", "bytes"}
         /\ T[1] = "bytes" => v[1] # "str"
         /\ T[1] # "bytes" => v[1] # T[1]
         /\ T[1] = "float" => v[1] # "int"
<1> DEFINE r == CoerceScalar(v, T)
<1>1. v[1] \notin {"inf", "nan"} /\ ~Lone(v)
  BY OrdinaryParts
<1>2. CASE T[1] = "any"
  <2>1. r = Ok(v)
    BY <1>2 DEF CoerceScalar
  <2> QED BY <2>1, OkHolds
<1>3. CASE T[1] = "bool"
  <2>1. r = CoerceBool(v)
    BY <1>3 DEF CoerceScalar
  <2>2. r = Ok(v) \/ r = Ok(v[2]) \/ r = Ok(<<"bool", TRUE>>) \/ r = Ok(<<"bool", FALSE>>) \/ r = Invalid
    BY <2>1 DEF CoerceBool
  <2>3. v[1] = "bool" => r = Ok(v)
    BY <2>1 DEF CoerceBool, Text
  <2> QED BY <1>3, <2>2, <2>3, OkHolds
<1>4. CASE T[1] = "int"
  <2>1. r = CoerceInt(v)
    BY <1>4 DEF CoerceScalar
  <2>2. \/ r = Ok(v) \/ r = Ok(<<"int", v[2] \div 2>>) \/ r = Ok(<<"int", -((-v[2]) \div 2)>>)
        \/ r = Ok(v[2]) \/ r = Invalid
    BY <1>1, <2>1 DEF CoerceInt
  <2>3. v[1] = "int" => r = Ok(v)
    BY <2>1 DEF CoerceInt
  <2> QED BY <1>4, <2>2, <2>3, OkHolds
<1>5. CASE T[1] = "float"
  <2>1. r = CoerceFloat(v)
    BY <1>5 DEF CoerceScalar
  <2> DEFINE n == IF v[1] = "str" THEN v[2] ELSE v
  <2>0. v[1] = "int" => v[2] \in -MaxFloat .. MaxFloat
    BY OrdinaryParts
  <2>2. r = Ok(n) \/ r = Ok(<<"float", 2 * n[2]>>) \/ r = Ok(<<"inf">>) \/ r = Invalid
    BY <2>0, <2>1 DEF CoerceFloat
  <2>3. v[1] = "float" => r = Ok(v)
    BY <2>1 DEF CoerceFloat
  <2>4. v[1] = "int" => r = Ok(<<"float", 2 * v[2]>>)
    BY <2>0, <2>1 DEF CoerceFloat
  <2> HIDE DEF n
  <2> QED BY <1>5, <2>2, <2>3, <2>4, OkHolds
<1>6. CASE T[1] = "str"
  <2>1. r = Ok(IF v[1] = "str" THEN v ELSE Text(v))
    BY <1>6 DEF CoerceScalar
  <2> QED BY <2>1, OkHolds
<1>7. CASE T[1] = "bytes"
  <2>1. r = CoerceBytes(v)
    BY <1>7 DEF CoerceScalar
  <2>2. r = IF v[1] = "str" THEN Ok(<<"bytes", v[2]>>) ELSE Invalid
    BY <1>1, <2>1 DEF CoerceBytes
  <2> QED BY <1>7, <2>2, OkHolds
<1> QED BY <1>2, <1>3, <1>4, <1>5, <1>6, <1>7 DEF Scalars

\* The items of a sequence of such a type.
LEMMA ItemsAnswer ==
  ASSUME NEW coerce, Hashes(coerce), NEW U \in Types, NEW S, Answers(coerce[U], S),
         NEW kind \in {"list", "tuple", "set"}, kind = "set" => U \in HashableType[MaxDepth],
         NEW v \in Ordinary[MaxDepth], Failed(CoerceItems(v, kind, U, coerce))
  PROVE  CoerceItems(v, kind, U, coerce) = Invalid /\ v \notin ArrayOf(S)
<1> DEFINE r == CoerceItems(v, kind, U, coerce)
           given == IF v[1] = "list" THEN v[2] ELSE <<v>>
           rs == [i \in DOMAIN given |-> coerce[U][given[i]]]
           items == Collect(rs)
           k == Len(given)
<1>1. k \in Nat /\ DOMAIN given = 1..k /\ \A i \in 1..k : given[i] \in Ordinary[MaxDepth]
  <2>1. CASE v[1] = "list"
    <3>1. v[2] \in Seq(JsonValues)
      BY <2>1, OrdinaryParts, JsonTag
    <3>2. given = v[2]
      BY <2>1
    <3> HIDE DEF given
    <3>3. k \in Nat /\ DOMAIN given = 1..k
      BY <3>1, <3>2, SeqItems
    <3> QED BY <2>1, <3>2, <3>3, OrdinaryParts DEF Elements
  <2>2. CASE v[1] # "list"
    <3>1. given = <<v>>
      BY <2>2
    <3> HIDE DEF given
    <3> QED BY <3>1
  <2> QED BY <2>1, <2>2
<1>2. r = IF Failed(items) THEN items
          ELSE IF kind # "set" THEN Ok(<<kind, items[2]>>)
          ELSE IF Elements(items[2]) \subseteq Hashable[MaxLevels] THEN Ok(<<"set", Elements(items[2])>>)
          ELSE Raised
  BY DEF CoerceItems
<1>3. v[1] = "list" => given = v[2]
  OBVIOUS
<1>4. \A i \in 1..k : given[i] \in JsonValues
  BY <1>1, OrdinaryParts
<1> HIDE DEF given
<1>5. DOMAIN rs = 1..k /\ \A i \in 1..k : rs[i] = coerce[U][given[i]]
  BY <1>1
<1> HIDE DEF rs, k
<1>6. ASSUME kind = "set", ~Failed(items) PROVE Elements(items[2]) \subseteq Hashable[MaxLevels]
  <2>1. Gives(coerce[U], Hashable[MaxLevels])
    BY <1>6 DEF Hashes
  <2>2. Yields(rs, k, Hashable[MaxLevels])
    BY <1>4, <1>5, <2>1 DEF Gives, Yields
  <2>3. ListOf(items[2], k, Hashable[MaxLevels])
    BY <1>1, <1>5, <1>6, <2>2, CollectedIn
  <2> HIDE DEF items
  <2> QED BY <2>3 DEF ListOf, Elements
<1>7. Failed(items) /\ r = items
  BY <1>2, <1>6, OkHolds
<1>8. PICK i \in 1..k : Failed(rs[i]) /\ items = rs[i]
  BY <1>1, <1>5, <1>7, CollectedFailed
<1>9. items = Invalid /\ given[i] \notin S
  BY <1>1, <1>5, <1>8 DEF Answers
<1>10. v \notin ArrayOf(S)
  BY <1>1, <1>3, <1>9 DEF ArrayOf, Typed, Elements
<1> QED BY <1>7, <1>9, <1>10

\* The values of a dictionary.
LEMMA DictAnswers ==
  ASSUME NEW coerce, NEW U \in Types, NEW S, Answers(coerce[U], S),
         NEW v \in Ordinary[MaxDepth], Failed(CoerceDict(v, U, coerce))
  PROVE  CoerceDict(v, U, coerce) = Invalid /\ v \notin ObjectOf(S)
<1> DEFINE r == CoerceDict(v, U, coerce)
           rs == [i \in DOMAIN v[2] |-> coerce[U][v[2][i][2]]]
           items == Collect(rs)
           k == Len(v[2])
           x == <<"dict", [i \in DOMAIN v[2] |-> <<v[2][i][1], items[2][i]>>]>>
<1>1. r = IF v[1] # "dict" THEN Invalid ELSE IF Failed(items) THEN items ELSE Ok(x)
  BY DEF CoerceDict
<1> HIDE DEF x
<1>2. CASE v[1] # "dict"
  BY <1>1, <1>2 DEF ObjectOf, Typed
<1>3. CASE v[1] = "dict"
  <2>1. k \in Nat /\ DOMAIN v[2] = 1..k
    <3>1. v[2] \in Seq(STRING \X JsonValues)
      BY <1>3, OrdinaryParts, JsonTag
    <3> QED BY <3>1, SeqItems
  <2>2. DOMAIN rs = 1..k /\ \A i \in 1..k : rs[i] = coerce[U][v[2][i][2]]
    BY <2>1
  <2> HIDE DEF rs, k
  <2>3. Failed(items) /\ r = items
    BY <1>1, <1>3, OkHolds
  <2>4. PICK i \in 1..k : Failed(rs[i]) /\ items = rs[i]
    BY <2>1, <2>2, <2>3, CollectedFailed
  <2>5. v[2][i][2] \in Ordinary[MaxDepth] /\ i \in DOMAIN v[2]
    BY <1>3, <2>1, OrdinaryParts
  <2>6. items = Invalid /\ v[2][i][2] \notin S
    BY <2>2, <2>4, <2>5 DEF Answers
  <2> QED BY <2>3, <2>5, <2>6 DEF ObjectOf
<1> QED BY <1>2, <1>3

\* A field is refused when it is required and missing, or its value is.
LEMMA FieldAnswers ==
  ASSUME NEW f, NEW coerce, NEW S, Answers(coerce[f.type], S),
         NEW pairs, \A i \in DOMAIN pairs : pairs[i][2] \in Ordinary[MaxDepth], Failed(CoerceField(f, pairs, coerce))
  PROVE  /\ CoerceField(f, pairs, coerce) = Invalid
         /\ \/ f.name \notin Keys(pairs) /\ f.default = Required
            \/ f.name \in Keys(pairs) /\ ValueAt(pairs, f.name) \notin S
<1> DEFINE r == CoerceField(f, pairs, coerce)
<1>1. r = IF f.name \in Keys(pairs) THEN coerce[f.type][ValueAt(pairs, f.name)]
          ELSE IF f.default = Required THEN Invalid ELSE Ok(f.default)
  BY DEF CoerceField
<1> HIDE DEF r
<1>2. CASE f.name \in Keys(pairs)
  <2> DEFINE at == {j \in DOMAIN pairs : pairs[j][1] = f.name}
  <2>1. at # {}
    BY <1>2 DEF Keys
  <2>2. (CHOOSE i \in at : TRUE) \in at
    BY <2>1
  <2>3. ValueAt(pairs, f.name) \in Ordinary[MaxDepth]
    BY <2>2 DEF ValueAt
  <2>4. r = coerce[f.type][ValueAt(pairs, f.name)]
    BY <1>1, <1>2
  <2> QED BY <1>2, <2>3, <2>4 DEF Answers, r
<1>3. CASE f.name \notin Keys(pairs)
  <2>1. f.default = Required
    BY <1>1, <1>3, OkHolds DEF r
  <2> QED BY <1>1, <1>3, <2>1 DEF r
<1> QED BY <1>2, <1>3

\* A dataclass refuses what its schema does not admit.
LEMMA ModelAnswers ==
  ASSUME NEW coerce, NEW schema, NEW m \in DOMAIN Models,
         \A i \in DOMAIN Models[m] : Answers(coerce[Models[m][i].type], schema[Models[m][i].type]),
         NEW v \in Ordinary[MaxDepth], v[1] = "dict", Failed(ValidateModel(m, v[2], coerce))
  PROVE  ValidateModel(m, v[2], coerce) = Invalid /\ v \notin SchemaForDataclass(m, schema)
<1> DEFINE r == ValidateModel(m, v[2], coerce)
           rs == [i \in DOMAIN Models[m] |-> CoerceField(Models[m][i], v[2], coerce)]
           fields == Collect(rs)
           k == Len(Models[m])
           x == <<"obj", m, fields[2]>>
<1>1. r = IF ~(Keys(v[2]) \subseteq FieldNames(m)) THEN Invalid ELSE IF Failed(fields) THEN fields ELSE Ok(x)
  BY DEF ValidateModel
<1>2. k \in Nat /\ DOMAIN Models[m] = 1..k
  BY FieldsTyped
<1> HIDE DEF x
<1>3. CASE ~(Keys(v[2]) \subseteq FieldNames(m))
  BY <1>1, <1>3 DEF SchemaForDataclass
<1>4. CASE Keys(v[2]) \subseteq FieldNames(m)
  <2>1. Failed(fields) /\ r = fields
    BY <1>1, <1>4, OkHolds
  <2>2. DOMAIN rs = 1..k /\ \A i \in 1..k : rs[i] = CoerceField(Models[m][i], v[2], coerce)
    BY <1>2
  <2> HIDE DEF rs, k
  <2>3. PICK i \in 1..k : Failed(rs[i]) /\ fields = rs[i]
    BY <1>2, <2>1, <2>2, CollectedFailed
  <2> DEFINE f == Models[m][i]
  <2>4. f \in Elements(Models[m]) /\ Answers(coerce[f.type], schema[f.type]) /\ fields = CoerceField(f, v[2], coerce)
    BY <1>2, <2>2, <2>3 DEF Elements
  <2> HIDE DEF f
  <2>5. \A j \in DOMAIN v[2] : v[2][j][2] \in Ordinary[MaxDepth]
    BY OrdinaryParts
  <2>6. /\ fields = Invalid
        /\ \/ f.name \notin Keys(v[2]) /\ f.default = Required
           \/ f.name \in Keys(v[2]) /\ ValueAt(v[2], f.name) \notin schema[f.type]
    BY <2>1, <2>4, <2>5, FieldAnswers
  <2> QED BY <2>1, <2>4, <2>6 DEF SchemaForDataclass
<1> QED BY <1>3, <1>4

\* The schema of each kind of type.
LEMMA SchemaCases ==
  ASSUME NEW schema, NEW T \in Types
  PROVE  /\ T[1] = "union" => SchemaNested(schema)[T] = SchemaForUnion(T[2], schema)
         /\ T[1] \in {"list", "tuple", "set"} => SchemaNested(schema)[T] = ArrayOf(schema[T[2]])
         /\ T[1] = "fixed" => SchemaNested(schema)[T] = ArrayOf(schema[T[2][1]])
         /\ T[1] = "dict" => SchemaNested(schema)[T] = ObjectOf(schema[T[2]])
         /\ T[1] = "model" => SchemaNested(schema)[T] = SchemaForDataclass(T[2], schema)
         /\ T[1] = "int" => SchemaNested(schema)[T] = Typed({"int"})
         /\ T[1] = "float" => SchemaNested(schema)[T] = Typed({"int", "float"})
         /\ T[1] = "bool" => SchemaNested(schema)[T] = Typed({"bool"})
         /\ T[1] = "bytes" => SchemaNested(schema)[T] = Typed({"str"})
<1>1. SchemaNested(schema)[T] =
        CASE T[1] = "any"       -> Documents
          [] T[1] = "union"     -> SchemaForUnion(T[2], schema)
          [] T[1] \in Sequenced -> ArrayOf(schema[T[2]])
          [] T[1] = "fixed"     -> ArrayOf(schema[T[2][1]])
          [] T[1] = "dict"      -> ObjectOf(schema[T[2]])
          [] T[1] = "model"     -> SchemaForDataclass(T[2], schema)
          [] T[1] = "int"       -> Typed({"int"})
          [] T[1] = "float"     -> Typed({"int", "float"})
          [] T[1] = "bool"      -> Typed({"bool"})
          [] OTHER              -> Typed({"str"})
  BY DEF SchemaNested
<1> QED BY <1>1 DEF Sequenced

\* When the nested calls refuse no documents of their schemas, the call does not.
LEMMA TypeAnswers ==
  ASSUME NEW coerce, Hashes(coerce), NEW schema, NEW D, D \subseteq Types,
         \A A \in D : Answers(coerce[A], schema[A]), NEW T \in DocumentedAround(D)
  PROVE  Answers(CoerceNested(coerce)[T], SchemaNested(schema)[T])
<1>1. /\ T \in Types
      /\ \/ T[1] \in Scalars
         \/ T[1] = "union" /\ \A A \in Elements(T[2]) : A = NoneType \/ A \in D
         \/ T[1] = "set" /\ T[2] \in D /\ T[2] \in HashableType[MaxDepth]
         \/ T[1] \in {"list", "tuple", "dict"} /\ T[2] \in D
         \/ T[1] = "fixed" /\ T[2][1] \in D
         \/ T[1] = "model" /\ \A f \in Elements(Models[T[2]]) : f.type \in D
  BY DEF DocumentedAround
<1> DEFINE S == SchemaNested(schema)[T]
<1> SUFFICES ASSUME NEW v \in Ordinary[MaxDepth], Failed(CoerceNested(coerce)[T][v])
             PROVE  CoerceNested(coerce)[T][v] = Invalid /\ v \notin S
  BY DEF Answers
<1> DEFINE r == CoerceNested(coerce)[T][v]
<1>2. v \in JsonValues
  BY OrdinaryParts
<1>3. CASE T[1] \in Scalars
  <2>1. T[1] \notin {"union", "list", "tuple", "set", "fixed", "dict", "model"}
    BY <1>3 DEF Scalars
  <2>2. r = CoerceScalar(v, T)
    BY <1>1, <1>2, <2>1, CoerceCases
  <2>3. /\ r = Invalid
        /\ T[1] \in {"bool", "int", "float", "bytes"}
        /\ T[1] = "bytes" => v[1] # "str"
        /\ T[1] # "bytes" => v[1] # T[1]
        /\ T[1] = "float" => v[1] # "int"
    BY <1>1, <1>3, <2>2, ScalarAnswers
  <2>4. /\ T[1] = "int" => S = Typed({"int"})
        /\ T[1] = "float" => S = Typed({"int", "float"})
        /\ T[1] = "bool" => S = Typed({"bool"})
        /\ T[1] = "bytes" => S = Typed({"str"})
    BY <1>1, SchemaCases
  <2> HIDE DEF r, S
  <2>5. v \notin S
    BY <2>3, <2>4 DEF Typed
  <2> QED BY <2>3, <2>5 DEF r, S
<1>4. CASE T[1] = "union" /\ \A A \in Elements(T[2]) : A = NoneType \/ A \in D
  <2>1. r = CoerceUnion(v, T[2], coerce) /\ S = SchemaForUnion(T[2], schema)
    BY <1>1, <1>2, <1>4, CoerceCases, SchemaCases
  <2> HIDE DEF r, S
  <2>2. r # Ok(None)
    BY OkHolds DEF r
  <2>3. ASSUME NEW A \in Elements(T[2]) \ {NoneType}, r = coerce[A][v] PROVE r = Invalid
    <3>1. Answers(coerce[A], schema[A]) /\ Failed(coerce[A][v])
      BY <1>4, <2>3 DEF r
    <3> QED BY <2>3, <3>1 DEF Answers
  <2>4. /\ r = Invalid /\ ~(v = None /\ NoneType \in Elements(T[2]))
        /\ \A A \in Elements(T[2]) \ {NoneType} : coerce[A][v] = Invalid
    BY <1>1, <1>2, <1>4, <2>1, <2>2, <2>3, UnionGives
  <2>5. \A A \in Elements(T[2]) \ {NoneType} : v \notin schema[A]
    <3> SUFFICES ASSUME NEW A \in Elements(T[2]) \ {NoneType} PROVE v \notin schema[A]
      OBVIOUS
    <3>1. Answers(coerce[A], schema[A]) /\ Failed(coerce[A][v])
      BY <1>4, <2>4, OkHolds
    <3> QED BY <3>1 DEF Answers
  <2>6. Elements(T[2]) \ {NoneType} # {}
    BY <1>1, <1>4, ValidationAssumption DEF Scalars, Sequenced
  <2>7. v \notin S
    BY <2>1, <2>4, <2>5, <2>6 DEF SchemaForUnion
  <2> QED BY <2>4, <2>7 DEF r, S
<1>5. CASE T[1] \in {"list", "tuple", "set"} /\ T[2] \in D /\ (T[1] = "set" => T[2] \in HashableType[MaxDepth])
  <2>1. r = CoerceItems(v, T[1], T[2], coerce) /\ S = ArrayOf(schema[T[2]])
    BY <1>1, <1>2, <1>5, CoerceCases, SchemaCases
  <2>2. T[2] \in Types /\ Answers(coerce[T[2]], schema[T[2]])
    BY <1>5
  <2>3. Failed(CoerceItems(v, T[1], T[2], coerce))
    BY <2>1
  <2>4. CoerceItems(v, T[1], T[2], coerce) = Invalid /\ v \notin ArrayOf(schema[T[2]])
    BY <1>5, <2>2, <2>3, ItemsAnswer
  <2> QED BY <2>1, <2>4
<1>6. CASE T[1] = "dict" /\ T[2] \in D
  <2>1. r = CoerceDict(v, T[2], coerce) /\ S = ObjectOf(schema[T[2]])
    BY <1>1, <1>2, <1>6, CoerceCases, SchemaCases
  <2>2. T[2] \in Types /\ Answers(coerce[T[2]], schema[T[2]])
    BY <1>6
  <2>3. Failed(CoerceDict(v, T[2], coerce))
    BY <2>1
  <2>4. CoerceDict(v, T[2], coerce) = Invalid /\ v \notin ObjectOf(schema[T[2]])
    BY <2>2, <2>3, DictAnswers
  <2> QED BY <2>1, <2>4
<1>7. CASE T[1] = "model" /\ \A f \in Elements(Models[T[2]]) : f.type \in D
  <2>1. r = (IF v[1] = "dict" THEN ValidateModel(T[2], v[2], coerce) ELSE Invalid) /\ S = SchemaForDataclass(T[2], schema)
    BY <1>1, <1>2, <1>7, CoerceCases, SchemaCases
  <2>2. CASE v[1] # "dict"
    BY <2>1, <2>2 DEF SchemaForDataclass, Typed
  <2>3. CASE v[1] = "dict"
    <3>1. T[2] \in DOMAIN Models
      BY <1>1, <1>7, TypesClosed
    <3>2. \A i \in DOMAIN Models[T[2]] : Answers(coerce[Models[T[2]][i].type], schema[Models[T[2]][i].type])
      BY <1>7 DEF Elements
    <3>3. Failed(ValidateModel(T[2], v[2], coerce))
      BY <2>1, <2>3
    <3>4. ValidateModel(T[2], v[2], coerce) = Invalid /\ v \notin SchemaForDataclass(T[2], schema)
      BY <2>3, <3>1, <3>2, <3>3, ModelAnswers
    <3> QED BY <2>1, <2>3, <3>4
  <2> QED BY <2>2, <2>3
<1>8. CASE T[1] = "fixed" /\ T[2][1] \in D
  <2> DEFINE U == T[2][1]
  <2>1. r = CoerceItems(v, "tuple", U, coerce) /\ S = ArrayOf(schema[U])
    BY <1>1, <1>2, <1>8, CoerceCases, SchemaCases
  <2>2. U \in Types /\ Answers(coerce[U], schema[U])
    BY <1>8
  <2>3. Failed(CoerceItems(v, "tuple", U, coerce))
    BY <2>1
  <2> HIDE DEF U
  <2>4. CoerceItems(v, "tuple", U, coerce) = Invalid /\ v \notin ArrayOf(schema[U])
    BY <2>2, <2>3, ItemsAnswer
  <2> QED BY <2>1, <2>4
<1> QED BY <1>1, <1>3, <1>4, <1>5, <1>6, <1>7, <1>8

\* What the calls give for a type whose values can be in a set, can be.
LEMMA CoerceHashes == \A n \in 0..MaxDepth : Hashes(Coerce[n])
<1> SUFFICES ASSUME NEW n \in 0..MaxDepth, NEW T \in HashableType[MaxDepth], NEW v \in JsonValues,
                    ~Failed(Coerce[n][T][v])
             PROVE  Coerce[n][T][v][2] \in Hashable[MaxLevels]
  BY DEF Hashes, Gives
<1>1. Coerce[n][T][v][2] \in Hashable[n]
  BY HashableGiven DEF Gives
<1>2. n \in 0..MaxLevels /\ MaxLevels \in 0..MaxLevels
  BY Bounds
<1> QED BY <1>1, <1>2, HashableIncreasing

\* The calls of one level more than the schema has refuse none of its ordinary
\* documents.
LEMMA DocumentedAnswers ==
  \A n \in 0..MaxDepth-1 : /\ Documented[n] \subseteq Types
                           /\ \A T \in Documented[n] : Answers(Coerce[n + 1][T], Schema[n][T])
<1> DEFINE S == {n \in 0..MaxDepth-1 : /\ Documented[n] \subseteq Types
                                       /\ \A T \in Documented[n] : Answers(Coerce[n + 1][T], Schema[n][T])}
<1>1. 0 \in S
  BY DocumentedLevels, Bounds
<1>2. ASSUME NEW n \in 1..MaxDepth-1, n - 1 \in S PROVE n \in S
  <2> DEFINE coerce == Coerce[n]
             schema == Schema[n - 1]
             D == Documented[n - 1]
  <2>1. /\ n \in 1..MaxDepth /\ n \in 0..MaxDepth /\ n + 1 \in 1..MaxDepth /\ n \in 0..MaxDepth-1
        /\ (n + 1) - 1 = n /\ (n - 1) + 1 = n
    BY Bounds
  <2>2. D \subseteq Types /\ \A A \in D : Answers(coerce[A], schema[A])
    BY <1>2, <2>1
  <2>3. /\ Coerce[n + 1] = CoerceNested(coerce) /\ Schema[n] = SchemaNested(schema)
        /\ Documented[n] = DocumentedAround(D)
    BY <2>1, CoerceLevels, SchemaLevels, DocumentedLevels
  <2>4. Hashes(coerce)
    BY <2>1, CoerceHashes
  <2> HIDE DEF coerce, schema, D
  <2>5. ASSUME NEW T \in Documented[n] PROVE Answers(Coerce[n + 1][T], Schema[n][T])
    BY <2>2, <2>3, <2>4, <2>5, TypeAnswers
  <2>6. Documented[n] \subseteq Types
    BY <2>3 DEF DocumentedAround
  <2> QED BY <2>1, <2>5, <2>6
<1>3. \A n \in 0..MaxDepth-1 : n \in S
  <2>1. MaxDepth - 1 \in Nat
    BY Bounds
  <2> HIDE DEF S
  <2> QED BY <1>1, <1>2, <2>1, Upward
<1> QED BY <1>3

\* Every body that the published OpenAPI schema of a class admits is accepted
\* by the validator of that class (validation.py:106 and 179), unless it holds
\* an integer that no float can hold or half of a surrogate pair.
THEOREM ApiAccepts == ApiSpec => []DocumentedIsAccepted
<1>1. ApiInv => DocumentedIsAccepted
  <2> DEFINE T == <<"model", cls>>
             D == Documented[MaxDepth - 1]
             coerce == Coerce[MaxDepth]
             schema == Schema[MaxDepth - 1]
  <2> SUFFICES ASSUME ApiInv, T \in Documented[MaxDepth], body \in Schema[MaxDepth][T],
                      body \in Ordinary[MaxDepth], Failed(Validated)
               PROVE  FALSE
    BY DEF DocumentedIsAccepted
  <2>1. /\ MaxDepth \in 1..MaxDepth /\ MaxDepth \in 0..MaxDepth /\ MaxDepth - 1 \in 0..MaxDepth-1
        /\ (MaxDepth - 1) + 1 = MaxDepth
    BY Bounds
  <2>2. Documented[MaxDepth] = DocumentedAround(D) /\ Schema[MaxDepth] = SchemaNested(schema)
    BY <2>1, DocumentedLevels, SchemaLevels
  <2>3. D \subseteq Types /\ \A A \in D : Answers(coerce[A], schema[A])
    BY <2>1, DocumentedAnswers
  <2>4. PICK m \in Classes : m = cls
    BY DEF ApiInv
  <2>5. m \in DOMAIN Models
    BY ApiAssumption
  <2> HIDE DEF D, schema
  <2>6. T \in Types /\ T[1] = "model" /\ T[2] = m /\ \A f \in Elements(Models[m]) : f.type \in D
    <3>1. T \in DocumentedAround(D) /\ T = <<"model", m>>
      BY <2>2, <2>4
    <3> QED BY <3>1 DEF DocumentedAround, Scalars
  <2>7. body \in SchemaForDataclass(m, schema)
    <3>1. body \in SchemaNested(schema)[T]
      BY <2>2
    <3> HIDE DEF T
    <3> QED BY <2>6, <3>1, SchemaCases
  <2>8. body \in Documents /\ body[1] = "dict"
    BY <2>7 DEF SchemaForDataclass, Typed
  <2>9. Validated = ValidateModel(m, body[2], coerce)
    BY <2>4, <2>8 DEF Validated, ValidateBody
  <2> HIDE DEF coerce
  <2>10. \A i \in DOMAIN Models[m] : Answers(coerce[Models[m][i].type], schema[Models[m][i].type])
    BY <2>3, <2>6 DEF Elements
  <2> QED BY <2>5, <2>7, <2>8, <2>9, <2>10, ModelAnswers
<1> QED BY <1>1, ApiInvariant, PTL
=============================================================================
