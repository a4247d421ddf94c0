------------------------------ MODULE TaskQueue ------------------------------
(***************************************************************************)
(* SQLiteTaskQueue of src/sovereign/tasks.py: the tasks table and the      *)
(* threads that work on it.  A worker is one queue object with its thread; *)
(* a server has one, and several processes may be given the same file.     *)
(*                                                                         *)
(* The connections are in autocommit mode, so each SQL statement is one    *)
(* step, and other threads, a stop, a crash or a database error come in    *)
(* between.  next_run is kept as the seconds still to wait.                *)
(***************************************************************************)
EXTENDS Naturals, FiniteSets

CONSTANTS
  Tasks,       \* row ids, in the order of AUTOINCREMENT
  Workers,     \* the queue objects on the database
  MaxRetries,  \* max_retries
  NoTask

ASSUME QueueAssumption ==
  /\ Tasks \subseteq Nat /\ IsFiniteSet(Tasks)
  /\ MaxRetries \in Nat \ {0}
  /\ NoTask \notin Tasks

VARIABLES
  status,      \* the column, "absent" before the row is inserted
  attempts,    \* the column
  wait,        \* seconds until next_run
  stop_event,  \* of each queue object
  pc,          \* where each thread is; "none" without a live thread
  task,        \* the row the thread works on
  tries,       \* its local variable attempts
  runs,        \* history: executions of each task
  lost         \* history: tasks whose worker died between claim and record

queueTable == <<status, attempts, wait>>
thread == <<pc, task, tries>>
history == <<runs, lost>>
vars == <<queueTable, stop_event, thread, history>>

Init ==
  /\ status = [t \in Tasks |-> "absent"]
  /\ attempts = [t \in Tasks |-> 0]
  /\ wait = [t \in Tasks |-> 0]
  /\ stop_event = [w \in Workers |-> FALSE]
  /\ pc = [w \in Workers |-> "none"]
  /\ task = [w \in Workers |-> NoTask]
  /\ tries = [w \in Workers |-> 0]
  /\ runs = [t \in Tasks |-> 0]
  /\ lost = {}

(* min(60, 2 ** attempts)                                                  *)
Delay(n) == IF 2^n < 60 THEN 2^n ELSE 60

(* The thread goes to p, still on its row.                                 *)
Goto(w, p) == pc' = [pc EXCEPT ![w] = p] /\ UNCHANGED <<task, tries>>

(* run_once is left: its locals are gone.                                  *)
Leave(w, p) ==
  /\ pc' = [pc EXCEPT ![w] = p]
  /\ task' = [task EXCEPT ![w] = NoTask]
  /\ tries' = [tries EXCEPT ![w] = 0]

(* The phases of run_once in which the row says running.                   *)
Holding == {"execute", "record_done", "record_failure"}

-----------------------------------------------------------------------------
(* Calls from other threads.                                               *)

Enqueue(t) ==
  /\ status[t] = "absent" /\ \A u \in Tasks : u < t => status[u] # "absent"
  /\ status' = [status EXCEPT ![t] = "pending"]
  /\ UNCHANGED <<attempts, wait, stop_event, thread, history>>

(* Mutant: start() takes back the rows it finds running.                   *)
StartRequeue(w) ==
  /\ pc[w] = "none"
  /\ stop_event' = [stop_event EXCEPT ![w] = FALSE]
  /\ status' = [t \in Tasks |-> IF status[t] = "running" THEN "pending" ELSE status[t]]
  /\ Goto(w, "loop")
  /\ UNCHANGED <<attempts, wait, history>>

(* start(): a live thread is left as it is, its stop_event too.            *)
Start(w) ==
  /\ pc[w] = "none"
  /\ stop_event' = [stop_event EXCEPT ![w] = FALSE]
  /\ Goto(w, "loop")
  /\ UNCHANGED <<queueTable, history>>

(* stop() returns after its join, or after five seconds without it.        *)
Stop(w) ==
  /\ stop_event' = [stop_event EXCEPT ![w] = TRUE]
  /\ UNCHANGED <<queueTable, thread, history>>

(* next_run comes nearer for every row.                                    *)
Tick ==
  /\ \E t \in Tasks : wait[t] > 0
  /\ wait' = [t \in Tasks |-> IF wait[t] > 0 THEN wait[t] - 1 ELSE 0]
  /\ UNCHANGED <<status, attempts, stop_event, thread, history>>

-----------------------------------------------------------------------------
(* run_forever and run_once, statement by statement.                       *)

LoopCheck(w) ==
  /\ pc[w] = "loop"
  /\ Goto(w, IF stop_event[w] THEN "none" ELSE "select")
  /\ UNCHANGED <<queueTable, stop_event, history>>

Due(t) == status[t] = "pending" /\ wait[t] = 0

(* Mutant: the rows are taken strictly in order.                           *)
SelectInOrder(w) ==
  /\ pc[w] = "select"
  /\ \E t \in Tasks :
       /\ status[t] \notin {"done", "dead"}
       /\ \A u \in Tasks : u < t => status[u] \in {"done", "dead"}
       /\ IF Due(t)
          THEN /\ task' = [task EXCEPT ![w] = t]
               /\ tries' = [tries EXCEPT ![w] = attempts[t]]
               /\ pc' = [pc EXCEPT ![w] = "claim"]
          ELSE Goto(w, "loop")
  /\ UNCHANGED <<queueTable, stop_event, history>>

(* ORDER BY id LIMIT 1                                                     *)
Select(w) ==
  /\ pc[w] = "select"
  /\ \/ \E t \in Tasks :
          /\ Due(t) /\ \A u \in Tasks : Due(u) => t <= u
          /\ task' = [task EXCEPT ![w] = t]
          /\ tries' = [tries EXCEPT ![w] = attempts[t]]
          /\ pc' = [pc EXCEPT ![w] = "claim"]
     \/ ~(\E t \in Tasks : Due(t)) /\ Goto(w, "loop")
  /\ UNCHANGED <<queueTable, stop_event, history>>

(* UPDATE ... SET status='running' WHERE id=?, whatever the row says now.  *)
Claim(w) ==
  /\ pc[w] = "claim"
  /\ status' = [status EXCEPT ![task[w]] = "running"]
  /\ Goto(w, "execute")
  /\ UNCHANGED <<attempts, wait, stop_event, history>>

(* The function returns, or it (its import, its arguments) raises.         *)
Execute(w) ==
  /\ pc[w] = "execute"
  /\ runs' = [runs EXCEPT ![task[w]] = @ + 1]
  /\ \/ Goto(w, "record_done")
     \/ /\ pc' = [pc EXCEPT ![w] = "record_failure"]
        /\ tries' = [tries EXCEPT ![w] = @ + 1]
        /\ UNCHANGED task
  /\ UNCHANGED <<queueTable, stop_event, lost>>

RecordDone(w) ==
  /\ pc[w] = "record_done"
  /\ status' = [status EXCEPT ![task[w]] = "done"]
  /\ Leave(w, "loop")
  /\ UNCHANGED <<attempts, wait, stop_event, history>>

(* This UPDATE is inside the try: its error counts as one of the function. *)
RecordDoneFails(w) ==
  /\ pc[w] = "record_done"
  /\ pc' = [pc EXCEPT ![w] = "record_failure"]
  /\ tries' = [tries EXCEPT ![w] = @ + 1]
  /\ UNCHANGED <<queueTable, stop_event, task, history>>

RecordFailure(w) ==
  /\ pc[w] = "record_failure"
  /\ status' = [status EXCEPT
                  ![task[w]] = IF tries[w] >= MaxRetries THEN "dead" ELSE "pending"]
  /\ attempts' = [attempts EXCEPT ![task[w]] = tries[w]]
  /\ wait' = [wait EXCEPT ![task[w]] = Delay(tries[w])]
  /\ Leave(w, "loop")
  /\ UNCHANGED <<stop_event, history>>

(* An error of the SELECT, of the claim or of the UPDATE in the except     *)
(* clause: nothing in run_forever catches it and the thread ends.          *)
ThreadDies(w) ==
  /\ pc[w] \in {"select", "claim", "record_failure"}
  /\ lost' = IF pc[w] = "record_failure" THEN lost \cup {task[w]} ELSE lost
  /\ Leave(w, "none")
  /\ UNCHANGED <<queueTable, stop_event, runs>>

(* Mutant: an interrupted task is put back for free.                       *)
CrashRequeue(w) ==
  /\ pc[w] # "none"
  /\ stop_event' = [stop_event EXCEPT ![w] = FALSE]
  /\ status' = [t \in Tasks |-> IF status[t] = "running" THEN "pending" ELSE status[t]]
  /\ Leave(w, "none")
  /\ UNCHANGED <<attempts, wait, history>>

(* The process dies, and comes back with a new queue object.               *)
Crash(w) ==
  /\ pc[w] # "none"
  /\ stop_event' = [stop_event EXCEPT ![w] = FALSE]
  /\ lost' = IF pc[w] \in Holding THEN lost \cup {task[w]} ELSE lost
  /\ Leave(w, "none")
  /\ UNCHANGED <<queueTable, runs>>

Work(w) ==
  \/ LoopCheck(w) \/ Select(w) \/ Claim(w) \/ Execute(w)
  \/ RecordDone(w) \/ RecordDoneFails(w) \/ RecordFailure(w) \/ ThreadDies(w)

Next ==
  \/ \E t \in Tasks : Enqueue(t)
  \/ \E w \in Workers : Start(w) \/ Stop(w) \/ Work(w) \/ Crash(w)
  \/ Tick

Spec == Init /\ [][Next]_vars

(* A live thread is scheduled, a function that was called returns, time    *)
(* passes, and a process that died is started again (the compose files     *)
(* say restart: unless-stopped).                                           *)
FairSpec ==
  /\ Spec
  /\ WF_vars(Tick)
  /\ \A w \in Workers : WF_vars(Work(w)) /\ WF_vars(Start(w))

-----------------------------------------------------------------------------
(* Properties.                                                             *)

(* The columns and the locals of run_once keep their types.                *)
TypeOK ==
  /\ status \in [Tasks -> {"absent", "pending", "running", "done", "dead"}]
  /\ attempts \in [Tasks -> Nat]
  /\ stop_event \in [Workers -> BOOLEAN]
  /\ pc \in [Workers -> {"none", "loop", "select", "claim"} \cup Holding]
  /\ task \in [Workers -> Tasks \cup {NoTask}]
  /\ tries \in [Workers -> Nat]
  /\ runs \in [Tasks -> Nat]

(* With one worker the table behaves as the ledger it is read as, through  *)
(* every crash and every database error.                                   *)
Ledger == INSTANCE TaskLedger
          WITH Tasks <- Tasks, MaxRetries <- MaxRetries, status <- status, attempts <- attempts
LedgerSpec == Ledger!Spec

(* A task is executed max_retries times at most, over all restarts, and    *)
(* each execution but the current or a lost one is accounted for in        *)
(* attempts or in done.                                                    *)
RunsAccounted ==
  \A t \in Tasks :
    /\ runs[t] <= MaxRetries
    /\ status[t] \in {"pending", "dead"} => runs[t] = attempts[t]
    /\ status[t] = "done" => runs[t] = attempts[t] + 1

(* A row says running only while a thread is on it, or when that thread    *)
(* died on it: without a crash or a database error no task is stranded.    *)
RunningIsHeld ==
  \A t \in Tasks : status[t] = "running" =>
    t \in lost \/ \E w \in Workers : pc[w] \in Holding /\ task[w] = t

(* A pending task is done, dead or lost in the end, if a worker keeps      *)
(* running: the back-off ends, and no task is starved by the others.       *)
PendingSettles ==
  \A t \in Tasks : status[t] = "pending" ~>
    status[t] \in {"done", "dead"} \/ t \in lost \/ \E w \in Workers : pc[w] = "none"

(* README.en.md: persistent tasks have "retry logic"; a task that was      *)
(* claimed does not stay claimed, the process being restarted after a      *)
(* crash.                                                                  *)
ClaimIsReleased == \A t \in Tasks : status[t] = "running" ~> status[t] # "running"
=============================================================================
