----------------------------- MODULE TaskLedger -----------------------------
(***************************************************************************)
(* What the tasks table promises its readers: a persistent task is run     *)
(* only from pending, a failure costs one of its attempts, and the table   *)
(* gives up on it after MaxRetries of them.  Nothing is said of threads,   *)
(* of time or of crashes; TaskQueue implements it.                         *)
(***************************************************************************)
EXTENDS Naturals

CONSTANTS Tasks, MaxRetries

VARIABLES status, attempts

ledger == <<status, attempts>>

Init ==
  /\ status = [t \in Tasks |-> "absent"]
  /\ attempts = [t \in Tasks |-> 0]

Add(t) ==
  /\ status[t] = "absent"
  /\ status' = [status EXCEPT ![t] = "pending"]
  /\ UNCHANGED attempts

Begin(t) ==
  /\ status[t] = "pending"
  /\ status' = [status EXCEPT ![t] = "running"]
  /\ UNCHANGED attempts

Succeed(t) ==
  /\ status[t] = "running"
  /\ status' = [status EXCEPT ![t] = "done"]
  /\ UNCHANGED attempts

Fail(t) ==
  /\ status[t] = "running"
  /\ attempts' = [attempts EXCEPT ![t] = @ + 1]
  /\ status' = [status EXCEPT
                  ![t] = IF attempts[t] + 1 >= MaxRetries THEN "dead" ELSE "pending"]

Next == \E t \in Tasks : Add(t) \/ Begin(t) \/ Succeed(t) \/ Fail(t)

Spec == Init /\ [][Next]_ledger
=============================================================================
