----------------------------- MODULE BruteForce -----------------------------
(***************************************************************************)
(* BruteForceProtector of src/sovereign/security.py, for one key: threads  *)
(* that share a guard.  status, reset and record_failure are locked        *)
(* sections of their own, each with a clock reading made before the lock;  *)
(* the guarded handler runs between them, after a delay of any length.     *)
(*                                                                         *)
(* Times are kept as ages, so that no clock is needed: a row that blocks   *)
(* has blocked_until = updated_at + block_seconds.                         *)
(***************************************************************************)
EXTENDS Naturals

CONSTANTS
  Callers,      \* the threads
  MaxAttempts,  \* max_attempts
  Block,        \* block_seconds
  PruneAge,     \* max(4 * block_seconds, 86400): the age at which rows go
  MaxLag,       \* bound: seconds a call may wait between its stamp and the lock
  MaxCount,     \* bound: failures recorded in a row
  Nobody

ASSUME GuardAssumption ==
  /\ MaxAttempts \in Nat \ {0} /\ Block \in Nat \ {0}
  /\ PruneAge \in Nat /\ PruneAge >= 4 * Block
  /\ MaxLag \in Nat /\ MaxLag < Block
  /\ MaxCount \in Nat /\ MaxCount > MaxAttempts
  /\ Nobody \notin Callers

VARIABLES
  attempts,  \* the column; 0 when there is no row
  blocks,    \* blocked_until is not 0
  old,       \* age of updated_at, counted up to PruneAge + 1
  lock,      \* the holder of the RLock
  pc, lag,   \* of each caller: where it is, and the age of its clock reading
  until,     \* seconds to the blocked_until it was given by status()
  count,     \* the attempts it read in record_failure
  fails,     \* history: failures recorded since the row was last deleted
  early      \* history: calls that asked for the status before the block was set

tuple == <<attempts, blocks, old>>
local == <<pc, lag, until, count>>
history == <<fails, early>>
vars == <<tuple, lock, local, history>>

Init ==
  /\ attempts = 0 /\ blocks = FALSE /\ old = 0
  /\ lock = Nobody
  /\ pc = [c \in Callers |-> "idle"]
  /\ lag = [c \in Callers |-> 0]
  /\ until = [c \in Callers |-> 0]
  /\ count = [c \in Callers |-> 0]
  /\ fails = 0 /\ early = {}

(* blocked_until is in the future.                                         *)
Blocked == blocks /\ old < Block

(* The calls that have a status and have not acted on it to the end.       *)
Decided == {c \in Callers : pc[c] \in {"expired", "gate", "handler"}}

Goto(c, p) == pc' = [pc EXCEPT ![c] = p]

(* The call is over, with a response or an exception.                      *)
Leave(c) ==
  /\ Goto(c, "idle")
  /\ lag' = [lag EXCEPT ![c] = 0]
  /\ until' = [until EXCEPT ![c] = 0]
  /\ count' = [count EXCEPT ![c] = 0]

DeleteRow == attempts' = 0 /\ blocks' = FALSE /\ old' = 0 /\ fails' = 0

-----------------------------------------------------------------------------
(* __call__, up to the handler.                                            *)

(* status() reads the clock.                                               *)
Stamp(c) ==
  /\ pc[c] = "idle"
  /\ Goto(c, "status")
  /\ early' = early \ {c}
  /\ UNCHANGED <<tuple, lock, lag, until, count, fails>>

(* A block that had run out at the stamp is to be reset; otherwise the row *)
(* is returned as it is.                                                   *)
Status(c) ==
  /\ pc[c] = "status" /\ lock = Nobody
  /\ Goto(c, IF blocks /\ old >= Block + lag[c] THEN "expired" ELSE "gate")
  /\ until' = [until EXCEPT ![c] = IF Blocked THEN Block - old ELSE 0]
  /\ lag' = [lag EXCEPT ![c] = 0]
  /\ early' = early \ {c}
  /\ UNCHANGED <<tuple, lock, count, fails>>

(* reset() from status(), whatever the row has become.                     *)
ResetExpired(c) ==
  /\ pc[c] = "expired" /\ lock = Nobody
  /\ DeleteRow
  /\ Goto(c, "gate")
  /\ UNCHANGED <<lock, lag, until, count, early>>

(* Mutant: the remaining seconds are truncated before they are compared.   *)
GateTruncated(c) ==
  /\ pc[c] = "gate"
  /\ IF until[c] > 1 THEN Leave(c) ELSE Goto(c, "handler") /\ UNCHANGED <<lag, until, count>>
  /\ UNCHANGED <<tuple, lock, history>>

(* 403, or on to the handler.                                              *)
Gate(c) ==
  /\ pc[c] = "gate"
  /\ IF until[c] > 0 THEN Leave(c) ELSE Goto(c, "handler") /\ UNCHANGED <<lag, until, count>>
  /\ UNCHANGED <<tuple, lock, history>>

(* The handler fails to authenticate, does not, or raises something that   *)
(* is no HTTPError.                                                        *)
Handler(c) ==
  /\ pc[c] = "handler"
  /\ \/ Goto(c, "read") /\ UNCHANGED <<lag, until, count>>
     \/ Goto(c, "reset") /\ UNCHANGED <<lag, until, count>>
     \/ Leave(c)
  /\ UNCHANGED <<tuple, lock, history>>

-----------------------------------------------------------------------------
(* After the handler.                                                      *)

(* Mutant: the SELECT of record_failure without the lock.                  *)
RecordReadUnlocked(c) ==
  /\ pc[c] = "read" /\ attempts < MaxCount
  /\ count' = [count EXCEPT ![c] = attempts]
  /\ Goto(c, "write")
  /\ UNCHANGED <<tuple, lock, lag, until, history>>

RecordRead(c) ==
  /\ pc[c] = "read" /\ lock = Nobody /\ attempts < MaxCount
  /\ lock' = c
  /\ count' = [count EXCEPT ![c] = attempts]
  /\ Goto(c, "write")
  /\ UNCHANGED <<tuple, lag, until, history>>

(* Mutant: attempts == max_attempts.                                       *)
RecordWriteExactly(c) ==
  /\ pc[c] = "write"
  /\ attempts' = count[c] + 1
  /\ blocks' = (count[c] + 1 = MaxAttempts)
  /\ old' = lag[c]
  /\ lock' = Nobody
  /\ fails' = fails + 1
  /\ early' = IF blocks' THEN early \cup Decided ELSE early
  /\ Leave(c)

RecordWrite(c) ==
  /\ pc[c] = "write"
  /\ attempts' = count[c] + 1
  /\ blocks' = (count[c] + 1 >= MaxAttempts)
  /\ old' = lag[c]
  /\ lock' = Nobody
  /\ fails' = fails + 1
  /\ early' = IF blocks' THEN early \cup Decided ELSE early
  /\ Leave(c)

Reset(c) ==
  /\ pc[c] = "reset" /\ lock = Nobody
  /\ DeleteRow
  /\ Leave(c)
  /\ UNCHANGED <<lock, early>>

(* A statement raises: the lock is released and the call ends.             *)
DatabaseError(c) ==
  /\ \/ pc[c] \in {"status", "expired", "read", "reset"} /\ lock = Nobody
     \/ pc[c] = "write"
  /\ lock' = Nobody
  /\ Leave(c)
  /\ UNCHANGED <<tuple, history>>

-----------------------------------------------------------------------------
(* record_failure of another key deletes the rows not updated for long.    *)
Prune ==
  /\ lock = Nobody /\ old > PruneAge
  /\ DeleteRow
  /\ UNCHANGED <<lock, local, early>>

Tick ==
  /\ \A c \in Callers : pc[c] \in {"status", "read", "write"} => lag[c] < MaxLag
  /\ lag' = [c \in Callers |->
               IF pc[c] \in {"status", "read", "write"} THEN lag[c] + 1 ELSE 0]
  /\ until' = [c \in Callers |-> IF until[c] > 0 THEN until[c] - 1 ELSE 0]
  /\ old' = IF attempts > 0 /\ old <= PruneAge THEN old + 1 ELSE old
  /\ UNCHANGED <<attempts, blocks, lock, pc, count, history>>

Call(c) ==
  \/ Stamp(c) \/ Status(c) \/ ResetExpired(c) \/ Gate(c) \/ Handler(c)
  \/ RecordRead(c) \/ RecordWrite(c) \/ Reset(c) \/ DatabaseError(c)

Next == (\E c \in Callers : Call(c)) \/ Prune \/ Tick

Spec == Init /\ [][Next]_vars

-----------------------------------------------------------------------------
(* Properties.                                                             *)

(* The row, the lock and the locals of a call keep their types.            *)
TypeOK ==
  /\ attempts \in Nat /\ blocks \in BOOLEAN /\ old \in Nat
  /\ lock \in Callers \cup {Nobody}
  /\ pc \in [Callers -> {"idle", "status", "expired", "gate", "handler",
                         "read", "write", "reset"}]
  /\ lag \in [Callers -> Nat] /\ until \in [Callers -> Nat] /\ count \in [Callers -> Nat]
  /\ fails \in Nat /\ early \subseteq Callers

(* No failure is lost between two calls that fail at the same time: the    *)
(* column counts every one recorded since the row was deleted.             *)
FailuresCounted == attempts = fails

(* While a key is blocked the handler only serves calls that had asked for *)
(* the status before the block was set (or set anew).                      *)
BlockRefusesLaterCalls ==
  \A c \in Callers : Blocked /\ pc[c] = "handler" => c \in early

(* A block ends with its time or with its row.  Failures that arrive while *)
(* it lasts, from calls already under way, never lift it.                  *)
FailuresKeepBlock ==
  [][Blocked /\ ~Blocked' => attempts' = 0 \/ old' = old + 1]_vars
=============================================================================
