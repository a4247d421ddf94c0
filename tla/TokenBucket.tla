----------------------------- MODULE TokenBucket -----------------------------
(***************************************************************************)
(* TokenBucketLimiter of src/sovereign/security.py, for one key: threads   *)
(* of one process that share a limiter, over a dictionary or over a table  *)
(* whose old rows are deleted.                                             *)
(*                                                                         *)
(* consume() reads the clock first and waits for the lock afterwards, so   *)
(* the time stamps of two calls may reach the bucket in either order.      *)
(* The clock is a float: it advances here by 1/Second of a second, Second  *)
(* being any number.  A token is counted as Window * Second units, which   *)
(* makes the refill of one step of the clock exactly Requests units.       *)
(***************************************************************************)
EXTENDS Integers

CONSTANTS
  Callers,    \* the threads
  Requests,   \* requests per window
  Window,     \* seconds
  Second,     \* the resolution of the clock: how much it shows for a second
  Steps,      \* the amounts by which the clock may be seen to advance
  PruneAge,   \* max(4 * window, 3600): the age at which a row is deleted
  MaxLag,     \* bound: how long a call may wait between its stamp and the lock
  MaxTime,    \* bound: how far the clock runs
  Nobody

ASSUME BucketAssumption ==
  /\ Requests \in Nat \ {0} /\ Window \in Nat \ {0}
  /\ Second \in Nat \ {0} /\ Steps \subseteq Nat \ {0}
  /\ MaxLag \in Nat /\ MaxTime \in Nat
  /\ PruneAge \in Nat /\ PruneAge >= Window * Second + 2 * MaxLag
  /\ Nobody \notin Callers

VARIABLES
  clock,     \* time.monotonic() or time.time(), in 1/Second of a second
  row,       \* the key has an entry
  tokens,    \* its tokens (when there is one)
  updated,   \* its time stamp
  lock,      \* the holder of the RLock
  pc, now,   \* of each caller: where it is, and its stamp
  seen,      \* the tokens it read, refilled to its stamp
  left,      \* the tokens it left behind (the call's second result)
  granted,   \* history: requests admitted since the observer began
  since      \* history: the stamp of the first request it saw, or -1

bucket == <<row, tokens, updated>>
local == <<pc, now, seen, left>>
history == <<granted, since>>
vars == <<clock, bucket, lock, local, history>>

Cost == Window * Second        \* a token
Capacity == Requests * Cost

LesserOf(a, b) == IF a < b THEN a ELSE b

Init ==
  /\ clock = 0
  /\ row = FALSE /\ tokens = Capacity /\ updated = 0
  /\ lock = Nobody
  /\ pc = [c \in Callers |-> "idle"]
  /\ now = [c \in Callers |-> 0]
  /\ seen = [c \in Callers |-> 0]
  /\ left = [c \in Callers |-> 0]
  /\ granted = 0 /\ since = -1

(* Mutant: a late call is given the entry as it is, though it puts the     *)
(* time stamp back.                                                        *)
RefilledForward(n) ==
  IF ~row THEN Capacity
  ELSE IF n < updated THEN tokens
       ELSE LesserOf(Capacity, tokens + (n - updated) * Requests)

(* The bucket without an entry is full at any time; with one, it has been  *)
(* refilled since its stamp - or, for a call that comes late, drained.     *)
RefilledTo(n) ==
  IF row THEN LesserOf(Capacity, tokens + (n - updated) * Requests) ELSE Capacity

Stamp(c) ==
  /\ pc[c] = "idle"
  /\ now' = [now EXCEPT ![c] = clock]
  /\ pc' = [pc EXCEPT ![c] = "stamped"]
  /\ UNCHANGED <<clock, bucket, lock, seen, left, history>>

(* The lock is taken, the entry read.                                      *)
ReadBucket(c) ==
  /\ pc[c] = "stamped" /\ lock = Nobody
  /\ lock' = c
  /\ seen' = [seen EXCEPT ![c] = RefilledTo(now[c])]
  /\ pc' = [pc EXCEPT ![c] = "locked"]
  /\ UNCHANGED <<clock, bucket, now, left, history>>

(* The entry is written back, and the lock released.                       *)
WriteBucket(c) ==
  /\ pc[c] = "locked"
  /\ LET allowed == seen[c] >= Cost
         rest == IF allowed THEN seen[c] - Cost ELSE seen[c]
     IN /\ row' = TRUE /\ tokens' = rest /\ updated' = now[c]
        /\ left' = [left EXCEPT ![c] = rest]
        /\ granted' = IF allowed THEN granted + 1 ELSE granted
        /\ pc' = [pc EXCEPT ![c] = IF allowed THEN "admitted" ELSE "denied"]
  /\ since' = IF since = -1 THEN now[c] ELSE since
  /\ lock' = Nobody
  /\ UNCHANGED <<clock, now, seen>>

(* A consume() of another key, in the same critical section, deletes the   *)
(* rows older than PruneAge by its own stamp, which is of now at the       *)
(* latest.                                                                 *)
Prune ==
  /\ lock = Nobody /\ row
  /\ updated < clock - PruneAge
  /\ row' = FALSE /\ tokens' = Capacity /\ updated' = 0
  /\ UNCHANGED <<clock, lock, local, history>>

(* The response is on its way; the thread may come back.                   *)
Return(c) ==
  /\ pc[c] \in {"admitted", "denied"}
  /\ pc' = [pc EXCEPT ![c] = "idle"]
  /\ now' = [now EXCEPT ![c] = 0]
  /\ seen' = [seen EXCEPT ![c] = 0]
  /\ left' = [left EXCEPT ![c] = 0]
  /\ UNCHANGED <<clock, bucket, lock, history>>

Tick ==
  /\ \E d \in Steps :
       /\ clock + d <= MaxTime
       /\ \A c \in Callers :
            pc[c] \in {"stamped", "locked"} => clock + d - now[c] <= MaxLag
       /\ clock' = clock + d
  /\ UNCHANGED <<bucket, lock, local, history>>

(* The observer begins to count, whatever state the bucket is in.          *)
Observe ==
  /\ lock = Nobody
  /\ granted' = 0 /\ since' = -1
  /\ UNCHANGED <<clock, bucket, lock, local>>

Next ==
  \/ \E c \in Callers : Stamp(c) \/ ReadBucket(c) \/ WriteBucket(c) \/ Return(c)
  \/ Prune \/ Tick \/ Observe

Spec == Init /\ [][Next]_vars

(* Mutant: int(retry).                                                     *)
RetryAfterRoundedDown(t) ==
  LET n == (Cost - t) \div (Requests * Second) IN IF n < 1 THEN 1 ELSE n

(* The header of a refusal, in seconds: max(1, int(retry + 0.999)) for     *)
(* retry = (1 - tokens) / refill_rate, in integers.  A retry that is less  *)
(* than a thousandth above a whole second is rounded down.                 *)
RetryAfter(t) ==
  LET n == (1000 * (Cost - t) + 999 * (Requests * Second)) \div (1000 * (Requests * Second))
  IN IF n < 1 THEN 1 ELSE n

-----------------------------------------------------------------------------
(* Properties.                                                             *)

(* The entry, the stamps and the locals of a call keep their types; the    *)
(* tokens may be driven below zero by a late call.                         *)
TypeOK ==
  /\ clock \in Nat
  /\ row \in BOOLEAN /\ tokens \in Int /\ updated \in Nat
  /\ lock \in Callers \cup {Nobody}
  /\ pc \in [Callers -> {"idle", "stamped", "locked", "admitted", "denied"}]
  /\ now \in [Callers -> Nat]
  /\ seen \in [Callers -> Int] /\ left \in [Callers -> Int]
  /\ granted \in Nat /\ since \in Int

(* From any request on, the key is admitted at most Requests times plus    *)
(* the refill of the time that has passed - although stamps arrive out of  *)
(* order and rows are deleted in between.                                  *)
AdmissionBound ==
  since # -1 => Cost * granted <= Capacity + Requests * (clock - since)

(* The lock makes read and write one step: what a caller is about to write *)
(* is computed from the entry as it still is.                              *)
ReadIsFresh ==
  \A c \in Callers : pc[c] = "locked" => lock = c /\ seen[c] = RefilledTo(now[c])

(* A client that obeys the Retry-After of its refusal, and comes a         *)
(* millisecond later than it was told, finds a token if nobody else takes  *)
(* it.  Without the millisecond it may be refused again.                   *)
RetryAdviceSuffices ==
  \A c \in Callers :
    pc[c] = "denied" =>
      1000 * left[c] + Requests * Second * (1000 * RetryAfter(left[c]) + 1) >= 1000 * Cost
=============================================================================
