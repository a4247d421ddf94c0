-------------------------- MODULE BruteForceProofs --------------------------
(***************************************************************************)
(* The guard for any number of callers, any block and any waiting time for *)
(* the lock that is shorter than the block.                                *)
(***************************************************************************)
EXTENDS BruteForce, TLAPS

(* Who is between the two statements of record_failure holds the lock, and *)
(* what it has read is still in the row; no stamp is older than MaxLag.    *)
Locked ==
  /\ \A c \in Callers : pc[c] = "write" => lock = c /\ count[c] = attempts
  /\ \A c \in Callers : lag[c] <= MaxLag

(* The row: a block belongs to enough attempts, and every failure since it *)
(* was created is in it.                                                   *)
Row ==
  /\ attempts = fails
  /\ blocks => attempts >= MaxAttempts

(* While the key is blocked, a call that came after the block was set has  *)
(* been given the rest of it by status(), and goes no further.             *)
Gated ==
  Blocked => \A c \in Callers \ early :
    /\ pc[c] \notin {"expired", "handler"}
    /\ pc[c] = "gate" => until[c] = Block - old

Inv == TypeOK /\ Locked /\ Row /\ Gated

LEMMA InitInv == Init => Inv
<1> SUFFICES ASSUME Init PROVE Inv
  OBVIOUS
<1> USE GuardAssumption DEF Init
<1>1. TypeOK BY DEF TypeOK
<1>2. Locked BY DEF Locked
<1>3. Row BY DEF Row
<1>4. Gated BY DEF Gated, Blocked
<1>5. QED BY <1>1, <1>2, <1>3, <1>4 DEF Inv

(* Every step keeps the types.                                             *)
LEMMA TypeStep == TypeOK /\ [Next]_vars => TypeOK'
<1> SUFFICES ASSUME TypeOK, [Next]_vars PROVE TypeOK'
  OBVIOUS
<1> USE GuardAssumption DEF TypeOK, Goto, Leave, DeleteRow,
        Decided, tuple, local, history
<1>1. ASSUME NEW c \in Callers, Stamp(c) PROVE TypeOK'
  BY <1>1 DEF Stamp
<1>2. ASSUME NEW c \in Callers, Status(c) PROVE TypeOK'
  <2>1. (IF Blocked THEN Block - old ELSE 0) \in Nat
    BY DEF Blocked
  <2>2. until' \in [Callers -> Nat] /\ lag' \in [Callers -> Nat]
    BY <1>2, <2>1 DEF Status
  <2>3. pc' \in [Callers -> {"idle", "status", "expired", "gate", "handler",
                           "read", "write", "reset"}]
    BY <1>2 DEF Status
  <2>4. QED BY <1>2, <2>2, <2>3 DEF Status
<1>3. ASSUME NEW c \in Callers, ResetExpired(c) PROVE TypeOK'
  BY <1>3 DEF ResetExpired
<1>4. ASSUME NEW c \in Callers, Gate(c) PROVE TypeOK'
  BY <1>4 DEF Gate
<1>5. ASSUME NEW c \in Callers, Handler(c) PROVE TypeOK'
  BY <1>5 DEF Handler
<1>6. ASSUME NEW c \in Callers, RecordRead(c) PROVE TypeOK'
  BY <1>6 DEF RecordRead
<1>7. ASSUME NEW c \in Callers, RecordWrite(c) PROVE TypeOK'
  BY <1>7 DEF RecordWrite
<1>8. ASSUME NEW c \in Callers, Reset(c) PROVE TypeOK'
  BY <1>8 DEF Reset
<1>9. ASSUME NEW c \in Callers, DatabaseError(c) PROVE TypeOK'
  BY <1>9 DEF DatabaseError
<1>10. CASE Prune
  BY <1>10 DEF Prune
<1>11. CASE Tick
  BY <1>11 DEF Tick
<1>12. CASE UNCHANGED vars
  BY <1>12 DEF vars
<1>13. QED
  BY <1>1, <1>2, <1>3, <1>4, <1>5, <1>6, <1>7, <1>8, <1>9,
     <1>10, <1>11, <1>12 DEF Next, Call

(* Every step leaves the row to the holder of the lock.                    *)
LEMMA LockStep == TypeOK /\ Locked /\ [Next]_vars => Locked'
<1> SUFFICES ASSUME TypeOK /\ Locked, [Next]_vars PROVE Locked'
  OBVIOUS
<1> USE GuardAssumption DEF TypeOK, Locked, Goto, Leave, DeleteRow,
        tuple, local, history
<1>1. ASSUME NEW c \in Callers, Stamp(c) PROVE Locked'
  BY <1>1 DEF Stamp
<1>2. ASSUME NEW c \in Callers, Status(c) PROVE Locked'
  BY <1>2 DEF Status
<1>3. ASSUME NEW c \in Callers, ResetExpired(c) PROVE Locked'
  BY <1>3 DEF ResetExpired
<1>4. ASSUME NEW c \in Callers, Gate(c) PROVE Locked'
  BY <1>4 DEF Gate
<1>5. ASSUME NEW c \in Callers, Handler(c) PROVE Locked'
  BY <1>5 DEF Handler
<1>6. ASSUME NEW c \in Callers, RecordRead(c) PROVE Locked'
  BY <1>6 DEF RecordRead
<1>7. ASSUME NEW c \in Callers, RecordWrite(c) PROVE Locked'
  BY <1>7 DEF RecordWrite
<1>8. ASSUME NEW c \in Callers, Reset(c) PROVE Locked'
  BY <1>8 DEF Reset
<1>9. ASSUME NEW c \in Callers, DatabaseError(c) PROVE Locked'
  BY <1>9 DEF DatabaseError
<1>10. CASE Prune
  BY <1>10 DEF Prune
<1>11. CASE Tick
  BY <1>11 DEF Tick
<1>12. CASE UNCHANGED vars
  BY <1>12 DEF vars
<1>13. QED
  BY <1>1, <1>2, <1>3, <1>4, <1>5, <1>6, <1>7, <1>8, <1>9,
     <1>10, <1>11, <1>12 DEF Next, Call

(* Every step keeps the count.                                             *)
LEMMA RowStep == TypeOK /\ Locked /\ Row /\ [Next]_vars => Row'
<1> SUFFICES ASSUME TypeOK /\ Locked /\ Row, [Next]_vars PROVE Row'
  OBVIOUS
<1> USE GuardAssumption DEF TypeOK, Locked, Row, Goto, Leave, DeleteRow,
        tuple, local, history
<1>1. ASSUME NEW c \in Callers, Stamp(c) PROVE Row'
  BY <1>1 DEF Stamp
<1>2. ASSUME NEW c \in Callers, Status(c) PROVE Row'
  BY <1>2 DEF Status
<1>3. ASSUME NEW c \in Callers, ResetExpired(c) PROVE Row'
  BY <1>3 DEF ResetExpired
<1>4. ASSUME NEW c \in Callers, Gate(c) PROVE Row'
  BY <1>4 DEF Gate
<1>5. ASSUME NEW c \in Callers, Handler(c) PROVE Row'
  BY <1>5 DEF Handler
<1>6. ASSUME NEW c \in Callers, RecordRead(c) PROVE Row'
  BY <1>6 DEF RecordRead
<1>7. ASSUME NEW c \in Callers, RecordWrite(c) PROVE Row'
  BY <1>7 DEF RecordWrite
<1>8. ASSUME NEW c \in Callers, Reset(c) PROVE Row'
  BY <1>8 DEF Reset
<1>9. ASSUME NEW c \in Callers, DatabaseError(c) PROVE Row'
  BY <1>9 DEF DatabaseError
<1>10. CASE Prune
  BY <1>10 DEF Prune
<1>11. CASE Tick
  BY <1>11 DEF Tick
<1>12. CASE UNCHANGED vars
  BY <1>12 DEF vars
<1>13. QED
  BY <1>1, <1>2, <1>3, <1>4, <1>5, <1>6, <1>7, <1>8, <1>9,
     <1>10, <1>11, <1>12 DEF Next, Call

(* Every step keeps later calls out.                                       *)
LEMMA GateStep == TypeOK /\ Locked /\ Row /\ Gated /\ [Next]_vars => Gated'
<1> SUFFICES ASSUME TypeOK /\ Locked /\ Row /\ Gated, [Next]_vars PROVE Gated'
  OBVIOUS
<1> USE GuardAssumption DEF TypeOK, Locked, Gated, Blocked, Decided,
        Goto, Leave, DeleteRow, tuple, local, history
<1>1. ASSUME NEW c \in Callers, Stamp(c) PROVE Gated'
  BY <1>1 DEF Stamp
<1>2. ASSUME NEW c \in Callers, Status(c) PROVE Gated'
  BY <1>2 DEF Status
<1>3. ASSUME NEW c \in Callers, ResetExpired(c) PROVE Gated'
  BY <1>3 DEF ResetExpired
<1>4. ASSUME NEW c \in Callers, Gate(c) PROVE Gated'
  BY <1>4 DEF Gate
<1>5. ASSUME NEW c \in Callers, Handler(c) PROVE Gated'
  BY <1>5 DEF Handler
<1>6. ASSUME NEW c \in Callers, RecordRead(c) PROVE Gated'
  BY <1>6 DEF RecordRead
<1>7. ASSUME NEW c \in Callers, RecordWrite(c) PROVE Gated'
  BY <1>7 DEF RecordWrite
<1>8. ASSUME NEW c \in Callers, Reset(c) PROVE Gated'
  BY <1>8 DEF Reset
<1>9. ASSUME NEW c \in Callers, DatabaseError(c) PROVE Gated'
  BY <1>9 DEF DatabaseError
<1>10. CASE Prune
  BY <1>10 DEF Prune
<1>11. CASE Tick
  <2> SUFFICES ASSUME Blocked', NEW c \in Callers \ early
               PROVE  /\ pc[c] \notin {"expired", "handler"}
                      /\ pc[c] = "gate" => until'[c] = Block - old'
    BY <1>11 DEF Tick
  <2>1. old' = old + 1 /\ blocks
    BY <1>11 DEF Tick, Row
  <2>2. Block - old \in Nat \ {0}
    BY <2>1
  <2>3. pc[c] \notin {"expired", "handler"} /\ (pc[c] = "gate" => until[c] = Block - old)
    BY <2>1, <2>2
  <2>4. until'[c] = IF until[c] > 0 THEN until[c] - 1 ELSE 0
    BY <1>11 DEF Tick
  <2>5. QED BY <2>1, <2>2, <2>3, <2>4
<1>12. CASE UNCHANGED vars
  BY <1>12 DEF vars
<1>13. QED
  BY <1>1, <1>2, <1>3, <1>4, <1>5, <1>6, <1>7, <1>8, <1>9,
     <1>10, <1>11, <1>12 DEF Next, Call

LEMMA Invariance == Spec => []Inv
<1>1. Inv /\ [Next]_vars => Inv'
  BY TypeStep, LockStep, RowStep, GateStep DEF Inv
<1>2. QED BY <1>1, InitInv, PTL DEF Spec

-----------------------------------------------------------------------------
(* The row, the lock and the locals of a call keep their types (security.py *)
(* 126-196).                                                                *)
THEOREM GuardTypes == Spec => []TypeOK
<1>1. Inv => TypeOK BY DEF Inv
<1>2. QED BY <1>1, Invariance, PTL

(* Two calls that fail at the same time are both counted (security.py      *)
(* 160-171).                                                               *)
THEOREM AllFailuresCounted == Spec => []FailuresCounted
<1>1. Inv => FailuresCounted BY DEF Inv, Row, FailuresCounted
<1>2. QED BY <1>1, Invariance, PTL

(* The handler of a blocked key serves nobody who came after the block was *)
(* set (security.py 178-185).                                              *)
THEOREM LaterCallsRefused == Spec => []BlockRefusesLaterCalls
<1>1. Inv => BlockRefusesLaterCalls BY DEF Inv, Gated, BlockRefusesLaterCalls
<1>2. QED BY <1>1, Invariance, PTL

(* A failure on its way when the key is blocked does not lift the block    *)
(* (security.py 164-169).                                                  *)
THEOREM BlockKept == Spec => FailuresKeepBlock
<1> DEFINE Kept == Blocked /\ ~Blocked' => attempts' = 0 \/ old' = old + 1
<1>1. Inv /\ [Next]_vars => Kept
  <2> SUFFICES ASSUME Inv, [Next]_vars, Blocked, ~Blocked' PROVE attempts' = 0 \/ old' = old + 1
    OBVIOUS
  <2> USE GuardAssumption DEF Blocked
  <2>1. ASSUME NEW c \in Callers, RecordWrite(c) PROVE FALSE
    <3>1. count[c] = attempts /\ lag[c] < Block /\ attempts >= MaxAttempts
      BY <2>1 DEF RecordWrite, Inv, TypeOK, Locked, Row
    <3>2. count[c] + 1 >= MaxAttempts
      BY <3>1 DEF Inv, TypeOK
    <3>3. blocks' = (count[c] + 1 >= MaxAttempts) /\ old' = lag[c]
      BY <2>1, Zenon DEF RecordWrite
    <3>4. blocks'
      BY <3>2, <3>3, Zenon
    <3>5. QED BY <3>1, <3>3, <3>4
  <2>2. ASSUME NEW c \in Callers, ResetExpired(c) \/ Reset(c) PROVE attempts' = 0
    BY <2>2 DEF ResetExpired, Reset, DeleteRow
  <2>3. ASSUME NEW c \in Callers,
               \/ Stamp(c) \/ Status(c) \/ Gate(c) \/ Handler(c) \/ RecordRead(c)
               \/ DatabaseError(c)
        PROVE  FALSE
    BY <2>3 DEF Stamp, Status, Gate, Handler, RecordRead, DatabaseError, tuple
  <2>4. CASE Prune BY <2>4 DEF Prune, DeleteRow
  <2>5. CASE Tick BY <2>5 DEF Tick
  <2>6. CASE UNCHANGED vars BY <2>6 DEF vars, tuple
  <2>7. QED BY <2>1, <2>2, <2>3, <2>4, <2>5, <2>6 DEF Next, Call
<1>2. Inv /\ [Next]_vars => [Kept]_vars BY <1>1
<1>3. QED BY <1>2, Invariance, PTL DEF Spec, FailuresKeepBlock
=============================================================================
