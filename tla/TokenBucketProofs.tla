-------------------------- MODULE TokenBucketProofs --------------------------
(***************************************************************************)
(* The admission bound of the limiter, for every rate, window and number   *)
(* of threads, although time stamps reach the bucket out of order.         *)
(*                                                                         *)
(* The argument is a potential: what was admitted and what is left in the  *)
(* bucket together never exceed a full bucket plus the refill up to the    *)
(* bucket's own stamp (Account).  A late call lowers the stamp and the     *)
(* tokens alike.                                                           *)
(***************************************************************************)
EXTENDS TokenBucket, TLAPS

(* A stamp is of the past, and of the recent past while it is in use.      *)
Stamps ==
  /\ updated <= clock /\ since <= clock /\ since >= -1
  /\ \A c \in Callers :
       /\ now[c] <= clock
       /\ pc[c] \in {"stamped", "locked"} => clock - now[c] <= MaxLag

(* The entry is never above capacity nor, refilled to the clock, below 0.  *)
Level ==
  /\ tokens <= Capacity
  /\ 0 - Requests * MaxLag <= tokens
  /\ 0 <= tokens + Requests * (clock - updated)
  /\ ~row => tokens = Capacity

(* Admitted so far, with what the entry still allows.                      *)
Account ==
  /\ since = -1 => granted = 0
  /\ since # -1 /\ row =>
       Cost * granted + tokens <= Capacity + Requests * (updated - since)
  /\ since # -1 /\ ~row =>
       Cost * granted <= Requests * (clock - MaxLag - since)

Inv == TypeOK /\ Stamps /\ ReadIsFresh /\ Level /\ Account

-----------------------------------------------------------------------------
(* The arithmetic of the refill.                                           *)
LEMMA Refill ==
  ASSUME NEW r \in Nat, NEW a \in Int, NEW b \in Int
  PROVE  /\ r * a \in Int
         /\ r * (a - b) = r * a - r * b
         /\ a <= b => r * a <= r * b
<1>1. r * a \in Int OBVIOUS
<1>2. r * (a - b) = r * a - r * b OBVIOUS
<1>3. a <= b => r * a <= r * b OBVIOUS
<1>4. QED BY <1>1, <1>2, <1>3

LEMMA Constants ==
  /\ Requests \in Nat /\ Cost \in Nat /\ MaxLag \in Nat /\ PruneAge \in Nat
  /\ Capacity \in Nat /\ Capacity = Requests * Cost /\ Cost >= 1 /\ Requests >= 1
  /\ PruneAge >= Cost + 2 * MaxLag
  /\ Nobody \notin Callers /\ Steps \subseteq Nat
<1>1. /\ Requests \in Nat /\ MaxLag \in Nat /\ PruneAge \in Nat
      /\ Requests >= 1 /\ Nobody \notin Callers /\ Steps \subseteq Nat
  BY BucketAssumption
<1>2. Cost \in Nat /\ Cost >= 1 /\ PruneAge >= Cost + 2 * MaxLag
  <2>1. Window \in Nat /\ Second \in Nat /\ Window >= 1 /\ Second >= 1
    BY BucketAssumption
  <2>2. Window * Second \in Nat /\ Window * 1 <= Window * Second
    BY <2>1, Refill
  <2>3. QED BY <2>1, <2>2, BucketAssumption DEF Cost
<1>3. Requests * Cost \in Nat BY <1>1, <1>2
<1>4. QED BY <1>1, <1>2, <1>3 DEF Capacity

(* A read of the bucket at stamp n.                                        *)
LEMMA RefilledLevel ==
  ASSUME TypeOK, Stamps, Level, NEW n \in Nat, n <= clock
  PROVE  /\ RefilledTo(n) \in Int
         /\ RefilledTo(n) <= Capacity
         /\ 0 <= RefilledTo(n) + Requests * (clock - n)
         /\ row => RefilledTo(n) <= tokens + Requests * (n - updated)
<1>1. Requests \in Nat /\ Capacity \in Nat BY Constants
<1>2. clock \in Int /\ updated \in Int /\ tokens \in Int BY DEF TypeOK
<1> DEFINE A == Requests * (n - updated)
           B == Requests * (clock - n)
           C == Requests * (clock - updated)
<1>3. A \in Int /\ B \in Int /\ C \in Int /\ C = A + B
  <2>1. A = Requests * n - Requests * updated BY <1>1, <1>2, Refill
  <2>2. B = Requests * clock - Requests * n BY <1>1, <1>2, Refill
  <2>3. C = Requests * clock - Requests * updated BY <1>1, <1>2, Refill
  <2>4. /\ Requests * n \in Int /\ Requests * updated \in Int
        /\ Requests * clock \in Int
    BY <1>1, <1>2, Refill
  <2>5. QED BY <2>1, <2>2, <2>3, <2>4
<1>4. B >= 0
  <2>1. Requests * n <= Requests * clock BY <1>1, <1>2, Refill
  <2>2. B = Requests * clock - Requests * n BY <1>1, <1>2, Refill
  <2>3. Requests * n \in Int /\ Requests * clock \in Int BY <1>1, <1>2, Refill
  <2>4. QED BY <2>1, <2>2, <2>3
<1>5. (n - updated) * Requests = A BY <1>1, <1>2
<1>6. RefilledTo(n) = IF row THEN LesserOf(Capacity, tokens + A) ELSE Capacity
  BY <1>5 DEF RefilledTo
<1> HIDE DEF A, B, C
<1>7. 0 <= tokens + C BY DEF Level, C
<1>8. /\ RefilledTo(n) \in Int /\ RefilledTo(n) <= Capacity
      /\ 0 <= RefilledTo(n) + B
      /\ row => RefilledTo(n) <= tokens + A
  BY <1>1, <1>2, <1>3, <1>4, <1>6, <1>7 DEF LesserOf
<1>9. QED BY <1>8 DEF A, B

-----------------------------------------------------------------------------
LEMMA InitInv == Init => Inv
<1> SUFFICES ASSUME Init PROVE Inv
  OBVIOUS
<1>0. Capacity \in Int BY Constants
<1>1. TypeOK /\ Stamps /\ ReadIsFresh
  <2>1. TypeOK
    <3>1. now \in [Callers -> Nat] /\ seen \in [Callers -> Int] /\ left \in [Callers -> Int]
      BY DEF Init
    <3>2. pc \in [Callers -> {"idle", "stamped", "locked", "admitted", "denied"}]
      BY DEF Init
    <3>3. tokens \in Int BY <1>0 DEF Init
    <3>4. since \in Int BY DEF Init
    <3>5. row \in BOOLEAN BY DEF Init
    <3>6. QED BY <3>1, <3>2, <3>3, <3>4, <3>5 DEF Init, TypeOK
  <2>2. Stamps BY Constants DEF Init, Stamps
  <2>3. ReadIsFresh BY DEF Init, ReadIsFresh
  <2>4. QED BY <2>1, <2>2, <2>3
<1>2. 0 <= Requests * MaxLag /\ Requests * MaxLag \in Int BY Constants
<1>3. Requests * (clock - updated) = 0 BY Constants DEF Init
<1>4. Level BY <1>2, <1>3, Constants DEF Init, Level
<1>5. Account BY DEF Init, Account
<1>6. QED BY <1>1, <1>4, <1>5 DEF Inv

(* Types, stamps and the lock: no arithmetic on tokens.                    *)
LEMMA TypeStep == Inv /\ [Next]_vars => TypeOK'
<1> SUFFICES ASSUME Inv, [Next]_vars PROVE TypeOK'
  OBVIOUS
<1> USE Constants DEF TypeOK, bucket, local, history
<1>0. TypeOK BY DEF Inv
<1>1. ASSUME NEW c \in Callers, Stamp(c) PROVE TypeOK' BY <1>0, <1>1 DEF Stamp
<1>2. ASSUME NEW c \in Callers, ReadBucket(c) PROVE TypeOK'
  <2>1. now[c] \in Nat /\ now[c] <= clock BY <1>0 DEF Inv, Stamps
  <2>2. RefilledTo(now[c]) \in Int BY <2>1, RefilledLevel DEF Inv
  <2>3. QED BY <1>0, <1>2, <2>2 DEF ReadBucket
<1>3. ASSUME NEW c \in Callers, WriteBucket(c) PROVE TypeOK'
  <2>1. seen[c] \in Int /\ seen[c] - Cost \in Int /\ now[c] \in Nat BY <1>0
  <2>2. /\ row' \in BOOLEAN /\ tokens' \in Int /\ updated' \in Nat
        /\ granted' \in Nat /\ since' \in Int
    BY <1>0, <1>3, <2>1 DEF WriteBucket
  <2>3. left' \in [Callers -> Int] BY <1>0, <1>3, <2>1 DEF WriteBucket
  <2>4. pc' \in [Callers -> {"idle", "stamped", "locked", "admitted", "denied"}]
    BY <1>0, <1>3 DEF WriteBucket
  <2>5. QED BY <1>0, <1>3, <2>2, <2>3, <2>4 DEF WriteBucket
<1>4. ASSUME NEW c \in Callers, Return(c) PROVE TypeOK' BY <1>0, <1>4 DEF Return
<1>5. CASE Prune
  <2>1. row' = FALSE /\ tokens' = Capacity /\ updated' = 0 BY <1>5 DEF Prune
  <2>2. Capacity \in Int BY Constants
  <2>3. UNCHANGED <<clock, lock, local, history>> BY <1>5 DEF Prune
  <2>4. QED BY <1>0, <2>1, <2>2, <2>3
<1>6. CASE Tick BY <1>0, <1>6 DEF Tick
<1>7. CASE Observe BY <1>0, <1>7 DEF Observe
<1>8. CASE UNCHANGED vars BY <1>0, <1>8 DEF vars
<1>9. QED BY <1>1, <1>2, <1>3, <1>4, <1>5, <1>6, <1>7, <1>8 DEF Next

LEMMA StampStep == Inv /\ [Next]_vars => Stamps'
<1> SUFFICES ASSUME Inv, [Next]_vars PROVE Stamps'
  OBVIOUS
<1> USE Constants DEF TypeOK, Stamps, bucket, local, history
<1>0. TypeOK /\ Stamps BY DEF Inv
<1>1. ASSUME NEW c \in Callers, Stamp(c) PROVE Stamps' BY <1>0, <1>1 DEF Stamp
<1>2. ASSUME NEW c \in Callers, ReadBucket(c) PROVE Stamps' BY <1>0, <1>2 DEF ReadBucket
<1>3. ASSUME NEW c \in Callers, WriteBucket(c) PROVE Stamps'
  <2>1. updated' = now[c] /\ clock' = clock /\ now' = now BY <1>3 DEF WriteBucket
  <2>2. since' = since \/ since' = now[c] BY <1>3 DEF WriteBucket
  <2>3. \A d \in Callers : pc'[d] \in {"stamped", "locked"} => pc[d] \in {"stamped", "locked"}
    BY <1>0, <1>3 DEF WriteBucket
  <2>4. QED BY <1>0, <2>1, <2>2, <2>3
<1>4. ASSUME NEW c \in Callers, Return(c) PROVE Stamps' BY <1>0, <1>4 DEF Return
<1>5. CASE Prune BY <1>0, <1>5 DEF Prune
<1>6. CASE Tick BY <1>0, <1>6 DEF Tick
<1>7. CASE Observe BY <1>0, <1>7 DEF Observe
<1>8. CASE UNCHANGED vars BY <1>0, <1>8 DEF vars
<1>9. QED BY <1>1, <1>2, <1>3, <1>4, <1>5, <1>6, <1>7, <1>8 DEF Next

LEMMA FreshStep == Inv /\ [Next]_vars => ReadIsFresh'
<1> SUFFICES ASSUME Inv, [Next]_vars PROVE ReadIsFresh'
  OBVIOUS
<1> USE Constants DEF TypeOK, ReadIsFresh, RefilledTo, bucket, local, history
<1>0. TypeOK /\ ReadIsFresh BY DEF Inv
<1>1. ASSUME NEW c \in Callers, Stamp(c) PROVE ReadIsFresh' BY <1>0, <1>1 DEF Stamp
<1>2. ASSUME NEW c \in Callers, ReadBucket(c) PROVE ReadIsFresh' BY <1>0, <1>2 DEF ReadBucket
<1>3. ASSUME NEW c \in Callers, WriteBucket(c) PROVE ReadIsFresh'
  <2>1. lock = c BY <1>0, <1>3 DEF WriteBucket
  <2>2. \A d \in Callers : pc'[d] # "locked"
    BY <1>0, <1>3, <2>1 DEF WriteBucket
  <2>3. QED BY <2>2
<1>4. ASSUME NEW c \in Callers, Return(c) PROVE ReadIsFresh' BY <1>0, <1>4 DEF Return
<1>5. CASE Prune BY <1>0, <1>5 DEF Prune
<1>6. CASE Tick BY <1>0, <1>6 DEF Tick
<1>7. CASE Observe BY <1>0, <1>7 DEF Observe
<1>8. CASE UNCHANGED vars BY <1>0, <1>8 DEF vars
<1>9. QED BY <1>1, <1>2, <1>3, <1>4, <1>5, <1>6, <1>7, <1>8 DEF Next

(* What a write leaves behind, from what it read.                          *)
LEMMA Written ==
  ASSUME Inv, NEW c \in Callers, WriteBucket(c)
  PROVE  /\ now[c] \in Nat /\ now[c] <= clock /\ clock - now[c] <= MaxLag
         /\ seen[c] = RefilledTo(now[c]) /\ tokens' \in Int
         /\ tokens' + Cost * granted' = seen[c] + Cost * granted
         /\ tokens' <= seen[c] /\ tokens' <= Capacity
         /\ 0 <= tokens' + Requests * (clock - now[c])
         /\ row' /\ updated' = now[c] /\ clock' = clock
<1>1. now[c] \in Nat /\ now[c] <= clock /\ clock - now[c] <= MaxLag
  BY DEF Inv, TypeOK, Stamps, WriteBucket
<1>2. seen[c] = RefilledTo(now[c]) /\ seen[c] \in Int
  BY DEF Inv, ReadIsFresh, WriteBucket, TypeOK
<1>3. seen[c] <= Capacity /\ 0 <= seen[c] + Requests * (clock - now[c])
  BY <1>1, <1>2, RefilledLevel DEF Inv
<1>4. clock - now[c] \in Nat /\ Requests * (clock - now[c]) \in Nat
  <2>1. clock - now[c] \in Nat BY <1>1 DEF Inv, TypeOK
  <2>2. QED BY <2>1, Constants
<1>5. /\ tokens' = IF seen[c] >= Cost THEN seen[c] - Cost ELSE seen[c]
      /\ granted' = IF seen[c] >= Cost THEN granted + 1 ELSE granted
      /\ row' /\ updated' = now[c] /\ clock' = clock
  BY DEF WriteBucket
<1>6. Cost * (granted + 1) = Cost * granted + Cost /\ Cost * granted \in Int
  BY Constants DEF Inv, TypeOK
<1>7. QED BY <1>1, <1>2, <1>3, <1>4, <1>5, <1>6, Constants

LEMMA LevelStep == Inv /\ [Next]_vars => Level'
<1> SUFFICES ASSUME Inv, [Next]_vars PROVE Level'
  OBVIOUS
<1>0. TypeOK /\ Stamps /\ Level BY DEF Inv
<1>1. ASSUME UNCHANGED bucket, UNCHANGED clock PROVE Level'
  BY <1>0, <1>1 DEF Level, bucket
<1>2. ASSUME NEW c \in Callers, WriteBucket(c) PROVE Level'
  <2> DEFINE B == Requests * (clock - now[c])
             M == Requests * MaxLag
  <2>1. B \in Int /\ M \in Int /\ B <= M
    <3>1. clock - now[c] \in Int /\ clock - now[c] <= MaxLag
      BY <1>0, <1>2, Written DEF TypeOK
    <3>2. QED BY <3>1, Refill, Constants
  <2>2. /\ tokens' <= Capacity /\ tokens' \in Int /\ row'
        /\ updated' = now[c] /\ clock' = clock
    BY <1>2, Written
  <2>3. 0 <= tokens' + B BY <1>2, Written
  <2>4. 0 - M <= tokens'
    <3>1. tokens' \in Int BY <2>2
    <3>2. B \in Int /\ M \in Int /\ B <= M /\ 0 <= tokens' + B BY <2>1, <2>3
    <3> HIDE DEF B, M
    <3>3. \A x, b, m \in Int : b <= m /\ 0 <= x + b => 0 - m <= x OBVIOUS
    <3>4. QED BY <3>1, <3>2, <3>3
  <2>5. QED BY <2>2, <2>3, <2>4 DEF Level
<1>3. CASE Prune
  <2>1. row' = FALSE /\ tokens' = Capacity /\ updated' = 0 /\ clock' = clock
    BY <1>3 DEF Prune
  <2>2. clock - 0 \in Nat BY <1>0 DEF TypeOK
  <2>3. Requests * (clock - 0) \in Nat /\ Requests * MaxLag \in Nat BY <2>2, Constants
  <2>4. QED BY <2>1, <2>3, Constants DEF Level
<1>4. CASE Tick
  <2> DEFINE C == Requests * (clock - updated)
             D == Requests * (clock' - updated)
  <2>0. PICK d \in Nat : clock' = clock + d
    BY <1>4, Constants DEF Tick
  <2>1. UNCHANGED bucket BY <1>4 DEF Tick
  <2>2. C \in Int /\ D \in Int /\ C <= D
    <3>1. /\ clock - updated \in Int /\ clock' - updated \in Int
          /\ clock - updated <= clock' - updated
      BY <1>0, <2>0 DEF TypeOK
    <3>2. QED BY <3>1, Refill, Constants
  <2>3. 0 <= tokens + C /\ tokens \in Int BY <1>0 DEF Level, TypeOK
  <2>4. 0 <= tokens + D
    <3> HIDE DEF C, D
    <3>1. QED BY <2>2, <2>3
  <2>5. QED BY <1>0, <2>1, <2>4 DEF Level, bucket
<1>5. ASSUME NEW c \in Callers, Stamp(c) \/ ReadBucket(c) \/ Return(c) PROVE Level'
  BY <1>1, <1>5 DEF Stamp, ReadBucket, Return
<1>6. CASE Observe \/ UNCHANGED vars
  BY <1>1, <1>6 DEF Observe, vars
<1>7. QED BY <1>2, <1>3, <1>4, <1>5, <1>6 DEF Next

LEMMA AccountStep == Inv /\ [Next]_vars => Account'
<1> SUFFICES ASSUME Inv, [Next]_vars PROVE Account'
  OBVIOUS
<1>0. TypeOK /\ Stamps /\ Level /\ Account BY DEF Inv
<1>1. ASSUME UNCHANGED bucket, UNCHANGED clock, UNCHANGED history PROVE Account'
  BY <1>0, <1>1 DEF Account, bucket, history
<1>2. ASSUME NEW c \in Callers, WriteBucket(c) PROVE Account'
  <2> DEFINE n == now[c]
             G == Cost * granted
  <2>1. /\ n \in Nat /\ n <= clock /\ clock - n <= MaxLag
        /\ seen[c] = RefilledTo(n) /\ tokens' \in Int /\ row' /\ updated' = n
        /\ tokens' + Cost * granted' = seen[c] + G
    BY <1>2, Written
  <2>2. seen[c] \in Int /\ seen[c] <= Capacity
        /\ (row => seen[c] <= tokens + Requests * (n - updated))
    BY <1>0, <2>1, RefilledLevel
  <2>3. G \in Int /\ Cost * granted' \in Int /\ Capacity \in Int
    <3>1. granted' \in Nat BY TypeStep DEF TypeOK
    <3>2. QED BY <1>0, <3>1, Constants DEF TypeOK
  <2>4. since' # -1
    <3>1. n # -1 BY <2>1
    <3>2. QED BY <1>2, <3>1 DEF WriteBucket
  <2>5. CASE since = -1
    <3>1. since' = n /\ granted = 0 BY <1>0, <1>2, <2>5 DEF WriteBucket, Account
    <3>2. G = 0 BY <3>1, Constants
    <3>3. Requests * (n - n) = 0 BY <2>1, Constants
    <3>4. Cost * granted' + tokens' <= Capacity + Requests * (updated' - since')
      <4> HIDE DEF n, G
      <4>1. QED BY <2>1, <2>2, <2>3, <3>1, <3>2, <3>3
    <3>5. QED BY <2>1, <2>4, <3>4 DEF Account
  <2>6. CASE since # -1 /\ row
    <3> DEFINE X == Requests * (updated - since)
               Y == Requests * (n - updated)
               Z == Requests * (n - since)
    <3>1. since' = since BY <1>2, <2>6 DEF WriteBucket
    <3>2. X \in Int /\ Y \in Int /\ Z \in Int /\ Z = X + Y
      <4>1. since \in Int /\ updated \in Int /\ n \in Int /\ Requests \in Nat
        BY <1>0, <2>1, Constants DEF TypeOK
      <4>2. /\ X = Requests * updated - Requests * since
            /\ Y = Requests * n - Requests * updated
            /\ Z = Requests * n - Requests * since
        BY <4>1, Refill
      <4>3. /\ Requests * updated \in Int /\ Requests * since \in Int
            /\ Requests * n \in Int
        BY <4>1, Refill
      <4>4. QED BY <4>2, <4>3
    <3>3. G + tokens <= Capacity + X BY <1>0, <2>6 DEF Account
    <3>4. seen[c] <= tokens + Y BY <2>2, <2>6
    <3>5. tokens \in Int BY <1>0 DEF TypeOK
    <3>6. Cost * granted' + tokens' <= Capacity + Z
      <4> HIDE DEF X, Y, Z, G, n
      <4>1. QED BY <2>1, <2>2, <2>3, <3>2, <3>3, <3>4, <3>5
    <3>7. QED BY <2>1, <2>4, <3>1, <3>6 DEF Account
  <2>7. CASE since # -1 /\ ~row
    <3> DEFINE P == Requests * (clock - MaxLag - since)
               Z == Requests * (n - since)
    <3>1. since' = since BY <1>2, <2>7 DEF WriteBucket
    <3>2. P \in Int /\ Z \in Int /\ P <= Z
      <4>1. /\ clock - MaxLag - since \in Int /\ n - since \in Int
            /\ clock - MaxLag - since <= n - since
        BY <1>0, <2>1, Constants DEF TypeOK
      <4>2. QED BY <4>1, Refill, Constants
    <3>3. G <= P BY <1>0, <2>7 DEF Account
    <3>4. Cost * granted' + tokens' <= Capacity + Z
      <4> HIDE DEF P, Z, G, n
      <4>1. QED BY <2>1, <2>2, <2>3, <3>2, <3>3
    <3>5. QED BY <2>1, <2>4, <3>1, <3>4 DEF Account
  <2>8. QED BY <1>0, <2>5, <2>6, <2>7 DEF TypeOK
<1>3. CASE Prune
  <2>1. updated < clock - PruneAge
    BY <1>3 DEF Prune
  <2>2. row /\ row' = FALSE /\ UNCHANGED <<clock, granted, since>>
    BY <1>3 DEF Prune, history
  <2>3. CASE since # -1
    <3> DEFINE X == Requests * (updated - since)
               M == Requests * MaxLag
               P == Requests * (clock - MaxLag - since)
               S == Requests * (Cost + (updated - since) + MaxLag)
               G == Cost * granted
    <3>1. /\ clock \in Int /\ updated \in Int /\ since \in Int /\ tokens \in Int
          /\ Requests \in Nat /\ Cost \in Int /\ MaxLag \in Int /\ PruneAge \in Int
      BY <1>0, <2>1, Constants DEF TypeOK
    <3>2. S = Capacity + X + M
      BY <3>1, Constants
    <3>3. S <= P /\ S \in Int /\ P \in Int /\ X \in Int /\ M \in Int
      <4>1. Cost + (updated - since) + MaxLag <= clock - MaxLag - since
        BY <2>1, <3>1, Constants
      <4>2. /\ Cost + (updated - since) + MaxLag \in Int
            /\ clock - MaxLag - since \in Int /\ updated - since \in Int
        BY <3>1
      <4>3. QED BY <3>1, <4>1, <4>2, Refill
    <3>4. G + tokens <= Capacity + X BY <1>0, <2>2, <2>3 DEF Account
    <3>5. 0 - M <= tokens BY <1>0 DEF Level
    <3>6. G \in Int /\ Capacity \in Int BY <1>0, Constants DEF TypeOK
    <3>7. G <= P
      <4> HIDE DEF X, M, P, S, G
      <4>1. QED BY <3>1, <3>2, <3>3, <3>4, <3>5, <3>6
    <3>8. QED BY <2>2, <2>3, <3>7 DEF Account
  <2>4. CASE since = -1 BY <1>0, <2>2, <2>4 DEF Account
  <2>5. QED BY <2>3, <2>4
<1>4. CASE Tick
  <2> DEFINE P == Requests * (clock - MaxLag - since)
             Q == Requests * (clock' - MaxLag - since)
             G == Cost * granted
  <2>0. PICK d \in Nat : clock' = clock + d
    BY <1>4, Constants DEF Tick
  <2>1. UNCHANGED bucket /\ UNCHANGED history BY <1>4 DEF Tick
  <2>2. P \in Int /\ Q \in Int /\ P <= Q
    <3>1. /\ clock - MaxLag - since \in Int /\ clock' - MaxLag - since \in Int
          /\ clock - MaxLag - since <= clock' - MaxLag - since
      BY <1>0, <2>0, Constants DEF TypeOK
    <3>2. QED BY <3>1, Refill, Constants
  <2>3. G \in Int BY <1>0, Constants DEF TypeOK
  <2>4. G <= P => G <= Q
    <3> HIDE DEF P, Q, G
    <3>1. QED BY <2>2, <2>3
  <2>5. QED BY <1>0, <2>1, <2>4 DEF Account, bucket, history
<1>5. ASSUME NEW c \in Callers, Stamp(c) \/ ReadBucket(c) \/ Return(c) PROVE Account'
  BY <1>1, <1>5 DEF Stamp, ReadBucket, Return
<1>6. CASE Observe BY <1>6 DEF Observe, Account
<1>7. CASE UNCHANGED vars BY <1>1, <1>7 DEF vars
<1>8. QED BY <1>2, <1>3, <1>4, <1>5, <1>6, <1>7 DEF Next

LEMMA Invariance == Spec => []Inv
<1>1. Inv /\ [Next]_vars => Inv'
  BY TypeStep, StampStep, FreshStep, LevelStep, AccountStep DEF Inv
<1>2. QED BY <1>1, InitInv, PTL DEF Spec

-----------------------------------------------------------------------------
(* The entry, the lock and the locals of allow() keep their types          *)
(* (security.py 21-124).                                                   *)
THEOREM BucketTypes == Spec => []TypeOK
<1>1. Inv => TypeOK BY DEF Inv
<1>2. QED BY <1>1, Invariance, PTL

(* From the first request an observer sees, stamped s, until the clock     *)
(* shows t, the key is admitted at most Requests + (t - s) * Requests /    *)
(* Window times, s and t in seconds (security.py 52-77).                   *)
THEOREM AdmissionBounded == Spec => []AdmissionBound
<1>1. Inv => AdmissionBound
  <2> SUFFICES ASSUME Inv, since # -1
               PROVE  Cost * granted <= Capacity + Requests * (clock - since)
    BY DEF AdmissionBound
  <2> DEFINE G == Cost * granted
             X == Requests * (updated - since)
             Y == Requests * (clock - updated)
             Z == Requests * (clock - since)
             P == Requests * (clock - MaxLag - since)
  <2>1. /\ clock \in Int /\ updated \in Int /\ since \in Int /\ tokens \in Int
        /\ Requests \in Nat /\ Capacity \in Nat /\ MaxLag \in Nat /\ G \in Int
    BY Constants DEF Inv, TypeOK
  <2>2. X \in Int /\ Y \in Int /\ Z \in Int /\ Z = X + Y
    <3>1. /\ X = Requests * updated - Requests * since
          /\ Y = Requests * clock - Requests * updated
          /\ Z = Requests * clock - Requests * since
      BY <2>1, Refill
    <3>2. /\ Requests * updated \in Int /\ Requests * since \in Int
          /\ Requests * clock \in Int
      BY <2>1, Refill
    <3>3. QED BY <3>1, <3>2
  <2>3. P \in Int /\ P <= Z
    <3>1. /\ clock - MaxLag - since \in Int /\ clock - since \in Int
          /\ clock - MaxLag - since <= clock - since
      BY <2>1
    <3>2. QED BY <2>1, <3>1, Refill
  <2>4. CASE row
    <3>1. G + tokens <= Capacity + X /\ 0 <= tokens + Y
      BY <2>4 DEF Inv, Account, Level
    <3> HIDE DEF G, X, Y, Z
    <3>2. G <= Capacity + Z BY <2>1, <2>2, <3>1
    <3>3. QED BY <3>2 DEF G, Z
  <2>5. CASE ~row
    <3>1. G <= P BY <2>5 DEF Inv, Account
    <3> HIDE DEF G, P, Z, X, Y
    <3>2. G <= Capacity + Z BY <2>1, <2>2, <2>3, <3>1
    <3>3. QED BY <3>2 DEF G, Z
  <2>6. QED BY <2>4, <2>5
<1>2. QED BY <1>1, Invariance, PTL

(* What a caller is about to write is computed from the entry as it still  *)
(* is (security.py 53-60, 64-77).                                          *)
THEOREM ReadFresh == Spec => []ReadIsFresh
<1>1. Inv => ReadIsFresh BY DEF Inv
<1>2. QED BY <1>1, Invariance, PTL

(* The rounding of int(retry + 0.999): not below retry by as much as a     *)
(* thousandth.                                                             *)
LEMMA RetryRounds ==
  ASSUME NEW t \in Int
  PROVE  1000 * t + Requests * Second * (1000 * RetryAfter(t) + 1) >= 1000 * Cost
<1> DEFINE y == Requests * Second
           a == 1000 * (Cost - t) + 999 * y
           b == 1000 * y
           q == a \div b
<1>1. y \in Nat /\ y >= 1 /\ Cost \in Nat
  <2>1. Requests \in Nat /\ Second \in Nat /\ Requests >= 1 /\ Second >= 1
    BY BucketAssumption
  <2>2. Requests * Second \in Nat /\ Requests * 1 <= Requests * Second
    BY <2>1, Refill
  <2>3. QED BY <2>1, <2>2, Constants
<1>2. RetryAfter(t) = IF q < 1 THEN 1 ELSE q BY DEF RetryAfter
<1>3. SUFFICES 1000 * t + y * (1000 * RetryAfter(t) + 1) >= 1000 * Cost
  OBVIOUS
<1> HIDE DEF y
<1>4. a \in Int /\ b \in Nat \ {0} BY <1>1
<1>5. q \in Int /\ a < b * q + b
  <2> HIDE DEF a, b
  <2>1. QED BY <1>4
<1>6. b * q = 1000 * (y * q) /\ y * q \in Int
  BY <1>1, <1>5
<1>7. y * (1000 * q + 1) = 1000 * (y * q) + y
  BY <1>1, <1>5
<1>8. 1000 * t + y * (1000 * q + 1) >= 1000 * Cost
  <2> DEFINE r == y * q
  <2>1. 1000 * (Cost - t) + 999 * y < 1000 * r + 1000 * y /\ r \in Int
    BY <1>5, <1>6
  <2>2. y * (1000 * q + 1) = 1000 * r + y BY <1>7
  <2> HIDE DEF r, q
  <2>3. QED BY <1>1, <2>1, <2>2
<1> HIDE DEF q
<1>9. CASE q >= 1
  <2>1. RetryAfter(t) = q BY <1>2, <1>5, <1>9
  <2>2. QED BY <1>8, <2>1
<1>10. CASE q < 1
  <2>1. RetryAfter(t) = 1 BY <1>2, <1>10
  <2>2. y * (1000 * q + 1) <= y * 1001 /\ y * (1000 * q + 1) \in Int /\ y * 1001 \in Int
    <3>1. 1000 * q + 1 \in Int /\ 1000 * q + 1 <= 1001 BY <1>5, <1>10
    <3>2. QED BY <1>1, <3>1, Refill
  <2>3. 1000 * 1 + 1 = 1001 OBVIOUS
  <2>4. QED BY <1>1, <1>8, <2>1, <2>2, <2>3
<1>11. QED BY <1>5, <1>9, <1>10

(* A refused client that waits as long as it was told, and a millisecond   *)
(* longer, finds a token if nobody else takes it - for every rate and      *)
(* window, and however finely the clock is read (security.py 87-89).       *)
THEOREM RetryAdviceHonest == Spec => []RetryAdviceSuffices
<1>1. Inv => RetryAdviceSuffices
  BY RetryRounds DEF Inv, TypeOK, RetryAdviceSuffices
<1>2. QED BY <1>1, Invariance, PTL
=============================================================================
