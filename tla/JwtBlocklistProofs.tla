------------------------- MODULE JwtBlocklistProofs -------------------------
(***************************************************************************)
(* How stale the answer of a process can be, for every number of threads   *)
(* and processes and every cache lifetime.  A cached or selected `not      *)
(* revoked' is bounded by the clock reading that preceded the query, and   *)
(* that reading by the moment of the revocation: what the invariant Stale  *)
(* carries from the SELECT through the cache to the verdict.               *)
(***************************************************************************)
EXTENDS JwtBlocklist, TLAPS

(* The with block is left by whoever entered it; clock readings are past.  *)
Locked ==
  /\ \A t \in Threads : pc[t] \in {"store", "inserted"} => lock[Owner[t]] = t
  /\ \A t \in Threads : mono[t] <= clock /\ wall[t] <= clock
  /\ \A p \in Processes : cache[p].until <= clock + CacheTtl
  /\ revokedAt >= -1 /\ revokedAt <= clock

(* The row is there from the first revocation until the token expires.     *)
RowKept ==
  /\ revoked => revokedAt # -1
  /\ revokedAt # -1 /\ ~revoked => clock > Expiry
  /\ \A t \in Threads : pc[t] = "inserted" => revokedAt # -1
  /\ known # {} => revokedAt # -1

(* A negative answer is no younger than the revocation allows.             *)
Stale ==
  revokedAt # -1 /\ clock <= Expiry =>
    /\ \A p \in Processes : ~cache[p].is => cache[p].until <= revokedAt + CacheTtl
    /\ \A t \in Threads : pc[t] = "store" /\ ~answer[t] => mono[t] <= revokedAt
    /\ \A t \in Threads : pc[t] = "accepted" => mono[t] <= revokedAt + CacheTtl

(* In a process that revoked the token there is no negative answer at all. *)
Told ==
  /\ \A t \in informed : Owner[t] \in known
  /\ clock <= Expiry =>
       /\ \A p \in known : cache[p].is
       /\ \A t \in Threads : Owner[t] \in known /\ pc[t] = "store" => answer[t]
       /\ \A t \in informed : pc[t] # "accepted"

(* No positive answer comes from anything but a revocation.                *)
Justified ==
  revokedAt = -1 =>
    /\ \A p \in Processes : ~cache[p].is
    /\ \A t \in Threads : ~answer[t] /\ pc[t] # "refused"

Inv == TypeOK /\ Locked /\ RowKept /\ Stale /\ Told /\ Justified

LEMMA InitInv == Init => Inv
<1> SUFFICES ASSUME Init PROVE Inv
  OBVIOUS
<1> USE BlocklistAssumption DEF Init, NoEntry
<1>1. TypeOK
  <2>1. cache \in [Processes -> [is : BOOLEAN, until : Nat]] OBVIOUS
  <2>2. pc \in [Threads -> Phases] BY DEF Phases
  <2>3. revokedAt \in Int OBVIOUS
  <2>4. QED BY <2>1, <2>2, <2>3 DEF TypeOK
<1>2. Locked BY DEF Locked
<1>3. RowKept BY DEF RowKept
<1>4. Stale BY DEF Stale
<1>5. Told BY DEF Told
<1>6. Justified BY DEF Justified
<1>7. QED BY <1>1, <1>2, <1>3, <1>4, <1>5, <1>6 DEF Inv

(* Every step keeps the types.                                             *)
LEMMA TypeStep == TypeOK /\ [Next]_vars => TypeOK'
<1> SUFFICES ASSUME TypeOK, [Next]_vars PROVE TypeOK'
  OBVIOUS
<1> USE BlocklistAssumption DEF TypeOK, Phases,
        Goto, Leave, NoEntry, local, history
<1>1. ASSUME NEW t \in Threads, CheckExpiry(t) PROVE TypeOK'
  BY <1>1 DEF CheckExpiry
<1>2. ASSUME NEW t \in Threads, ReadMono(t) PROVE TypeOK'
  BY <1>2 DEF ReadMono
<1>3. ASSUME NEW t \in Threads, CacheHit(t) PROVE TypeOK'
  BY <1>3 DEF CacheHit
<1>4. ASSUME NEW t \in Threads, CacheMiss(t) PROVE TypeOK'
  BY <1>4 DEF CacheMiss
<1>5. ASSUME NEW t \in Threads, SelectRow(t) PROVE TypeOK'
  BY <1>5 DEF SelectRow
<1>6. ASSUME NEW t \in Threads, SelectFails(t) PROVE TypeOK'
  BY <1>6 DEF SelectFails
<1>7. ASSUME NEW t \in Threads, StoreAnswer(t) PROVE TypeOK'
  BY <1>7 DEF StoreAnswer
<1>8. ASSUME NEW t \in Threads, InsertRow(t) PROVE TypeOK'
  BY <1>8 DEF InsertRow
<1>9. ASSUME NEW t \in Threads, RevokeFails(t) PROVE TypeOK'
  BY <1>9 DEF RevokeFails
<1>10. ASSUME NEW t \in Threads, CacheRevoked(t) PROVE TypeOK'
  BY <1>10 DEF CacheRevoked
<1>11. ASSUME NEW t \in Threads, Finish(t) PROVE TypeOK'
  BY <1>11 DEF Finish
<1>12. ASSUME NEW p \in Processes, Cleanup(p) PROVE TypeOK'
  BY <1>12 DEF Cleanup
<1>13. CASE CleanupTask
  BY <1>13 DEF CleanupTask
<1>14. CASE Tick
  BY <1>14 DEF Tick
<1>15. CASE UNCHANGED vars
  BY <1>15 DEF vars
<1>16. QED
  BY <1>1, <1>2, <1>3, <1>4, <1>5, <1>6, <1>7, <1>8, <1>9, <1>10, <1>11,
     <1>12, <1>13, <1>14, <1>15 DEF Next

(* Every step keeps the lock with its holder, and the clock ahead.         *)
LEMMA LockStep == TypeOK /\ Locked /\ [Next]_vars => Locked'
<1> SUFFICES ASSUME TypeOK /\ Locked, [Next]_vars PROVE Locked'
  OBVIOUS
<1> USE BlocklistAssumption DEF TypeOK, Locked,
        Goto, Leave, NoEntry, local, history
<1>1. ASSUME NEW t \in Threads, CheckExpiry(t) PROVE Locked'
  BY <1>1 DEF CheckExpiry
<1>2. ASSUME NEW t \in Threads, ReadMono(t) PROVE Locked'
  BY <1>2 DEF ReadMono
<1>3. ASSUME NEW t \in Threads, CacheHit(t) PROVE Locked'
  BY <1>3 DEF CacheHit
<1>4. ASSUME NEW t \in Threads, CacheMiss(t) PROVE Locked'
  BY <1>4 DEF CacheMiss
<1>5. ASSUME NEW t \in Threads, SelectRow(t) PROVE Locked'
  BY <1>5 DEF SelectRow
<1>6. ASSUME NEW t \in Threads, SelectFails(t) PROVE Locked'
  BY <1>6 DEF SelectFails
<1>7. ASSUME NEW t \in Threads, StoreAnswer(t) PROVE Locked'
  BY <1>7 DEF StoreAnswer
<1>8. ASSUME NEW t \in Threads, InsertRow(t) PROVE Locked'
  BY <1>8 DEF InsertRow
<1>9. ASSUME NEW t \in Threads, RevokeFails(t) PROVE Locked'
  BY <1>9 DEF RevokeFails
<1>10. ASSUME NEW t \in Threads, CacheRevoked(t) PROVE Locked'
  BY <1>10 DEF CacheRevoked
<1>11. ASSUME NEW t \in Threads, Finish(t) PROVE Locked'
  BY <1>11 DEF Finish
<1>12. ASSUME NEW p \in Processes, Cleanup(p) PROVE Locked'
  BY <1>12 DEF Cleanup
<1>13. CASE CleanupTask
  BY <1>13 DEF CleanupTask
<1>14. CASE Tick
  BY <1>14 DEF Tick
<1>15. CASE UNCHANGED vars
  BY <1>15 DEF vars
<1>16. QED
  BY <1>1, <1>2, <1>3, <1>4, <1>5, <1>6, <1>7, <1>8, <1>9, <1>10, <1>11,
     <1>12, <1>13, <1>14, <1>15 DEF Next

(* Every step keeps the row of a revoked token that has not expired.       *)
LEMMA RowStep == TypeOK /\ RowKept /\ [Next]_vars => RowKept'
<1> SUFFICES ASSUME TypeOK /\ RowKept, [Next]_vars PROVE RowKept'
  OBVIOUS
<1> USE BlocklistAssumption DEF TypeOK, RowKept,
        Goto, Leave, NoEntry, local, history
<1>1. ASSUME NEW t \in Threads, CheckExpiry(t) PROVE RowKept'
  BY <1>1 DEF CheckExpiry
<1>2. ASSUME NEW t \in Threads, ReadMono(t) PROVE RowKept'
  BY <1>2 DEF ReadMono
<1>3. ASSUME NEW t \in Threads, CacheHit(t) PROVE RowKept'
  BY <1>3 DEF CacheHit
<1>4. ASSUME NEW t \in Threads, CacheMiss(t) PROVE RowKept'
  BY <1>4 DEF CacheMiss
<1>5. ASSUME NEW t \in Threads, SelectRow(t) PROVE RowKept'
  BY <1>5 DEF SelectRow
<1>6. ASSUME NEW t \in Threads, SelectFails(t) PROVE RowKept'
  BY <1>6 DEF SelectFails
<1>7. ASSUME NEW t \in Threads, StoreAnswer(t) PROVE RowKept'
  BY <1>7 DEF StoreAnswer
<1>8. ASSUME NEW t \in Threads, InsertRow(t) PROVE RowKept'
  BY <1>8 DEF InsertRow
<1>9. ASSUME NEW t \in Threads, RevokeFails(t) PROVE RowKept'
  BY <1>9 DEF RevokeFails
<1>10. ASSUME NEW t \in Threads, CacheRevoked(t) PROVE RowKept'
  BY <1>10 DEF CacheRevoked
<1>11. ASSUME NEW t \in Threads, Finish(t) PROVE RowKept'
  BY <1>11 DEF Finish
<1>12. ASSUME NEW p \in Processes, Cleanup(p) PROVE RowKept'
  BY <1>12 DEF Cleanup
<1>13. CASE CleanupTask
  BY <1>13 DEF CleanupTask
<1>14. CASE Tick
  BY <1>14 DEF Tick
<1>15. CASE UNCHANGED vars
  BY <1>15 DEF vars
<1>16. QED
  BY <1>1, <1>2, <1>3, <1>4, <1>5, <1>6, <1>7, <1>8, <1>9, <1>10, <1>11,
     <1>12, <1>13, <1>14, <1>15 DEF Next

(* No step gives a negative answer a longer life.                          *)
LEMMA StaleStep == TypeOK /\ Locked /\ RowKept /\ Stale /\ [Next]_vars => Stale'
<1> SUFFICES ASSUME TypeOK /\ Locked /\ RowKept /\ Stale, [Next]_vars PROVE Stale'
  OBVIOUS
<1> USE BlocklistAssumption DEF TypeOK, Locked, RowKept, Stale,
        Goto, Leave, NoEntry, local, history
<1>1. ASSUME NEW t \in Threads, CheckExpiry(t) PROVE Stale'
  BY <1>1 DEF CheckExpiry
<1>2. ASSUME NEW t \in Threads, ReadMono(t) PROVE Stale'
  BY <1>2 DEF ReadMono
<1>3. ASSUME NEW t \in Threads, CacheHit(t) PROVE Stale'
  BY <1>3 DEF CacheHit
<1>4. ASSUME NEW t \in Threads, CacheMiss(t) PROVE Stale'
  BY <1>4 DEF CacheMiss
<1>5. ASSUME NEW t \in Threads, SelectRow(t) PROVE Stale'
  BY <1>5 DEF SelectRow
<1>6. ASSUME NEW t \in Threads, SelectFails(t) PROVE Stale'
  BY <1>6 DEF SelectFails
<1>7. ASSUME NEW t \in Threads, StoreAnswer(t) PROVE Stale'
  BY <1>7 DEF StoreAnswer
<1>8. ASSUME NEW t \in Threads, InsertRow(t) PROVE Stale'
  BY <1>8 DEF InsertRow
<1>9. ASSUME NEW t \in Threads, RevokeFails(t) PROVE Stale'
  BY <1>9 DEF RevokeFails
<1>10. ASSUME NEW t \in Threads, CacheRevoked(t) PROVE Stale'
  BY <1>10 DEF CacheRevoked
<1>11. ASSUME NEW t \in Threads, Finish(t) PROVE Stale'
  BY <1>11 DEF Finish
<1>12. ASSUME NEW p \in Processes, Cleanup(p) PROVE Stale'
  BY <1>12 DEF Cleanup
<1>13. CASE CleanupTask
  BY <1>13 DEF CleanupTask
<1>14. CASE Tick
  BY <1>14 DEF Tick
<1>15. CASE UNCHANGED vars
  BY <1>15 DEF vars
<1>16. QED
  BY <1>1, <1>2, <1>3, <1>4, <1>5, <1>6, <1>7, <1>8, <1>9, <1>10, <1>11,
     <1>12, <1>13, <1>14, <1>15 DEF Next

(* No step brings a negative answer back to a process that was told.       *)
LEMMA ToldStep == TypeOK /\ Locked /\ RowKept /\ Told /\ [Next]_vars => Told'
<1> SUFFICES ASSUME TypeOK /\ Locked /\ RowKept /\ Told, [Next]_vars PROVE Told'
  OBVIOUS
<1> USE BlocklistAssumption DEF TypeOK, Locked, RowKept, Told,
        Goto, Leave, NoEntry, local, history
<1>1. ASSUME NEW t \in Threads, CheckExpiry(t) PROVE Told'
  BY <1>1 DEF CheckExpiry
<1>2. ASSUME NEW t \in Threads, ReadMono(t) PROVE Told'
  BY <1>2 DEF ReadMono
<1>3. ASSUME NEW t \in Threads, CacheHit(t) PROVE Told'
  BY <1>3 DEF CacheHit
<1>4. ASSUME NEW t \in Threads, CacheMiss(t) PROVE Told'
  BY <1>4 DEF CacheMiss
<1>5. ASSUME NEW t \in Threads, SelectRow(t) PROVE Told'
  BY <1>5 DEF SelectRow
<1>6. ASSUME NEW t \in Threads, SelectFails(t) PROVE Told'
  BY <1>6 DEF SelectFails
<1>7. ASSUME NEW t \in Threads, StoreAnswer(t) PROVE Told'
  BY <1>7 DEF StoreAnswer
<1>8. ASSUME NEW t \in Threads, InsertRow(t) PROVE Told'
  BY <1>8 DEF InsertRow
<1>9. ASSUME NEW t \in Threads, RevokeFails(t) PROVE Told'
  BY <1>9 DEF RevokeFails
<1>10. ASSUME NEW t \in Threads, CacheRevoked(t) PROVE Told'
  BY <1>10 DEF CacheRevoked
<1>11. ASSUME NEW t \in Threads, Finish(t) PROVE Told'
  BY <1>11 DEF Finish
<1>12. ASSUME NEW p \in Processes, Cleanup(p) PROVE Told'
  BY <1>12 DEF Cleanup
<1>13. CASE CleanupTask
  BY <1>13 DEF CleanupTask
<1>14. CASE Tick
  BY <1>14 DEF Tick
<1>15. CASE UNCHANGED vars
  BY <1>15 DEF vars
<1>16. QED
  BY <1>1, <1>2, <1>3, <1>4, <1>5, <1>6, <1>7, <1>8, <1>9, <1>10, <1>11,
     <1>12, <1>13, <1>14, <1>15 DEF Next

(* No step invents a revocation.                                           *)
LEMMA JustifiedStep == TypeOK /\ RowKept /\ Justified /\ [Next]_vars => Justified'
<1> SUFFICES ASSUME TypeOK /\ RowKept /\ Justified, [Next]_vars PROVE Justified'
  OBVIOUS
<1> USE BlocklistAssumption DEF TypeOK, RowKept, Justified,
        Goto, Leave, NoEntry, local, history
<1>1. ASSUME NEW t \in Threads, CheckExpiry(t) PROVE Justified'
  BY <1>1 DEF CheckExpiry
<1>2. ASSUME NEW t \in Threads, ReadMono(t) PROVE Justified'
  BY <1>2 DEF ReadMono
<1>3. ASSUME NEW t \in Threads, CacheHit(t) PROVE Justified'
  BY <1>3 DEF CacheHit
<1>4. ASSUME NEW t \in Threads, CacheMiss(t) PROVE Justified'
  BY <1>4 DEF CacheMiss
<1>5. ASSUME NEW t \in Threads, SelectRow(t) PROVE Justified'
  BY <1>5 DEF SelectRow
<1>6. ASSUME NEW t \in Threads, SelectFails(t) PROVE Justified'
  BY <1>6 DEF SelectFails
<1>7. ASSUME NEW t \in Threads, StoreAnswer(t) PROVE Justified'
  BY <1>7 DEF StoreAnswer
<1>8. ASSUME NEW t \in Threads, InsertRow(t) PROVE Justified'
  BY <1>8 DEF InsertRow
<1>9. ASSUME NEW t \in Threads, RevokeFails(t) PROVE Justified'
  BY <1>9 DEF RevokeFails
<1>10. ASSUME NEW t \in Threads, CacheRevoked(t) PROVE Justified'
  BY <1>10 DEF CacheRevoked
<1>11. ASSUME NEW t \in Threads, Finish(t) PROVE Justified'
  BY <1>11 DEF Finish
<1>12. ASSUME NEW p \in Processes, Cleanup(p) PROVE Justified'
  BY <1>12 DEF Cleanup
<1>13. CASE CleanupTask
  BY <1>13 DEF CleanupTask
<1>14. CASE Tick
  BY <1>14 DEF Tick
<1>15. CASE UNCHANGED vars
  BY <1>15 DEF vars
<1>16. QED
  BY <1>1, <1>2, <1>3, <1>4, <1>5, <1>6, <1>7, <1>8, <1>9, <1>10, <1>11,
     <1>12, <1>13, <1>14, <1>15 DEF Next

LEMMA Invariance == Spec => []Inv
<1>1. Inv /\ [Next]_vars => Inv'
  BY TypeStep, LockStep, RowStep, StaleStep, ToldStep, JustifiedStep DEF Inv
<1>2. QED BY <1>1, InitInv, PTL DEF Spec

-----------------------------------------------------------------------------
(* The cache, the locks and the locals of verify keep their types          *)
(* (sessions.py, auth.py).                                                 *)
THEOREM BlocklistTypes == Spec => []TypeOK
<1>1. Inv => TypeOK BY DEF Inv
<1>2. QED BY <1>1, Invariance, PTL

(* Other processes learn of a revocation within cache_ttl (sessions.py     *)
(* 42-54), unless the token expires under the call.                        *)
THEOREM StalenessIsBounded == Spec => []StalenessBounded
<1>1. Inv => StalenessBounded
  <2> SUFFICES ASSUME Inv, NEW t \in Threads, pc[t] = "accepted", revokedAt # -1,
                      ~(clock > Expiry)
               PROVE  mono[t] <= revokedAt + CacheTtl
    BY DEF StalenessBounded
  <2>1. clock <= Expiry BY BlocklistAssumption DEF Inv, TypeOK
  <2>2. QED BY <2>1 DEF Inv, Stale
<1>2. QED BY <1>1, Invariance, PTL

(* The process that revoked the token refuses it from then on (sessions.py *)
(* 31-40).                                                                 *)
THEOREM RevocationIsLocal == Spec => []RevokedAtOnceLocally
<1>1. Inv => RevokedAtOnceLocally
  <2> SUFFICES ASSUME Inv, NEW t \in Threads, pc[t] = "accepted", t \in informed,
                      ~(clock > Expiry)
               PROVE  FALSE
    BY DEF RevokedAtOnceLocally
  <2>1. clock <= Expiry BY BlocklistAssumption DEF Inv, TypeOK
  <2>2. QED BY <2>1 DEF Inv, Told
<1>2. QED BY <1>1, Invariance, PTL

(* Only a revoked token is refused as revoked (sessions.py 51-54).         *)
THEOREM RefusalIsJustified == Spec => []RefusalJustified
<1>1. Inv => RefusalJustified BY DEF Inv, Justified, RefusalJustified
<1>2. QED BY <1>1, Invariance, PTL
=============================================================================
