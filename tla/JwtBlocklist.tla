---------------------------- MODULE JwtBlocklist ----------------------------
(***************************************************************************)
(* Revocation of a JSON web token: verify_token and revoke_token of        *)
(* src/sovereign/auth.py over SQLiteJWTBlocklist of                        *)
(* src/sovereign/sessions.py, for one token whose signature and claims are *)
(* in order.  Threads of several processes share the table; each process   *)
(* has its own cache of the table's answer, and its own lock.              *)
(*                                                                         *)
(* time.time() and time.monotonic() advance together.                      *)
(***************************************************************************)
EXTENDS Integers

CONSTANTS
  Threads,
  Processes,
  Owner,      \* the process of each thread
  CacheTtl,   \* cache_ttl, in seconds
  Expiry,     \* the claim exp of the token
  MaxTime,    \* bound: how far the clock runs
  Nobody

ASSUME BlocklistAssumption ==
  /\ Owner \in [Threads -> Processes]
  /\ CacheTtl \in Nat /\ Expiry \in Nat /\ MaxTime \in Nat
  /\ Nobody \notin Threads

VARIABLES
  clock,
  revoked,    \* the token has a row in jwt_blocklist
  cache,      \* of each process: the cached answer and when it ends
  lock,       \* of each process: the holder of the RLock
  pc,         \* where each thread is
  mono,       \* its now_mono
  wall,       \* its now in is_revoked
  answer,     \* what its SELECT returned
  revokedAt,  \* history: when the row was inserted first, or -1
  known,      \* history: processes in which a revoke() has returned
  informed    \* history: threads whose call began after that

local == <<pc, mono, wall, answer>>
history == <<revokedAt, known, informed>>
vars == <<clock, revoked, cache, lock, local, history>>

NoEntry == [is |-> FALSE, until |-> 0]

Init ==
  /\ clock = 0
  /\ revoked = FALSE
  /\ cache = [p \in Processes |-> NoEntry]
  /\ lock = [p \in Processes |-> Nobody]
  /\ pc = [t \in Threads |-> "idle"]
  /\ mono = [t \in Threads |-> 0]
  /\ wall = [t \in Threads |-> 0]
  /\ answer = [t \in Threads |-> FALSE]
  /\ revokedAt = -1 /\ known = {} /\ informed = {}

Goto(t, p) == pc' = [pc EXCEPT ![t] = p]

(* The call returns: its locals are gone.                                  *)
Leave(t) ==
  /\ Goto(t, "idle")
  /\ mono' = [mono EXCEPT ![t] = 0]
  /\ wall' = [wall EXCEPT ![t] = 0]
  /\ answer' = [answer EXCEPT ![t] = FALSE]
  /\ informed' = informed \ {t}

(* verify_token: the token is well formed and not expired; the blocklist   *)
(* is asked next.                                                          *)
CheckExpiry(t) ==
  /\ pc[t] = "idle" /\ clock <= Expiry
  /\ informed' = IF Owner[t] \in known THEN informed \cup {t} ELSE informed \ {t}
  /\ Goto(t, "checked")
  /\ UNCHANGED <<clock, revoked, cache, lock, mono, wall, answer, revokedAt, known>>

ReadMono(t) ==
  /\ pc[t] = "checked"
  /\ mono' = [mono EXCEPT ![t] = clock]
  /\ Goto(t, "lookup")
  /\ UNCHANGED <<clock, revoked, cache, lock, wall, answer, history>>

(* The cache is read without the lock.                                     *)
CacheHit(t) ==
  LET entry == cache[Owner[t]] IN
  /\ pc[t] = "lookup" /\ entry.until > mono[t]
  /\ Goto(t, IF entry.is THEN "refused" ELSE "accepted")
  /\ UNCHANGED <<clock, revoked, cache, lock, mono, wall, answer, history>>

CacheMiss(t) ==
  /\ pc[t] = "lookup" /\ cache[Owner[t]].until <= mono[t]
  /\ wall' = [wall EXCEPT ![t] = clock]
  /\ Goto(t, "select")
  /\ UNCHANGED <<clock, revoked, cache, lock, mono, answer, history>>

(* Mutants: the lifetime counted from the end of the query; the SELECT and *)
(* the cache entry not under one lock.                                     *)
StoreAnswerLater(t) ==
  /\ pc[t] = "store"
  /\ cache' = [cache EXCEPT ![Owner[t]] = [is |-> answer[t], until |-> clock + CacheTtl]]
  /\ lock' = [lock EXCEPT ![Owner[t]] = Nobody]
  /\ Goto(t, IF answer[t] THEN "refused" ELSE "accepted")
  /\ UNCHANGED <<clock, revoked, mono, wall, answer, history>>

(* SELECT 1 ... WHERE jti=? AND exp>=?                                     *)
SelectRow(t) ==
  /\ pc[t] = "select" /\ lock[Owner[t]] = Nobody
  /\ lock' = [lock EXCEPT ![Owner[t]] = t]
  /\ answer' = [answer EXCEPT ![t] = revoked /\ Expiry >= wall[t]]
  /\ wall' = [wall EXCEPT ![t] = 0]
  /\ Goto(t, "store")
  /\ UNCHANGED <<clock, revoked, cache, mono, history>>

(* The SELECT raises, and with it the request.                             *)
SelectFails(t) ==
  /\ pc[t] = "select" /\ lock[Owner[t]] = Nobody
  /\ Leave(t)
  /\ UNCHANGED <<clock, revoked, cache, lock, revokedAt, known>>

StoreAnswer(t) ==
  /\ pc[t] = "store"
  /\ cache' = [cache EXCEPT ![Owner[t]] = [is |-> answer[t], until |-> mono[t] + CacheTtl]]
  /\ lock' = [lock EXCEPT ![Owner[t]] = Nobody]
  /\ Goto(t, IF answer[t] THEN "refused" ELSE "accepted")
  /\ UNCHANGED <<clock, revoked, mono, wall, answer, history>>

(* verify_token has accepted the token; if its caller was revoke_token,    *)
(* revoke() comes next.                                                    *)
InsertRow(t) ==
  /\ pc[t] = "accepted" /\ lock[Owner[t]] = Nobody
  /\ lock' = [lock EXCEPT ![Owner[t]] = t]
  /\ revoked' = TRUE
  /\ revokedAt' = IF revokedAt = -1 THEN clock ELSE revokedAt
  /\ Goto(t, "inserted")
  /\ UNCHANGED <<clock, cache, mono, wall, answer, known, informed>>

(* The INSERT raises: the lock is released, the caller gets the error.     *)
RevokeFails(t) ==
  /\ pc[t] = "accepted" /\ lock[Owner[t]] = Nobody
  /\ Leave(t)
  /\ UNCHANGED <<clock, revoked, cache, lock, revokedAt, known>>

(* Mutant: revoke() leaves the cached answer alone.                        *)
CacheNotTold(t) ==
  /\ pc[t] = "inserted"
  /\ lock' = [lock EXCEPT ![Owner[t]] = Nobody]
  /\ known' = known \cup {Owner[t]}
  /\ Leave(t)
  /\ UNCHANGED <<clock, revoked, cache, revokedAt>>

CacheRevoked(t) ==
  /\ pc[t] = "inserted"
  /\ cache' = [cache EXCEPT ![Owner[t]] = [is |-> TRUE, until |-> clock + CacheTtl]]
  /\ lock' = [lock EXCEPT ![Owner[t]] = Nobody]
  /\ known' = known \cup {Owner[t]}
  /\ Leave(t)
  /\ UNCHANGED <<clock, revoked, revokedAt>>

(* The request is served, or answered with 401.                            *)
Finish(t) ==
  /\ pc[t] \in {"refused", "accepted"}
  /\ Leave(t)
  /\ UNCHANGED <<clock, revoked, cache, lock, revokedAt, known>>

(* cleanup_expired in a process that has the blocklist, and as a task,     *)
(* where the cache that is cleared is the one of a new object.             *)
Cleanup(p) ==
  /\ lock[p] = Nobody /\ Expiry < clock
  /\ revoked' = FALSE
  /\ cache' = [cache EXCEPT ![p] = NoEntry]
  /\ UNCHANGED <<clock, lock, local, history>>

CleanupTask ==
  /\ Expiry < clock /\ revoked
  /\ revoked' = FALSE
  /\ UNCHANGED <<clock, cache, lock, local, history>>

Tick ==
  /\ clock < MaxTime
  /\ clock' = clock + 1
  /\ UNCHANGED <<revoked, cache, lock, local, history>>

Next ==
  \/ \E t \in Threads :
       \/ CheckExpiry(t) \/ ReadMono(t) \/ CacheHit(t) \/ CacheMiss(t)
       \/ SelectRow(t) \/ SelectFails(t) \/ StoreAnswer(t)
       \/ InsertRow(t) \/ RevokeFails(t) \/ CacheRevoked(t) \/ Finish(t)
  \/ \E p \in Processes : Cleanup(p)
  \/ CleanupTask \/ Tick

Spec == Init /\ [][Next]_vars

-----------------------------------------------------------------------------
(* Properties.                                                             *)

Phases == {"idle", "checked", "lookup", "select", "store", "accepted",
           "refused", "inserted"}

(* The cache, the locks and the locals of verify keep their types.         *)
TypeOK ==
  /\ clock \in Nat /\ revoked \in BOOLEAN
  /\ cache \in [Processes -> [is : BOOLEAN, until : Nat]]
  /\ lock \in [Processes -> Threads \cup {Nobody}]
  /\ pc \in [Threads -> Phases]
  /\ mono \in [Threads -> Nat] /\ wall \in [Threads -> Nat]
  /\ answer \in [Threads -> BOOLEAN]
  /\ revokedAt \in Int /\ known \subseteq Processes /\ informed \subseteq Threads

(* In every process, a verification that begins more than cache_ttl after  *)
(* the revocation refuses the token, unless it straddles the token's       *)
(* expiry: the table forgets expired rows.                                 *)
StalenessBounded ==
  \A t \in Threads :
    pc[t] = "accepted" /\ revokedAt # -1 =>
      mono[t] <= revokedAt + CacheTtl \/ clock > Expiry

(* In the process that revoked it, a token is refused by every call that   *)
(* begins after revoke() has returned, with the same exception.            *)
RevokedAtOnceLocally ==
  \A t \in Threads :
    pc[t] = "accepted" /\ t \in informed => clock > Expiry

(* A token that was never revoked is never refused as revoked, by the      *)
(* table or by a cache.                                                    *)
RefusalJustified ==
  \A t \in Threads : pc[t] = "refused" => revokedAt # -1
=============================================================================
