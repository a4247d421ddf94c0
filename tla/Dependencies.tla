---------------------------- MODULE Dependencies ----------------------------
(***************************************************************************)
(* The dependency injection of src/sovereign/router.py on the event loop:  *)
(* each task resolves, one by one, what its handler needs.  A task can be  *)
(* overtaken by others only while a provider is awaited.                   *)
(***************************************************************************)
EXTENDS Naturals, Sequences

CONSTANTS
  Tasks,  \* the tasks that serve requests
  Needs   \* scopes of the handler's dependencies, in the order of their calls

ASSUME NeedsAssumption == Needs \in Seq({"transient", "request", "singleton"})

VARIABLES
  singleton_cache,  \* number of the cached instance; 0: the provider is no key
  made,             \* instances of the singleton that were built
  di_cache,         \* of each task: its request has the request-scoped instance
  need, await       \* of each task: the dependency it is at; its provider runs

dependencies == <<singleton_cache, made, di_cache, need, await>>

DependenciesInit ==
  /\ singleton_cache = 0 /\ made = 0
  /\ di_cache = [t \in Tasks |-> FALSE]
  /\ need = [t \in Tasks |-> 1]
  /\ await = [t \in Tasks |-> FALSE]

Resolved(t) == need[t] > Len(Needs)

(* A new request comes with an empty cache of its own.                     *)
NewRequest(t) ==
  /\ need' = [need EXCEPT ![t] = 1]
  /\ di_cache' = [di_cache EXCEPT ![t] = FALSE]
  /\ UNCHANGED <<singleton_cache, made, await>>

(* The cache of the scope has the instance.                                *)
Cached(t) == CASE Needs[need[t]] = "singleton" -> singleton_cache # 0
               [] Needs[need[t]] = "request" -> di_cache[t]
               [] OTHER -> FALSE

(* Mutant: the cache of singletons is asked for the provider that an       *)
(* override replaces, and never has it.                                    *)
LookupOverridden(t) ==
  /\ ~Resolved(t) /\ ~await[t]
  /\ IF Cached(t) /\ Needs[need[t]] = "request"
     THEN need' = [need EXCEPT ![t] = @ + 1] /\ UNCHANGED await
     ELSE await' = [await EXCEPT ![t] = TRUE] /\ UNCHANGED need
  /\ UNCHANGED <<singleton_cache, made, di_cache>>

(* The instance is taken from the cache, or its provider is called.        *)
Lookup(t) ==
  /\ ~Resolved(t) /\ ~await[t]
  /\ IF Cached(t) THEN need' = [need EXCEPT ![t] = @ + 1] /\ UNCHANGED await
                  ELSE await' = [await EXCEPT ![t] = TRUE] /\ UNCHANGED need
  /\ UNCHANGED <<singleton_cache, made, di_cache>>

(* The provider has returned: its result goes to the cache of its scope,   *)
(* over one that another task may have put there meanwhile.                *)
Provide(t) ==
  /\ await[t]
  /\ await' = [await EXCEPT ![t] = FALSE]
  /\ need' = [need EXCEPT ![t] = @ + 1]
  /\ LET scope == Needs[need[t]] IN
       /\ made' = IF scope = "singleton" THEN made + 1 ELSE made
       /\ singleton_cache' = IF scope = "singleton" THEN made + 1 ELSE singleton_cache
       /\ di_cache' = [di_cache EXCEPT ![t] = @ \/ scope = "request"]

(* It raises, and nothing is cached.                                       *)
ProviderRaises(t) ==
  /\ await[t]
  /\ await' = [await EXCEPT ![t] = FALSE]
  /\ UNCHANGED <<singleton_cache, made, di_cache, need>>

-----------------------------------------------------------------------------
Building == {t \in Tasks : await[t] /\ Needs[need[t]] = "singleton"}

(* Requests that come together may each build the singleton, and the last  *)
(* one built stays.  Once it is cached and nobody builds, it never changes *)
(* again: from then on every request is given the same instance.           *)
SingletonSettles ==
  [][singleton_cache # 0 /\ Building = {} =>
       singleton_cache' = singleton_cache /\ Building' = {}]_dependencies
=============================================================================
