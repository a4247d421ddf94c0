------------------------- MODULE AsyncServerProofs -------------------------
(***************************************************************************)
(* The event loop's server for any number of connections, permits and      *)
(* requests, and any dependencies of the handler.                          *)
(***************************************************************************)
EXTENDS AsyncServer, FiniteSetTheorems, TLAPS

TypeInv ==
  /\ connections \in Nat
  /\ phase \in [Tasks -> Inside \cup {"away", "waiting", "closed"}]
  /\ seen \in [Tasks -> Nat] /\ heads \in [Tasks -> Nat] /\ bodies \in [Tasks -> Nat]
  /\ stray \in [Tasks -> BOOLEAN]

(* A request that is being served has had no part of its response yet, and *)
(* every one before it has had the whole, as the client counts them unless *)
(* a HEAD had a body.                                                      *)
Framing ==
  \A t \in Tasks :
    /\ phase[t] \in {"away", "waiting", "parse"} => heads[t] = seen[t] /\ (stray[t] \/ bodies[t] = seen[t])
    /\ phase[t] \in {"route", "resolve", "write"} =>
         heads[t] + 1 = seen[t] /\ (stray[t] \/ bodies[t] + 1 = seen[t])

Permits == connections + Cardinality(Holders) = MaxConnections

Inv == TypeInv /\ Framing /\ Permits

-----------------------------------------------------------------------------
LEMMA InitInv == Init => Inv
<1> SUFFICES ASSUME Init PROVE Inv
  OBVIOUS
<1> USE ServerAssumption DEF Init, Inside
<1>1. TypeInv BY DEF TypeInv
<1>2. Framing BY DEF Framing
<1>3. Permits
  <2>1. Holders = {} BY DEF Holders
  <2>2. Cardinality(Holders) = 0 BY <2>1, FS_EmptySet
  <2>3. QED BY <2>2 DEF Permits
<1>4. QED BY <1>1, <1>2, <1>3 DEF Inv

(* Writing a response keeps the types of what is counted.                  *)
LEMMA WriteTypes ==
  ASSUME TypeInv, NEW t \in Tasks, NEW body \in BOOLEAN, Write(t, body)
  PROVE  /\ connections' = connections /\ seen' = seen
         /\ heads' \in [Tasks -> Nat] /\ bodies' \in [Tasks -> Nat]
         /\ stray' \in [Tasks -> BOOLEAN]
<1> USE DEF TypeInv, Write, More
<1>1. CASE head_only[t] /\ body
  <2>1. /\ bodies' = [bodies EXCEPT ![t] = @ + 2] /\ stray' = [stray EXCEPT ![t] = TRUE]
        /\ connections' = connections /\ seen' = seen
        /\ heads' = [heads EXCEPT ![t] = @ + 1]
    BY <1>1, Zenon
  <2>2. QED BY <2>1
<1>2. CASE ~(head_only[t] /\ body)
  BY <1>2
<1>3. QED BY <1>1, <1>2

(* Every step keeps the types.                                             *)
LEMMA TypeStep == TypeInv /\ [Next]_vars => TypeInv'
<1> SUFFICES ASSUME TypeInv, [Next]_vars PROVE TypeInv'
  OBVIOUS
<1> USE DEF TypeInv, Inside, Goto, More, Write, Closed, written, counts, server
<1>1. ASSUME NEW t \in Tasks, Connect(t) PROVE TypeInv'
  BY <1>1 DEF Connect
<1>2. ASSUME NEW t \in Tasks, Enter(t) PROVE TypeInv'
  BY <1>2 DEF Enter
<1>3. ASSUME NEW t \in Tasks, ParseRequest(t) PROVE TypeInv'
  BY <1>3 DEF ParseRequest
<1>4. ASSUME NEW t \in Tasks, ParseFails(t) PROVE TypeInv'
  BY <1>4 DEF ParseFails
<1>5. ASSUME NEW t \in Tasks, Route(t) PROVE TypeInv'
  BY <1>5 DEF Route
<1>6. ASSUME NEW t \in Tasks, Resolve(t) PROVE TypeInv'
  BY <1>6 DEF Resolve
<1>7. ASSUME NEW t \in Tasks, Handle(t) PROVE TypeInv'
  BY <1>7 DEF Handle
<1>8. ASSUME NEW t \in Tasks, WriteResponse(t) PROVE TypeInv'
  <2>1. PICK body \in BOOLEAN : Write(t, body) BY <1>8 DEF WriteResponse
  <2>2. phase' \in [Tasks -> Inside \cup {"away", "waiting", "closed"}]
    BY <1>8 DEF WriteResponse
  <2>3. QED
    <3> HIDE DEF Write, More
    <3> QED BY <2>1, <2>2, WriteTypes
<1>9. ASSUME NEW t \in Tasks, WriteFails(t) PROVE TypeInv'
  BY <1>9 DEF WriteFails
<1>10. ASSUME NEW t \in Tasks, WritePage(t) PROVE TypeInv'
  <2>1. Write(t, TRUE) BY <1>10 DEF WritePage
  <2>2. phase' \in [Tasks -> Inside \cup {"away", "waiting", "closed"}]
    BY <1>10 DEF WritePage
  <2>3. QED
    <3> HIDE DEF Write, More
    <3> QED BY <2>1, <2>2, WriteTypes
<1>11. ASSUME NEW t \in Tasks, PageFails(t) PROVE TypeInv'
  BY <1>11 DEF PageFails
<1>12. ASSUME NEW t \in Tasks, LeaveAndClose(t) PROVE TypeInv'
  BY <1>12 DEF LeaveAndClose
<1>13. ASSUME NEW t \in Tasks, Disconnect(t) PROVE TypeInv'
  BY <1>13 DEF Disconnect
<1>14. CASE UNCHANGED vars
  BY <1>14 DEF vars
<1>15. QED
  BY <1>1, <1>2, <1>3, <1>4, <1>5, <1>6, <1>7, <1>8, <1>9, <1>10, <1>11,
     <1>12, <1>13, <1>14
     DEF Next, HandleClient

(* Every step keeps requests and responses together.                       *)
LEMMA FramingStep == TypeInv /\ Framing /\ [Next]_vars => Framing'
<1> SUFFICES ASSUME TypeInv, Framing, [Next]_vars PROVE Framing'
  OBVIOUS
<1> USE DEF TypeInv, Framing, Inside, Goto, More, Write, Closed, written, counts, server
<1>1. ASSUME NEW t \in Tasks, Connect(t) PROVE Framing'
  BY <1>1 DEF Connect
<1>2. ASSUME NEW t \in Tasks, Enter(t) PROVE Framing'
  BY <1>2 DEF Enter
<1>3. ASSUME NEW t \in Tasks, ParseRequest(t) PROVE Framing'
  BY <1>3 DEF ParseRequest
<1>4. ASSUME NEW t \in Tasks, ParseFails(t) PROVE Framing'
  BY <1>4 DEF ParseFails
<1>5. ASSUME NEW t \in Tasks, Route(t) PROVE Framing'
  BY <1>5 DEF Route
<1>6. ASSUME NEW t \in Tasks, Resolve(t) PROVE Framing'
  BY <1>6 DEF Resolve
<1>7. ASSUME NEW t \in Tasks, Handle(t) PROVE Framing'
  BY <1>7 DEF Handle
<1>8. ASSUME NEW t \in Tasks, WriteResponse(t) PROVE Framing'
  BY <1>8 DEF WriteResponse
<1>9. ASSUME NEW t \in Tasks, WriteFails(t) PROVE Framing'
  BY <1>9 DEF WriteFails
<1>10. ASSUME NEW t \in Tasks, WritePage(t) PROVE Framing'
  <2>1. phase' = [phase EXCEPT ![t] = "leave"] BY <1>10 DEF WritePage
  <2>2. \A u \in Tasks \ {t} :
          heads'[u] = heads[u] /\ bodies'[u] = bodies[u] /\ stray'[u] = stray[u] /\ seen'[u] = seen[u]
    BY <1>10 DEF WritePage
  <2>3. QED
    <3> HIDE DEF More, Write, Goto
    <3> QED BY <2>1, <2>2
<1>11. ASSUME NEW t \in Tasks, PageFails(t) PROVE Framing'
  BY <1>11 DEF PageFails
<1>12. ASSUME NEW t \in Tasks, LeaveAndClose(t) PROVE Framing'
  BY <1>12 DEF LeaveAndClose
<1>13. ASSUME NEW t \in Tasks, Disconnect(t) PROVE Framing'
  BY <1>13 DEF Disconnect
<1>14. CASE UNCHANGED vars
  BY <1>14 DEF vars
<1>15. QED
  BY <1>1, <1>2, <1>3, <1>4, <1>5, <1>6, <1>7, <1>8, <1>9, <1>10, <1>11,
     <1>12, <1>13, <1>14
     DEF Next, HandleClient

(* What a step does with the permits: nothing, or it takes or gives back   *)
(* the one of its task.                                                    *)
PermitMove ==
  \/ Holders' = Holders /\ connections' = connections
  \/ \E t \in Tasks \ Holders : Holders' = Holders \cup {t} /\ connections' = connections - 1
  \/ \E t \in Holders : Holders' = Holders \ {t} /\ connections' = connections + 1

LEMMA PermitStep == TypeInv /\ [Next]_vars => PermitMove
<1> SUFFICES ASSUME TypeInv, [Next]_vars PROVE PermitMove
  OBVIOUS
<1> USE DEF TypeInv, PermitMove, Holders, Inside, Goto, More, Write, Closed, written, counts, server
<1>1. ASSUME NEW t \in Tasks, Connect(t) PROVE PermitMove
  BY <1>1 DEF Connect
<1>2. ASSUME NEW t \in Tasks, Enter(t) PROVE PermitMove
  BY <1>2 DEF Enter
<1>3. ASSUME NEW t \in Tasks, ParseRequest(t) PROVE PermitMove
  BY <1>3 DEF ParseRequest
<1>4. ASSUME NEW t \in Tasks, ParseFails(t) PROVE PermitMove
  BY <1>4 DEF ParseFails
<1>5. ASSUME NEW t \in Tasks, Route(t) PROVE PermitMove
  BY <1>5 DEF Route
<1>6. ASSUME NEW t \in Tasks, Resolve(t) PROVE PermitMove
  BY <1>6 DEF Resolve
<1>7. ASSUME NEW t \in Tasks, Handle(t) PROVE PermitMove
  BY <1>7 DEF Handle
<1>8. ASSUME NEW t \in Tasks, WriteResponse(t) PROVE PermitMove
  BY <1>8 DEF WriteResponse
<1>9. ASSUME NEW t \in Tasks, WriteFails(t) PROVE PermitMove
  BY <1>9 DEF WriteFails
<1>10. ASSUME NEW t \in Tasks, WritePage(t) PROVE PermitMove
  BY <1>10 DEF WritePage
<1>11. ASSUME NEW t \in Tasks, PageFails(t) PROVE PermitMove
  BY <1>11 DEF PageFails
<1>12. ASSUME NEW t \in Tasks, LeaveAndClose(t) PROVE PermitMove
  BY <1>12 DEF LeaveAndClose
<1>13. ASSUME NEW t \in Tasks, Disconnect(t) PROVE PermitMove
  BY <1>13 DEF Disconnect
<1>14. CASE UNCHANGED vars
  BY <1>14 DEF vars
<1>15. QED
  BY <1>1, <1>2, <1>3, <1>4, <1>5, <1>6, <1>7, <1>8, <1>9, <1>10, <1>11,
     <1>12, <1>13, <1>14
     DEF Next, HandleClient

LEMMA NextInv == Inv /\ [Next]_vars => Inv'
<1> SUFFICES ASSUME Inv, [Next]_vars PROVE Inv'
  OBVIOUS
<1>1. TypeInv' /\ Framing' /\ PermitMove
  BY TypeStep, FramingStep, PermitStep DEF Inv
<1>2. Permits'
  <2>1. IsFiniteSet(Holders) /\ Cardinality(Holders) \in Nat
    BY ServerAssumption, FS_Subset, FS_CardinalityType DEF Holders
  <2>2. connections \in Nat /\ connections' \in Nat /\ MaxConnections \in Nat
    BY <1>1, ServerAssumption DEF Inv, TypeInv
  <2>3. connections + Cardinality(Holders) = MaxConnections
    BY DEF Inv, Permits
  <2>4. CASE Holders' = Holders /\ connections' = connections
    BY <2>3, <2>4 DEF Permits
  <2>5. ASSUME NEW t \in Tasks \ Holders, Holders' = Holders \cup {t},
               connections' = connections - 1
        PROVE  Permits'
    <3>1. Cardinality(Holders') = Cardinality(Holders) + 1
      BY <2>1, <2>5, FS_AddElement
    <3>2. QED BY <2>1, <2>2, <2>3, <2>5, <3>1 DEF Permits
  <2>6. ASSUME NEW t \in Holders, Holders' = Holders \ {t},
               connections' = connections + 1
        PROVE  Permits'
    <3>1. Cardinality(Holders') = Cardinality(Holders) - 1
      BY <2>1, <2>6, FS_RemoveElement
    <3>2. QED BY <2>1, <2>2, <2>3, <2>6, <3>1 DEF Permits
  <2>7. QED BY <1>1, <2>4, <2>5, <2>6 DEF PermitMove
<1>3. QED BY <1>1, <1>2 DEF Inv

-----------------------------------------------------------------------------
(* Every path out of handle_client gives its permit back once, and the     *)
(* keep-alive loop goes on only when every request has had one response,   *)
(* which a client that has sent no HEAD reads in step (async_server.py     *)
(* 119-132, 199-231).                                                      *)
THEOREM AsyncAnswersInStep == Spec => []AnsweredInStep
<1>1. Inv => AnsweredInStep BY DEF Inv, Framing, Permits, AnsweredInStep
<1>2. QED BY <1>1, InitInv, NextInv, PTL DEF Spec

(* A task waits for a provider only while it resolves what its handler     *)
(* needs, and has not got all of it.                                       *)
WaitInv ==
  /\ need \in [Tasks -> Nat] /\ await \in [Tasks -> BOOLEAN]
  /\ \A t \in Tasks : await[t] => phase[t] = "resolve" /\ ~Resolved(t)

LEMMA InitWait == Init => WaitInv
  BY DEF Init, DependenciesInit, WaitInv

LEMMA ResolveWait ==
  ASSUME TypeInv, WaitInv, NEW t \in Tasks, Resolve(t)
  PROVE  WaitInv'
<1> USE DEF TypeInv, WaitInv, Goto, Resolved
<1>1. CASE Lookup(t) /\ UNCHANGED phase
  <2>1. CASE need' = [need EXCEPT ![t] = @ + 1] /\ UNCHANGED await
    BY <1>1, <2>1 DEF Lookup
  <2>2. CASE await' = [await EXCEPT ![t] = TRUE] /\ UNCHANGED need
    <3>1. phase[t] = "resolve"
      BY DEF Resolve
    <3>2. QED BY <1>1, <2>2, <3>1 DEF Lookup
  <2>3. QED BY <1>1, <2>1, <2>2 DEF Lookup
<1>2. CASE Provide(t) /\ UNCHANGED phase
  <2>1. need' = [need EXCEPT ![t] = @ + 1] /\ await' = [await EXCEPT ![t] = FALSE]
    BY <1>2 DEF Provide
  <2>2. QED BY <1>2, <2>1
<1>3. CASE ProviderRaises(t) /\ Goto(t, "page")
  BY <1>3 DEF ProviderRaises
<1>4. QED BY <1>1, <1>2, <1>3 DEF Resolve

LEMMA NextWait == TypeInv /\ WaitInv /\ [Next]_vars => WaitInv'
<1> SUFFICES ASSUME TypeInv, WaitInv, [Next]_vars PROVE WaitInv'
  OBVIOUS
<1> USE DEF TypeInv, WaitInv, Goto, dependencies, Resolved
<1>1. ASSUME NEW t \in Tasks, ParseRequest(t) PROVE WaitInv'
  BY <1>1 DEF ParseRequest, NewRequest
<1>2. ASSUME NEW t \in Tasks, Handle(t) PROVE WaitInv'
  BY <1>2 DEF Handle
<1>3. ASSUME NEW t \in Tasks,
             Connect(t) \/ Enter(t) \/ ParseFails(t) \/ Route(t) \/ WriteResponse(t)
               \/ WriteFails(t) \/ WritePage(t) \/ PageFails(t) \/ LeaveAndClose(t)
      PROVE  WaitInv'
  <2> USE DEF Write, Closed
  <2>1. phase[t] # "resolve" /\ UNCHANGED dependencies
    BY <1>3 DEF Connect, Enter, ParseFails, Route, WriteResponse, WriteFails, WritePage,
                PageFails, LeaveAndClose
  <2>2. \A u \in Tasks \ {t} : phase'[u] = phase[u]
    BY <1>3 DEF Connect, Enter, ParseFails, Route, WriteResponse, WriteFails, WritePage,
                PageFails, LeaveAndClose
  <2>3. QED BY <2>1, <2>2
<1>4. ASSUME NEW t \in Tasks, Disconnect(t) PROVE WaitInv'
  BY <1>4 DEF Disconnect
<1>5. CASE UNCHANGED vars
  BY <1>5 DEF vars, server
<1>6. QED
  BY <1>1, <1>2, <1>3, <1>4, <1>5, ResolveWait DEF Next, HandleClient

(* A cached singleton that nobody is building stays (router.py 207-210).   *)
THEOREM SingletonIsSettled == Spec => SingletonSettles
<1> DEFINE Settled == singleton_cache # 0 /\ Building = {} =>
                        singleton_cache' = singleton_cache /\ Building' = {}
<1>1. WaitInv /\ [Next]_vars => Settled \/ UNCHANGED dependencies
  <2> SUFFICES ASSUME WaitInv, [Next]_vars, singleton_cache # 0, Building = {},
                      ~ UNCHANGED dependencies
               PROVE  singleton_cache' = singleton_cache /\ Building' = {}
    OBVIOUS
  <2>1. ASSUME NEW t \in Tasks, ParseRequest(t)
        PROVE  singleton_cache' = singleton_cache /\ Building' = {}
    <3>1. ~await[t]
      BY <2>1 DEF WaitInv, ParseRequest
    <3>2. QED BY <2>1, <3>1 DEF WaitInv, ParseRequest, NewRequest, Building
  <2>2. ASSUME NEW t \in Tasks, Resolve(t)
        PROVE  singleton_cache' = singleton_cache /\ Building' = {}
    <3>1. CASE Lookup(t)
      <4>1. CASE Cached(t)
        BY <3>1, <4>1 DEF WaitInv, Lookup, Building
      <4>2. CASE ~Cached(t)
        <5>1. Needs[need[t]] # "singleton"
          BY <4>2 DEF Cached
        <5>2. QED BY <3>1, <4>2, <5>1 DEF WaitInv, Lookup, Building
      <4>3. QED BY <4>1, <4>2
    <3>2. CASE Provide(t)
      <4>1. Needs[need[t]] # "singleton"
        BY <3>2 DEF Provide, Building
      <4>2. QED BY <3>2, <4>1 DEF WaitInv, Provide, Building
    <3>3. CASE ProviderRaises(t)
      BY <3>3 DEF WaitInv, ProviderRaises, Building
    <3>4. QED BY <2>2, <3>1, <3>2, <3>3 DEF Resolve
  <2>3. QED BY <2>1, <2>2
       DEF Next, HandleClient, Connect, Enter, ParseFails, Route, Handle, WriteResponse,
           WriteFails, WritePage, PageFails, Write, Closed, LeaveAndClose, Disconnect, vars
<1>2. QED BY <1>1, InitInv, NextInv, InitWait, NextWait, PTL DEF Spec, SingletonSettles, Inv
=============================================================================
