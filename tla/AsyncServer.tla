---------------------------- MODULE AsyncServer ----------------------------
(***************************************************************************)
(* AsyncSovereignServer of src/sovereign/async_server.py: one task per     *)
(* connection, a semaphore, the keep-alive loop and its error pages, over  *)
(* the dependency injection of the router.                                 *)
(***************************************************************************)
EXTENDS Dependencies, FiniteSets

CONSTANTS
  MaxConnections,  \* max_concurrent_connections
  MaxRequests      \* max_keepalive_requests

ASSUME ServerAssumption ==
  /\ MaxConnections \in Nat \ {0} /\ MaxRequests \in Nat \ {0}
  /\ IsFiniteSet(Tasks)

VARIABLES
  connections,  \* the counter of the semaphore
  phase,        \* of each task, the part of handle_client it has reached
  seen, keep_alive,
  head_only,    \* the method of its request is HEAD
  gone,         \* the client has disconnected
  heads, bodies,\* history: response heads written; responses as the client counts them
  stray         \* history: a body has been written that its request has none of

written == <<heads, bodies, stray>>
counts == <<seen, keep_alive, head_only, written>>
server == <<connections, phase, gone, counts>>
vars == <<server, dependencies>>

Init ==
  /\ DependenciesInit
  /\ connections = MaxConnections
  /\ phase = [t \in Tasks |-> "away"]
  /\ seen = [t \in Tasks |-> 0] /\ keep_alive = [t \in Tasks |-> FALSE]
  /\ gone = [t \in Tasks |-> FALSE]
  /\ head_only = [t \in Tasks |-> FALSE] /\ stray = [t \in Tasks |-> FALSE]
  /\ heads = [t \in Tasks |-> 0] /\ bodies = [t \in Tasks |-> 0]

Inside == {"parse", "route", "resolve", "write", "page", "leave"}
Goto(t, p) == phase' = [phase EXCEPT ![t] = p]
More(f, t) == f' = [f EXCEPT ![t] = @ + 1]

(* The connection is over, and the locals of handle_client with it.        *)
Closed(t) ==
  /\ connections' = connections + 1 /\ Goto(t, "closed")
  /\ seen' = [seen EXCEPT ![t] = 0] /\ keep_alive' = [keep_alive EXCEPT ![t] = FALSE]
  /\ head_only' = [head_only EXCEPT ![t] = FALSE] /\ stray' = [stray EXCEPT ![t] = FALSE]
  /\ heads' = [heads EXCEPT ![t] = 0] /\ bodies' = [bodies EXCEPT ![t] = 0]
  /\ UNCHANGED <<gone, dependencies>>

Connect(t) ==
  /\ phase[t] = "away" /\ Goto(t, "waiting")
  /\ UNCHANGED <<connections, counts, gone, dependencies>>

Enter(t) ==
  /\ phase[t] = "waiting" /\ connections > 0
  /\ connections' = connections - 1 /\ Goto(t, "parse")
  /\ UNCHANGED <<counts, gone, dependencies>>

(* A request has been read, with the method and the Connection header it   *)
(* has.                                                                    *)
ParseRequest(t) ==
  /\ phase[t] = "parse" /\ ~gone[t]
  /\ More(seen, t)
  /\ \E k \in {FALSE, seen[t] + 1 < MaxRequests} : keep_alive' = [keep_alive EXCEPT ![t] = k]
  /\ \E h \in BOOLEAN : head_only' = [head_only EXCEPT ![t] = h]
  /\ Goto(t, "route") /\ NewRequest(t)
  /\ UNCHANGED <<connections, gone, written>>

(* The client has gone (ClientClosed), or the request is refused: an       *)
(* HTTPError, or what a reader raises that is none.                        *)
ParseFails(t) ==
  /\ phase[t] = "parse"
  /\ \/ gone[t] /\ Goto(t, "leave")
     \/ Goto(t, "page")
  /\ UNCHANGED <<connections, counts, gone, dependencies>>

(* resolve_async() and the middlewares: on to the handler, no route or an  *)
(* exception, or a response of a middleware that does not call the next.   *)
Route(t) ==
  /\ phase[t] = "route"
  /\ \E p \in {"resolve", "page", "write"} : Goto(t, p)
  /\ UNCHANGED <<connections, counts, gone, dependencies>>

Resolve(t) ==
  /\ phase[t] = "resolve"
  /\ \/ (Lookup(t) \/ Provide(t)) /\ UNCHANGED phase
     \/ ProviderRaises(t) /\ Goto(t, "page")
  /\ UNCHANGED <<connections, counts, gone>>

(* The handler returns, or it or a middleware around it raises.            *)
Handle(t) ==
  /\ phase[t] = "resolve" /\ Resolved(t)
  /\ \E p \in {"write", "page"} : Goto(t, p)
  /\ UNCHANGED <<connections, counts, gone, dependencies>>

(* A whole response is written.  Its body, if it has one, is written for a *)
(* HEAD request as well, whose client takes it for what comes next.        *)
Write(t, body) ==
  /\ More(heads, t)
  /\ IF head_only[t] /\ body
     THEN bodies' = [bodies EXCEPT ![t] = @ + 2] /\ stray' = [stray EXCEPT ![t] = TRUE]
     ELSE More(bodies, t) /\ UNCHANGED stray
  /\ UNCHANGED <<connections, seen, keep_alive, head_only, gone, dependencies>>

WriteResponse(t) ==
  /\ phase[t] = "write"
  /\ \E body \in BOOLEAN : Write(t, body)
  /\ Goto(t, IF keep_alive[t] THEN "parse" ELSE "leave")

(* A header that cannot be sent, a stream that raises, or a lost client.   *)
WriteFails(t) ==
  /\ phase[t] = "write"
  /\ More(heads, t) \/ UNCHANGED heads
  /\ Goto(t, "page")
  /\ UNCHANGED <<connections, seen, keep_alive, head_only, gone, bodies, stray, dependencies>>

(* Mutant: the loop goes on after an error page.                           *)
WritePageContinue(t) ==
  /\ phase[t] = "page"
  /\ Write(t, TRUE)
  /\ Goto(t, IF keep_alive[t] THEN "parse" ELSE "leave")

(* The error page, which has a body, on whatever has been written before.  *)
WritePage(t) ==
  /\ phase[t] = "page"
  /\ Write(t, TRUE)
  /\ Goto(t, "leave")

(* It cannot be written, or only in part: the exception leaves             *)
(* handle_client, and asyncio closes the transport.                        *)
PageFails(t) == phase[t] = "page" /\ Closed(t)

(* The end of the async with, and writer.close().                          *)
LeaveAndClose(t) == phase[t] = "leave" /\ Closed(t)

Disconnect(t) ==
  /\ phase[t] \notin {"away", "closed"} /\ ~gone[t]
  /\ gone' = [gone EXCEPT ![t] = TRUE]
  /\ UNCHANGED <<connections, phase, counts, dependencies>>

HandleClient(t) ==
  \/ Enter(t) \/ ParseRequest(t) \/ ParseFails(t) \/ Route(t) \/ Resolve(t) \/ Handle(t)
  \/ WriteResponse(t) \/ WriteFails(t) \/ WritePage(t) \/ PageFails(t) \/ LeaveAndClose(t)

Next == \E t \in Tasks : Connect(t) \/ HandleClient(t) \/ Disconnect(t)

Spec == Init /\ [][Next]_vars

-----------------------------------------------------------------------------
(* Properties.                                                             *)

Holders == {t \in Tasks : phase[t] \in Inside}

(* Permits are given back once, and a connection goes on to its next       *)
(* request only when each one so far has had one whole response and no     *)
(* part of another - as the client counts them, unless one of them was a   *)
(* HEAD and had a body, which is one response more to the client.          *)
AnsweredInStep ==
  /\ connections + Cardinality(Holders) = MaxConnections
  /\ \A t \in Tasks :
       phase[t] = "parse" => heads[t] = seen[t] /\ (stray[t] \/ bodies[t] = seen[t])
=============================================================================
