--------------------------- MODULE MCAsyncServer ---------------------------
EXTENDS AsyncServer, TLC

(* endpoint(a=Inject(per_request), b=Inject(service), s=Inject(singleton)) *)
(* where service is transient and injects per_request.                     *)
MCNeeds == <<"request", "request", "transient", "singleton">>
MCSymmetry == Permutations(Tasks)
=============================================================================
