---------------------------- MODULE MCDispatcher ----------------------------
(* Dispatcher on small sets: the instance checked by the dispatch_* runs.  *)
EXTENDS Dispatcher, TLC

(* Calls are interchangeable.                                              *)
Symmetry == Permutations(Calls)

Request(method, auth) == [form |-> "request", method |-> method, auth |-> auth]
Delay(ms) == [form |-> "request", method |-> "system/delay", ms |-> ms, auth |-> "good"]

(* A request of every fate: slept over, served at once, served without     *)
(* signature, and what is no request.  A wrong one ends like a stale one.  *)
AllSorts ==
  {Delay(2), Request("stub", "good"), Request("system/ping", "missing"),
   [form |-> "other"]}
=============================================================================
