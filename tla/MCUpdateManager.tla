-------------------------- MODULE MCUpdateManager --------------------------
(* UpdateManager with three packages: whole, one that names a file twice,  *)
(* and one with a file that does not decode.                               *)
EXTENDS UpdateManager, TLC

CONSTANTS a, b, c

SomePackages ==
  {[files |-> <<a, b, c>>, bad |-> {}, version |-> "v1"],
   [files |-> <<b, a, b>>, bad |-> {}, version |-> "v2"],
   [files |-> <<a, c>>, bad |-> {2}, version |-> "v3"],
   [files |-> <<>>, bad |-> {}, version |-> "v4"]}
=============================================================================
