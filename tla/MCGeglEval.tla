----------------------------- MODULE MCGeglEval -----------------------------
(***************************************************************************)
(* Model-checking instance of GeglEval: three nodes with an "input" and an *)
(* "aux" pad each.  Graphs are built by connect/disconnect from the empty  *)
(* graph, so every DAG over these pads (chains, fan-out, diamonds through  *)
(* input and aux) is evaluated from every output pad.                      *)
(***************************************************************************)
EXTENDS GeglEval

=============================================================================
