------------------------------- MODULE MCLayer -------------------------------
(***************************************************************************)
(* Model-checking instance of Layer: src switches among the empty string   *)
(* and two paths, with up to three loads per behaviour.                    *)
(***************************************************************************)
EXTENDS Layer

=============================================================================
