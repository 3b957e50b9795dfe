----------------------------- MODULE MCP2tUtils -----------------------------
EXTENDS P2tUtils

(* A 3 x 3 grid: enough for collinear, CCW and CW triples and for points   *)
(* inside, on the edge of and outside every wedge.                         *)
MCCoords == 0..2

=============================================================================
