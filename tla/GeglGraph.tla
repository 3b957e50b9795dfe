----------------------------- MODULE GeglGraph -----------------------------
(***************************************************************************)
(* The connection graph of GEGL: nodes with named input and output pads,   *)
(* and the pad-to-pad connections between them.  The code of connect and  *)
(* disconnect is not part of src/ (gegl-node.c), so this module is written *)
(* from spec.md sections 3 and 4.1.                                        *)
(*                                                                         *)
(* A pad is the pair <<node, name>>.  Input and output pad names are       *)
(* disjoint, so the name tells the direction.  conn maps every input pad   *)
(* to the output pad it is connected to, or to NoPad.                      *)
(***************************************************************************)
EXTENDS Naturals, FiniteSets

CONSTANTS
  Nodes,        \* the nodes of the graph
  InPadNames,   \* names of input pads, e.g. {"input", "aux"}
  OutPadNames,  \* names of output pads, e.g. {"output"}
  NoPad         \* model value: an input pad with no source

ASSUME InPadNames \cap OutPadNames = {}

VARIABLES
  conn,         \* [InPads -> OutPads \cup {NoPad}]
  lastErr       \* result of the last connect: "none", "CycleError" or "AlreadyConnectedError"

graphVars == <<conn, lastErr>>

InPads  == Nodes \X InPadNames
OutPads == Nodes \X OutPadNames
Pads    == InPads \cup OutPads

NodeOf(p) == p[1]

IsConnected(i) == conn[i] # NoPad

(* The input pads connected to output pad o: its consumers.                *)
Consumers(o) == {i \in InPads : conn[i] = o}

(* The nodes reachable from the nodes in S along one or more edges of c.   *)
RECURSIVE Downstream(_, _)
Downstream(c, S) ==
  LET next == {NodeOf(i) : i \in {j \in InPads : c[j] # NoPad /\ NodeOf(c[j]) \in S}}
  IN  IF next \subseteq S THEN next ELSE next \cup Downstream(c, S \cup next)

HasCycle(c) == \E n \in Nodes : n \in Downstream(c, {n})

ClosesCycle(c, o, i) ==
  \/ NodeOf(o) = NodeOf(i)
  \/ NodeOf(o) \in Downstream(c, {NodeOf(i)})

(* connect(output_pad, input_pad) on connection function c: the new       *)
(* connections and the error.  CycleError and AlreadyConnectedError leave  *)
(* the graph unchanged; otherwise the edge is recorded (the consumer count *)
(* of o grows with Consumers(o)).                                          *)
ConnectResult(c, o, i) ==
  CASE ClosesCycle(c, o, i) -> [conn |-> c, err |-> "CycleError"]
    [] c[i] # NoPad        -> [conn |-> c, err |-> "AlreadyConnectedError"]
    [] OTHER               -> [conn |-> [c EXCEPT ![i] = o], err |-> "none"]

EmptyGraph == [i \in InPads |-> NoPad]

GraphInit ==
  /\ conn = EmptyGraph
  /\ lastErr = "none"

Connect(o, i) ==
  /\ conn' = ConnectResult(conn, o, i).conn
  /\ lastErr' = ConnectResult(conn, o, i).err

(* disconnect(input_pad): removes the edge, if any.                        *)
Disconnect(i) ==
  /\ IsConnected(i)
  /\ conn' = [conn EXCEPT ![i] = NoPad]
  /\ lastErr' = "none"

(* The graphs connect and disconnect can build from the empty graph: the   *)
(* acyclic ones (the GraphSpec run checks that no other is reachable).     *)
BuiltGraphs ==
  {c \in [InPads -> OutPads \cup {NoPad}] : ~HasCycle(c)}

GraphNext ==
  \/ \E o \in OutPads, i \in InPads : Connect(o, i)
  \/ \E i \in InPads : Disconnect(i)

GraphSpec == GraphInit /\ [][GraphNext]_graphVars

GraphTypeOK ==
  /\ conn \in [InPads -> OutPads \cup {NoPad}]
  /\ lastErr \in {"none", "CycleError", "AlreadyConnectedError"}

=============================================================================
