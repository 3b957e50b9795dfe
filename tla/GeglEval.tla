------------------------------ MODULE GeglEval ------------------------------
(***************************************************************************)
(* One evaluation pass of GEGL and the graph edits between passes.         *)
(*                                                                         *)
(* The pass visits the pads the requested output pad depends on, each      *)
(* pad once and every pad after the pads it depends on (the depth-first    *)
(* post-order walk of GeglVisitor, spec 4.4; the walk itself is not in     *)
(* src/).  The work done at each visited pad is visit_pad of               *)
(* gegl-eval-visitor.c, which is in src/ (appended to                      *)
(* src/gegl/buffer/gegl-sampler-lohalo.c, lines 2195-2253):                *)
(*   - an output pad: gegl_operation_process of the pad's node;            *)
(*   - an input pad:  copy the source operation's output property into     *)
(*     this operation's input property, decrement the source node's refs   *)
(*     and unref the buffer when refs drops to zero.                       *)
(*                                                                         *)
(* A buffer is named by the output pad whose process created it; Proxies   *)
(* are the boundary nodes of a meta-operation (nodes carrying the "graph"  *)
(* data), whose nop operation passes its input buffer through.             *)
(***************************************************************************)
EXTENDS GeglGraph, Integers

CONSTANTS
  Proxies,      \* nodes that are input/output proxies of a meta-node graph
  MaxPasses,    \* bound on the number of passes in one behaviour
  Outcomes,     \* results process may have: "buffer", "null", "fail"
  MaxEdits,     \* bound on connect/disconnect calls between passes
  NULL          \* model value: no buffer

ASSUME Proxies \subseteq Nodes /\ MaxPasses \in Nat /\ MaxEdits \in Nat

VARIABLES
  phase,        \* "idle" between passes, "eval" during one
  target,       \* the output pad the current (or last) pass was asked for
  needed,       \* the pads the current pass depends on: Needed(target)
  visited,      \* pads visited in the current pass
  refs,         \* [Nodes -> Int]: node->refs, pending consumers of the node
  outBuf,       \* [OutPads -> Buffers \cup {NULL}]: operation output properties
  inVal,        \* [InPads -> Buffers \cup {NULL}]: operation input properties
  computed,     \* [OutPads -> Nat]: process calls per output pad this pass
  released,     \* [OutPads -> Nat]: unrefs by the visitor per source pad this pass
  failed,       \* some process of this pass returned FALSE
  passes,       \* passes started so far (bounded by MaxPasses)
  edits         \* graph edits made between passes (bounded by MaxEdits)

evalVars == <<phase, target, needed, visited, refs, outBuf, inVal, computed, released, failed, passes, edits>>
vars == <<graphVars, evalVars>>

Buffers == OutPads

(* Outcomes are the results of gegl_operation_process on a non-proxy       *)
(* node: a new buffer, no buffer (the operation produced nothing), or      *)
(* failure (it returned FALSE).                                            *)
ASSUME Outcomes \subseteq {"buffer", "null", "fail"}

(*-------------------------------------------------------------------------*)
(* The dependencies of a pad (gegl_pad_get_depends_on): an output pad      *)
(* depends on every input pad of its node, an input pad on its source.    *)
(*-------------------------------------------------------------------------*)
DependsOn(p) ==
  IF p \in OutPads
  THEN {<<NodeOf(p), n>> : n \in InPadNames}
  ELSE IF IsConnected(p) THEN {conn[p]} ELSE {}

RECURSIVE Closure(_)
Closure(S) ==
  LET S2 == S \cup UNION {DependsOn(p) : p \in S}
  IN  IF S2 = S THEN S ELSE Closure(S2)

(* The pads one pass for output pad t visits.                              *)
Needed(t) == Closure({t})

Visitable(p) ==
  /\ p \in needed \ visited
  /\ DependsOn(p) \subseteq visited

(* Seeded fault for ConsumerCount: one consumer too few.                   *)
ConsumerCountLow(n) == Cardinality({i \in InPads : IsConnected(i) /\ NodeOf(conn[i]) = n}) - 1

(* The number of input pads connected to the node's output pads: the       *)
(* value node->refs holds when the pass starts (spec 3, consumer count).   *)
ConsumerCount(n) == Cardinality({i \in InPads : IsConnected(i) /\ NodeOf(conn[i]) = n})

(*-------------------------------------------------------------------------*)
(* Actions                                                                 *)
(*-------------------------------------------------------------------------*)

(* The application edits the graph only between passes (spec 5).  The     *)
(* graph of the first pass is any graph connect can build (EvalInit);      *)
(* edits happen between a pass and the next one of the bound.              *)
EditGraph ==
  /\ phase = "idle"
  /\ 0 < passes /\ passes < MaxPasses
  /\ edits < MaxEdits
  /\ edits' = edits + 1
  /\ GraphNext
  /\ UNCHANGED <<phase, target, needed, visited, refs, outBuf, inVal, computed, released, failed, passes>>

(* A pass for output pad t starts: every output pad's cached buffer is     *)
(* cleared and refs is set to each node's consumer count.  Input           *)
(* properties keep what the previous pass stored in them.                  *)
StartPass(t) ==
  /\ phase = "idle"
  /\ passes < MaxPasses
  /\ passes' = passes + 1
  /\ phase' = "eval"
  /\ target' = t
  /\ needed' = Needed(t)
  /\ visited' = {}
  /\ refs' = [n \in Nodes |-> ConsumerCount(n)]
  /\ outBuf' = [o \in OutPads |-> NULL]
  /\ computed' = [o \in OutPads |-> 0]
  /\ released' = [o \in OutPads |-> 0]
  /\ failed' = FALSE
  /\ UNCHANGED <<graphVars, inVal, edits>>

(* The buffer process leaves on output pad p with the given outcome.  A    *)
(* proxy's nop hands on what its "input" property holds.                   *)
ProcessResult(p, outcome) ==
  IF NodeOf(p) \in Proxies THEN inVal[<<NodeOf(p), "input">>]
  ELSE IF outcome = "buffer" THEN p ELSE NULL

(* visit_pad on an output pad: gegl_operation_process (operation, name).   *)
(* Its boolean result is not looked at; the timing calls to                *)
(* gegl_instrument record no state the properties read.                    *)
VisitOutputPad(p, outcome) ==
  /\ phase = "eval"
  /\ Visitable(p)
  /\ outBuf' = [outBuf EXCEPT ![p] = ProcessResult(p, outcome)]
  /\ computed' = [computed EXCEPT ![p] = @ + 1]
  /\ failed' = (failed \/ (NodeOf(p) \notin Proxies /\ outcome = "fail"))
  /\ visited' = visited \cup {p}
  /\ UNCHANGED <<graphVars, phase, target, needed, refs, inVal, released, passes, edits>>

(* Seeded fault for ReleaseOnZero: refs-- == 0 in place of --refs == 0.   *)
ReleaseOnZeroPostDec(src, value) ==
  IF refs[NodeOf(src)] = 0 /\ value # NULL
  THEN [released EXCEPT ![src] = @ + 1]
  ELSE released

(* The visitor's unref of the source buffer: when refs of the source node  *)
(* drops to zero and the value is not NULL.                                *)
ReleaseOnZero(src, value) ==
  IF refs[NodeOf(src)] - 1 = 0 /\ value # NULL
  THEN [released EXCEPT ![src] = @ + 1]
  ELSE released

(* visit_pad on an input pad.  Unconnected: nothing happens.  Connected:   *)
(* the source's output property is copied into this input property,       *)
(* refs of the source node is decremented, and the buffer is unreffed      *)
(* when it reaches zero (the g_warning on a NULL value is logging only).   *)
VisitInputPad(i) ==
  /\ phase = "eval"
  /\ Visitable(i)
  /\ visited' = visited \cup {i}
  /\ IF IsConnected(i)
     THEN LET src == conn[i]
              value == outBuf[src]
          IN  /\ inVal' = [inVal EXCEPT ![i] = value]
              /\ released' = ReleaseOnZero(src, value)
              /\ refs' = [refs EXCEPT ![NodeOf(src)] = @ - 1]
     ELSE UNCHANGED <<inVal, released, refs>>
  /\ UNCHANGED <<graphVars, phase, target, needed, outBuf, computed, failed, passes, edits>>

(* The pass returns once the requested pad has been visited.               *)
EndPass ==
  /\ phase = "eval"
  /\ target \in visited
  /\ phase' = "idle"
  /\ UNCHANGED <<graphVars, target, needed, visited, refs, outBuf, inVal, computed, released, failed, passes, edits>>

EvalInit ==
  /\ conn \in BuiltGraphs
  /\ lastErr = "none"
  /\ phase = "idle"
  /\ target = NoPad
  /\ needed = {}
  /\ visited = {}
  /\ refs = [n \in Nodes |-> 0]
  /\ outBuf = [o \in OutPads |-> NULL]
  /\ inVal = [i \in InPads |-> NULL]
  /\ computed = [o \in OutPads |-> 0]
  /\ released = [o \in OutPads |-> 0]
  /\ failed = FALSE
  /\ passes = 0
  /\ edits = 0

EvalNext ==
  \/ EditGraph
  \/ \E t \in OutPads : StartPass(t)
  \/ \E p \in OutPads, r \in Outcomes : VisitOutputPad(p, r)
  \/ \E i \in InPads : VisitInputPad(i)
  \/ EndPass

(* The visitor runs synchronously to the end of the pass once started.     *)
EvalSpec ==
  /\ EvalInit
  /\ [][EvalNext]_vars
  /\ WF_vars(\E p \in OutPads, r \in Outcomes : VisitOutputPad(p, r))
  /\ WF_vars(\E i \in InPads : VisitInputPad(i))
  /\ WF_vars(EndPass)

(* The pass as EvalPass states it: the output pads processed in this pass *)
(* are the ones it has resolved.                                           *)
Pass == INSTANCE EvalPass WITH
          aphase <- phase,
          atarget <- target,
          resolved <- {p \in OutPads : computed[p] > 0}

(*-------------------------------------------------------------------------*)
(* Properties                                                              *)
(*-------------------------------------------------------------------------*)

EvalTypeOK ==
  /\ GraphTypeOK
  /\ phase \in {"idle", "eval"}
  /\ target \in OutPads \cup {NoPad}
  /\ needed \subseteq Pads
  /\ visited \subseteq needed
  /\ refs \in [Nodes -> 0..Cardinality(InPads)]
  /\ outBuf \in [OutPads -> Buffers \cup {NULL}]
  /\ inVal \in [InPads -> Buffers \cup {NULL}]
  /\ computed \in [OutPads -> Nat]
  /\ released \in [OutPads -> Nat]
  /\ failed \in BOOLEAN
  /\ passes \in 0..MaxPasses
  /\ edits \in 0..MaxEdits

ReleaseExactlyAtLastConsumer ==
  phase = "eval" =>
    \A o \in OutPads :
      /\ released[o] <= 1
      /\ released[o] = 1 => Consumers(o) \subseteq visited
      /\ (Consumers(o) # {} /\ Consumers(o) \subseteq visited /\ outBuf[o] # NULL)
            => released[o] = 1

NoStaleInputAtProcess ==
  [][\A p \in OutPads :
       computed'[p] > computed[p] =>
         \A i \in {NodeOf(p)} \X InPadNames :
            inVal[i] = NULL \/ (inVal[i] \in visited /\ inVal[i] = outBuf[inVal[i]])]_vars

(* Compute errors (spec 7): a process that fails aborts the pass, so no    *)
(* further process runs in it.  visit_pad ignores the result of            *)
(* gegl_operation_process.                                                 *)
NoProcessAfterFailure ==
  [][failed => \A p \in OutPads : computed'[p] = computed[p]]_vars

=============================================================================
