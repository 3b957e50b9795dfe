------------------------------ MODULE EvalPass ------------------------------
(***************************************************************************)
(* What one evaluation pass promises (spec.md 4.4 and 5), stated over      *)
(* output pads only: a request for output pad t resolves every output pad  *)
(* t depends on, each at most once, each after every output pad feeding    *)
(* its node, and returns once t is resolved.  The graph is edited only     *)
(* between passes.  GeglEval, the visitor pad by pad, implements it (the   *)
(* refinement is checked in the eval run).                                 *)
(***************************************************************************)
EXTENDS GeglGraph

VARIABLES
  aphase,       \* "idle" between requests, "eval" during one
  atarget,      \* the output pad requested last
  resolved      \* the output pads resolved (computed) in the current pass

passVars == <<aphase, atarget, resolved>>

(* The output pads whose buffers the node of output pad o reads.           *)
Feeds(o) == {conn[i] : i \in {j \in {NodeOf(o)} \X InPadNames : IsConnected(j)}}

(* The output pads t depends on, t included.                               *)
RECURSIVE UpstreamFrom(_)
UpstreamFrom(S) ==
  LET S2 == S \cup UNION {Feeds(o) : o \in S}
  IN  IF S2 = S THEN S ELSE UpstreamFrom(S2)

Upstream(t) == UpstreamFrom({t})

PassInit ==
  /\ conn \in BuiltGraphs
  /\ lastErr = "none"
  /\ aphase = "idle"
  /\ atarget = NoPad
  /\ resolved = {}

(* The application edits the graph while no pass runs (spec 5).           *)
Edit ==
  /\ aphase = "idle"
  /\ GraphNext
  /\ UNCHANGED passVars

Request(t) ==
  /\ aphase = "idle"
  /\ aphase' = "eval"
  /\ atarget' = t
  /\ resolved' = {}
  /\ UNCHANGED graphVars

(* compute runs on o once in the pass, after everything feeding o.        *)
Resolve(o) ==
  /\ aphase = "eval"
  /\ o \in Upstream(atarget) \ resolved
  /\ Feeds(o) \subseteq resolved
  /\ resolved' = resolved \cup {o}
  /\ UNCHANGED <<graphVars, aphase, atarget>>

Return ==
  /\ aphase = "eval"
  /\ Upstream(atarget) \subseteq resolved
  /\ aphase' = "idle"
  /\ UNCHANGED <<graphVars, atarget, resolved>>

PassNext ==
  \/ Edit
  \/ \E t \in OutPads : Request(t)
  \/ \E o \in OutPads : Resolve(o)
  \/ Return

(* A pass runs synchronously to its end (spec 5); nothing obliges the      *)
(* application to edit or to request.                                      *)
PassSpec ==
  /\ PassInit
  /\ [][PassNext]_<<graphVars, passVars>>
  /\ WF_<<graphVars, passVars>>(\E o \in OutPads : Resolve(o))
  /\ WF_<<graphVars, passVars>>(Return)

=============================================================================
