------------------------------- MODULE Layer -------------------------------
(***************************************************************************)
(* The "layer" meta-operation, src/operations/meta/layer.c: a node whose   *)
(* internal graph composites a shifted, faded image over its input.  The   *)
(* image comes from the file named by the "src" property (loaded once and  *)
(* cached by refresh_cache) or, when src is empty, from the aux input.     *)
(*                                                                         *)
(* associate builds the internal graph                                     *)
(*     load -> opacity -> shift -> composite.aux                           *)
(*     input -> composite.input,  composite -> output                      *)
(* with gegl_node_connect on the GeglGraph connection semantics; prepare   *)
(* (run before every evaluation) refreshes the cache and rewires.          *)
(*                                                                         *)
(* A loaded buffer is named by the number of the load that produced it;    *)
(* loadedFrom records which path each load read.  The numeric properties   *)
(* (opacity, x, y) and composite_op are copied into internal nodes         *)
(* unchanged and are left out.                                             *)
(***************************************************************************)
EXTENDS Naturals, FiniteSets

LOCAL INSTANCE SequencesExt

CONSTANTS
  Paths,          \* values of the "src" property; "" is the empty string
  LoadOutcomes,   \* what loading a path may give: {"buffer"} or {"buffer", "null"}
  MaxLoads,       \* bound on the number of loads in one behaviour
  NoPad,          \* model value: an input pad with no source
  NULL            \* model value: NULL pointer

ASSUME "" \in Paths /\ LoadOutcomes \subseteq {"buffer", "null"} /\ MaxLoads \in Nat

VARIABLES
  objState,       \* "alive", "disposed", "finalized" or "crashed" (GObject life)
  associated,     \* priv != NULL
  src,            \* the "src" property
  lconn,          \* connections of the internal graph
  lerr,           \* error of the last gegl_node_connect on it
  loadBuf,        \* the "buffer" property of priv->load
  cachedBuffer,   \* priv->cached_buffer
  cachedPath,     \* priv->cached_path
  loads,          \* number of load graphs refresh_cache has run
  loadedFrom,     \* [1..MaxLoads -> Paths \cup {NULL}]: path of each load
  releasedCache,  \* [1..MaxLoads -> Nat]: unrefs of priv->cached_buffer
  prepared        \* prepare has run since the last property change

vars == <<objState, associated, src, lconn, lerr, loadBuf, cachedBuffer,
          cachedPath, loads, loadedFrom, releasedCache, prepared>>

LayerNodes == {"input", "aux", "output", "composite", "shift", "opacity", "load"}

Internal == INSTANCE GeglGraph WITH
  Nodes <- LayerNodes, InPadNames <- {"input", "aux"}, OutPadNames <- {"output"},
  conn <- lconn, lastErr <- lerr

Buffers == 1..MaxLoads

Out(n) == <<n, "output">>

(*-------------------------------------------------------------------------*)
(* associate: g_assert (priv == NULL); allocate priv; create the nodes of  *)
(* the internal graph and connect them, in this order.                     *)
(*-------------------------------------------------------------------------*)
AssociateConnects ==
  << <<Out("load"),      <<"opacity", "input">>>>,
     <<Out("opacity"),   <<"shift", "input">>>>,
     <<Out("shift"),     <<"composite", "aux">>>>,
     <<Out("input"),     <<"composite", "input">>>>,
     <<Out("composite"), <<"output", "input">>>> >>

ConnectStep(r, e) == Internal!ConnectResult(r.conn, e[1], e[2])

Associate ==
  /\ objState = "alive"
  /\ ~associated
  /\ associated' = TRUE
  /\ LET r == FoldLeft(ConnectStep, [conn |-> Internal!EmptyGraph, err |-> "none"],
                       AssociateConnects)
     IN  /\ lconn' = r.conn
         /\ lerr' = r.err
  /\ UNCHANGED <<objState, src, loadBuf, cachedBuffer, cachedPath, loads,
                 loadedFrom, releasedCache, prepared>>

(* The application sets the "src" property (gegl_node_set).               *)
SetSrc(p) ==
  /\ objState = "alive"
  /\ src' = p
  /\ prepared' = FALSE
  /\ UNCHANGED <<objState, associated, lconn, lerr, loadBuf, cachedBuffer,
                 cachedPath, loads, loadedFrom, releasedCache>>

(*-------------------------------------------------------------------------*)
(* refresh_cache                                                           *)
(*-------------------------------------------------------------------------*)

(* Seeded fault for NeedsRefresh: reload only when nothing is cached.      *)
NeedsRefreshNoKey ==
  cachedBuffer = NULL

(* !priv->cached_buffer ||                                                 *)
(*   ((priv->cached_path && self->src) && strcmp (self->src, cached_path)) *)
NeedsRefresh ==
  \/ cachedBuffer = NULL
  \/ cachedPath # NULL /\ cachedPath # src

(* The cached buffer is unreffed and the path freed; a graph with a "load" *)
(* node for src is run and its output taken (the extra unref at line 200   *)
(* hands the load node's reference over to the cache); the path is         *)
(* duplicated.  The load gives a new buffer or, for outcome "null", none.  *)
(* Seeded fault for NewBuffer: the buffer of the previous load.            *)
NewBufferPrevious == loads

(* The buffer gegl_node_get (graph, "buffer") hands over after the load    *)
(* graph ran: a new one, named by the number of this load.                 *)
NewBuffer == loads + 1

RefreshCache(outcome) ==
  IF NeedsRefresh
  THEN /\ loads < MaxLoads
       /\ releasedCache' = IF cachedBuffer # NULL
                           THEN [releasedCache EXCEPT ![cachedBuffer] = @ + 1]
                           ELSE releasedCache
       /\ loads' = loads + 1
       /\ loadedFrom' = [loadedFrom EXCEPT ![loads + 1] = src]
       /\ cachedBuffer' = IF outcome = "buffer" THEN NewBuffer ELSE NULL
       /\ cachedPath' = src
  ELSE UNCHANGED <<releasedCache, loads, loadedFrom, cachedBuffer, cachedPath>>

(*-------------------------------------------------------------------------*)
(* prepare: set composite_op's operation; with a src, refresh the cache    *)
(* and give the cached buffer to the internal buffer node, otherwise       *)
(* connect opacity's input to the aux proxy; set opacity, x and y.         *)
(*-------------------------------------------------------------------------*)
Prepare(outcome) ==
  /\ objState = "alive"
  /\ associated
  /\ prepared' = TRUE
  /\ IF src # ""
     THEN /\ RefreshCache(outcome)
          /\ loadBuf' = cachedBuffer'
          /\ UNCHANGED <<lconn, lerr>>
     ELSE /\ lconn' = Internal!ConnectResult(lconn, Out("aux"), <<"opacity", "input">>).conn
          /\ lerr' = Internal!ConnectResult(lconn, Out("aux"), <<"opacity", "input">>).err
          /\ UNCHANGED <<loadBuf, releasedCache, loads, loadedFrom, cachedBuffer, cachedPath>>
  /\ UNCHANGED <<objState, associated, src>>

(* Seeded fault for Dispose: the cached buffer is unreffed but the pointer *)
(* is not cleared.                                                         *)
DisposeNoClear ==
  /\ objState \in {"alive", "disposed"}
  /\ IF ~associated
     THEN /\ objState' = "crashed"
          /\ UNCHANGED <<releasedCache, cachedBuffer, cachedPath>>
     ELSE /\ objState' = "disposed"
          /\ releasedCache' = IF cachedBuffer # NULL
                              THEN [releasedCache EXCEPT ![cachedBuffer] = @ + 1]
                              ELSE releasedCache
          /\ cachedPath' = NULL
          /\ UNCHANGED cachedBuffer
  /\ UNCHANGED <<associated, src, lconn, lerr, loadBuf, loads, loadedFrom, prepared>>

(* dispose, which GObject may run more than once: priv is dereferenced     *)
(* without a check (a NULL priv, before associate, crashes); the cached    *)
(* buffer is unreffed and cleared, the path freed and cleared.             *)
Dispose ==
  /\ objState \in {"alive", "disposed"}
  /\ IF ~associated
     THEN /\ objState' = "crashed"
          /\ UNCHANGED <<releasedCache, cachedBuffer, cachedPath>>
     ELSE /\ objState' = "disposed"
          /\ releasedCache' = IF cachedBuffer # NULL
                              THEN [releasedCache EXCEPT ![cachedBuffer] = @ + 1]
                              ELSE releasedCache
          /\ cachedBuffer' = NULL
          /\ cachedPath' = NULL
  /\ UNCHANGED <<associated, src, lconn, lerr, loadBuf, loads, loadedFrom, prepared>>

(* finalize: free priv if it is set; the object is gone.                   *)
Finalize ==
  /\ objState = "disposed"
  /\ objState' = "finalized"
  /\ associated' = FALSE
  /\ UNCHANGED <<src, lconn, lerr, loadBuf, cachedBuffer, cachedPath, loads,
                 loadedFrom, releasedCache, prepared>>

(* A new operation: no priv, default properties (src = ""), empty graph.   *)
LayerInit ==
  /\ objState = "alive"
  /\ associated = FALSE
  /\ src = ""
  /\ lconn = Internal!EmptyGraph
  /\ lerr = "none"
  /\ loadBuf = NULL
  /\ cachedBuffer = NULL
  /\ cachedPath = NULL
  /\ loads = 0
  /\ loadedFrom = [b \in Buffers |-> NULL]
  /\ releasedCache = [b \in Buffers |-> 0]
  /\ prepared = FALSE

LayerNext ==
  \/ Associate
  \/ \E p \in Paths : SetSrc(p)
  \/ \E r \in LoadOutcomes : Prepare(r)
  \/ Dispose
  \/ Finalize

LayerSpec == LayerInit /\ [][LayerNext]_vars

(*-------------------------------------------------------------------------*)
(* Properties                                                              *)
(*-------------------------------------------------------------------------*)

LayerTypeOK ==
  /\ objState \in {"alive", "disposed", "finalized", "crashed"}
  /\ associated \in BOOLEAN
  /\ src \in Paths
  /\ Internal!GraphTypeOK
  /\ loadBuf \in Buffers \cup {NULL}
  /\ cachedBuffer \in Buffers \cup {NULL}
  /\ cachedPath \in Paths \cup {NULL}
  /\ loads \in 0..MaxLoads
  /\ loadedFrom \in [Buffers -> Paths \cup {NULL}]
  /\ releasedCache \in [Buffers -> Nat]
  /\ prepared \in BOOLEAN

(* Cache invalidation (spec 4.3, 8): after prepare with a non-empty src,   *)
(* the internal buffer node holds the cached buffer, and that buffer was   *)
(* loaded from the current src, however src has changed before.            *)
LoadShowsCurrentSrc ==
  (objState = "alive" /\ prepared /\ src # "") =>
    /\ loadBuf = cachedBuffer
    /\ cachedPath = src
    /\ cachedBuffer # NULL => loadedFrom[cachedBuffer] = src

(* Buffer lifetime: the layer unrefs each buffer it cached at most once,   *)
(* across cache refreshes and repeated dispose calls.                      *)
CacheReleasedOnce ==
  \A b \in Buffers : releasedCache[b] <= 1

(* Meta-node rewiring (spec 4.2): after prepare, opacity's input comes     *)
(* from the aux proxy when src is empty and from the load node otherwise.  *)
OpacityFollowsSrc ==
  (objState = "alive" /\ prepared) =>
    lconn[<<"opacity", "input">>] = IF src = "" THEN Out("aux") ELSE Out("load")

(* dispose never dereferences a NULL priv.                                 *)
NoNullPrivDeref == objState # "crashed"

=============================================================================
