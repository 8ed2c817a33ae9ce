--------------------------- MODULE GraphProjection ---------------------------
(***************************************************************************)
(* The canonical form of a document graph (src/document_graph/             *)
(* projection.rs, mod.rs): fragments that independent workers produced are *)
(* merged in any order and any groups, and the graph's edges get their     *)
(* identities when the projection is finalized.                            *)
(*                                                                         *)
(* Ids, ordinals, places in the source, relations and the rest of an edge  *)
(* are numbers that stand for their order; 0 is no id, no parent and no    *)
(* endpoint.  An edge's identity is a sequence: empty, given by the        *)
(* caller, or a digest, which stands for what it is taken of.              *)
(***************************************************************************)
EXTENDS Integers, SequencesExt

CONSTANTS
  Fragments,   \* a sequence: what workers may return
  MaxMerged    \* bound: fragments merged in a behaviour

VARIABLES
  nodes, edges, \* the graph's collections
  answer,       \* of the last operation: none, merged, finalized, refused
  (* History only, but for the bound.                                      *)
  merged        \* which fragments, in the order they were handed over

projectionVars == <<nodes, edges, answer, merged>>

NoEdgeId == <<>>
FallbackId(e) == <<2, e.source, e.relation, e.target, e.place, e.detail>>

(* Two edges that differ in nothing but their detail get one identity.     *)
FinalId(e) == <<3, e.source, e.relation, e.target, e.place>>

NodeRecords == [id : Nat, ordinal : Nat, place : Nat, parent : Nat]
EdgeRecords == [id : Seq(Nat), source : Nat, relation : Nat, target : Nat, place : Nat, detail : Nat]

EnsureFallbackEdgeId(e) == IF e.id = NoEdgeId THEN [e EXCEPT !.id = FallbackId(e)] ELSE e

Renamed(e) == e.id = NoEdgeId \/ e.id[1] = 2
Nameable(e) == e.source # 0 /\ e.target # 0

(* Only ensure_fallback_edge_id makes identities that begin as it does, of *)
(* what else the edge says: edges that come with one, from a graph that    *)
(* was merged before, share it only when they would share the final one.   *)
ASSUME ProjectionAssumption ==
  /\ MaxMerged \in Nat
  /\ Fragments \in Seq([nodes : Seq(NodeRecords), edges : Seq(EdgeRecords)])
  /\ \A f, g \in Range(Fragments) : \A d \in Range(f.edges), e \in Range(g.edges) :
       Renamed(d) /\ Renamed(e) /\ EnsureFallbackEdgeId(d).id = EnsureFallbackEdgeId(e).id
         => FinalId(d) = FinalId(e)

-----------------------------------------------------------------------------
(* Sequences of numbers are compared as words are, and sequences of such   *)
(* sequences too.                                                          *)
IsBefore(s, t) ==
  \E k \in 1 .. Len(s) + 1 :
    /\ k <= Len(t) /\ \A i \in 1 .. k - 1 : s[i] = t[i]
    /\ k = Len(s) + 1 \/ s[k] < t[k]

KeyIsBefore(s, t) ==
  \E k \in 1 .. Len(s) + 1 :
    /\ k <= Len(t) /\ \A i \in 1 .. k - 1 : s[i] = t[i]
    /\ k = Len(s) + 1 \/ IsBefore(s[k], t[k])

(* A stable sort: what before says of two places goes before what came     *)
(* before.                                                                 *)
Sorted(s, before) ==
  LET ahead(i) == {j \in DOMAIN s : <<j, i>> \in before \/ (j < i /\ <<i, j>> \notin before)}
  IN  [k \in DOMAIN s |-> s[CHOOSE i \in DOMAIN s : Cardinality(ahead(i)) = k - 1]]

ValidateUniqueIds(ns, es) ==
  /\ \A i \in DOMAIN ns : ns[i].id # 0 /\ \A j \in 1 .. i - 1 : ns[i].id # ns[j].id
  /\ \A i \in DOMAIN es : es[i].id # NoEdgeId /\ \A j \in 1 .. i - 1 : es[i].id # es[j].id

(* From a node up to its topmost ancestor, or around a circle of parents   *)
(* once.                                                                   *)
Chain(n, ns) ==
  LET above(c) == {m \in Range(ns) : m.id = Last(c).parent} \ Range(c)
      chain[k \in 1 .. Len(ns)] ==
        IF k = 1 THEN <<n>>
        ELSE LET c == chain[k - 1] IN
             IF above(c) = {} THEN c ELSE Append(c, CHOOSE m \in above(c) : TRUE)
  IN  chain[Len(ns)]

(* Fault: siblings of one ordinal and place stay as they came.             *)
NodeOrderKeyOfPlace(n, ns) ==
  LET down == Reverse(Chain(n, ns)) IN
  [i \in DOMAIN down |-> <<down[i].ordinal, down[i].place>>]

NodeOrderKey(n, ns) ==
  LET down == Reverse(Chain(n, ns)) IN
  [i \in DOMAIN down |-> <<down[i].ordinal, down[i].place, down[i].id>>]

SortNodes(ns) ==
  LET key == [i \in DOMAIN ns |-> NodeOrderKey(ns[i], ns)]
  IN  Sorted(ns, {p \in (DOMAIN ns) \X (DOMAIN ns) : KeyIsBefore(key[p[1]], key[p[2]])})

(* A node that is not in the graph ranks before all.                       *)
Rank(id, ns) ==
  IF \E i \in DOMAIN ns : ns[i].id = id THEN CHOOSE i \in DOMAIN ns : ns[i].id = id ELSE 0

EdgeOrderKey(e, ns) ==
  <<Rank(e.source, ns), e.relation, Rank(e.target, ns), e.target, e.place, e.detail>> \o e.id

SortEdges(es, ns) ==
  LET key == [i \in DOMAIN es |-> EdgeOrderKey(es[i], ns)]
  IN  Sorted(es, {p \in (DOMAIN es) \X (DOMAIN es) : IsBefore(key[p[1]], key[p[2]])})

(* What an operation makes of the graph: a refused one leaves it as it was *)
(* put together, neither sorted nor rolled back.                           *)
Canonicalize(ns, es, answered) ==
  IF ValidateUniqueIds(ns, es)
    THEN [nodes |-> SortNodes(ns), edges |-> SortEdges(es, SortNodes(ns)), answer |-> answered]
    ELSE [nodes |-> ns, edges |-> es, answer |-> "refused"]

AllNodes(fs) == FlattenSeq([i \in DOMAIN fs |-> fs[i].nodes])
AllEdges(fs) == FlattenSeq([i \in DOMAIN fs |-> fs[i].edges])

MergeParallel(g, fs) ==
  LET es == AllEdges(fs) IN
  Canonicalize(g.nodes \o AllNodes(fs),
               g.edges \o [i \in DOMAIN es |-> EnsureFallbackEdgeId(es[i])], "merged")

(* The first edge that lacks an endpoint ends it, with the edges before it *)
(* renamed already.                                                        *)
FinalizeProjection(g) ==
  LET stuck == {i \in DOMAIN g.edges : Renamed(g.edges[i]) /\ ~Nameable(g.edges[i])}
      named == [i \in DOMAIN g.edges |->
                 IF Renamed(g.edges[i]) /\ \A j \in stuck : i < j
                   THEN [g.edges[i] EXCEPT !.id = FinalId(g.edges[i])] ELSE g.edges[i]]
  IN  IF stuck = {} THEN Canonicalize(g.nodes, named, "finalized")
      ELSE [nodes |-> g.nodes, edges |-> named, answer |-> "refused"]

-----------------------------------------------------------------------------
Graph == [nodes |-> nodes, edges |-> edges]
Becomes(g) == nodes' = g.nodes /\ edges' = g.edges /\ answer' = g.answer

ProjectionInit == nodes = <<>> /\ edges = <<>> /\ answer = "none" /\ merged = <<>>

Merge ==
  \E n \in 1 .. MaxMerged - Len(merged) : \E fs \in [1 .. n -> DOMAIN Fragments] :
    /\ Becomes(MergeParallel(Graph, [i \in 1 .. n |-> Fragments[fs[i]]]))
    /\ merged' = merged \o fs

Finalize ==
  /\ Becomes(FinalizeProjection(Graph))
  /\ UNCHANGED merged

ProjectionNext == Merge \/ Finalize

ProjectionSpec == ProjectionInit /\ [][ProjectionNext]_projectionVars

-----------------------------------------------------------------------------
(* Properties.                                                             *)

(* The same fragments merged in one call and one order, then finalized.    *)
AtOnce ==
  LET before == {p \in (DOMAIN merged) \X (DOMAIN merged) : merged[p[1]] < merged[p[2]]}
      fs == Sorted(merged, before)
  IN
  FinalizeProjection(MergeParallel([nodes |-> <<>>, edges |-> <<>>],
                                   [i \in DOMAIN fs |-> Fragments[fs[i]]]))

(* However the fragments arrive and are grouped, and whatever was refused  *)
(* or finalized on the way, the answer is the one, and the graph the one,  *)
(* of merging all of them at once (projection.rs:70;                       *)
(* docs/document-graph.md:82).                                             *)
ArrivalIsInvisible ==
  /\ answer \in {"finalized", "refused"} => AtOnce.answer = answer
  /\ answer = "finalized" => nodes = AtOnce.nodes /\ edges = AtOnce.edges

(* The nodes above n, and n.                                               *)
Lineage(n) == Range(Chain(n, nodes))
InCircle(n) == \E m \in Lineage(n) : m.id = Last(Chain(n, nodes)).parent

(* A node comes after its ancestors and with all its descendants before    *)
(* the next sibling; siblings, and nodes without a parent in the graph,    *)
(* come by ordinal, place and id (projection.rs:181).                      *)
NodesComeInPreorder ==
  answer \in {"merged", "finalized"} =>
    \A j \in DOMAIN nodes : \A i \in 1 .. j - 1 :
      LET m == nodes[i]  n == nodes[j] IN
      \/ InCircle(m) \/ InCircle(n)
      \/ m \in Lineage(n)
      \/ \E a \in Lineage(m) \ Lineage(n), b \in Lineage(n) \ Lineage(m) :
           /\ Lineage(a) \ {a} = Lineage(b) \ {b}
           /\ IsBefore(<<a.ordinal, a.place, a.id>>, <<b.ordinal, b.place, b.id>>)

(* Arrival does not show in the graph, and its order is that of a document.*)
ProjectionIsCanonical == ArrivalIsInvisible /\ NodesComeInPreorder
=============================================================================
