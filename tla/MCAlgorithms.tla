---------------------------- MODULE MCAlgorithms ----------------------------
(* Five sequential machines that share nothing, checked in one run: a      *)
(* behaviour is one of one of them, and the others stay where they begin.  *)
EXTENDS GraphAnalysis, Registries, StructuralSegmentation, StreamCollector,
        GraphProjection

VARIABLE machine

Edge(a, b, d) == [source |-> a, target |-> b, directed |-> d]
Doc(n, e) == [nodes |-> n, edges |-> e]
Arcs == <<Edge(1,1,TRUE), Edge(1,2,TRUE), Edge(1,3,TRUE), Edge(2,1,TRUE), Edge(2,2,TRUE),
          Edge(2,3,TRUE), Edge(3,1,TRUE), Edge(3,2,TRUE), Edge(3,3,TRUE)>>
ListOf(A) == SelectSeq(Arcs, LAMBDA e : e \in A)
MCDocuments ==
  {Doc(<<3, 1, 2>>, ListOf(A)) : A \in SUBSET Range(Arcs)}
  \cup {Doc(<<1, 2, 3, 4, 5>>, <<Edge(1,2,TRUE), Edge(2,3,TRUE), Edge(2,4,TRUE), Edge(3,5,TRUE),
                               Edge(5,1,TRUE), Edge(4,1,TRUE)>>),
      Doc(<<1, 2>>, <<Edge(1,2,TRUE), Edge(1,2,TRUE)>>),
      Doc(<<1, 2, 3>>, <<Edge(1,2,TRUE), Edge(2,3,FALSE), Edge(3,2,FALSE)>>),
      Doc(<<1, 1>>, <<>>),
      Doc(<<1, 2>>, <<Edge(1,3,TRUE), Edge(1,2,FALSE)>>),
      Doc(<<1, 2>>, <<Edge(2,2,FALSE)>>),
      Doc(<<4, 3, 2, 1>>, <<Edge(4,3,TRUE), Edge(4,2,TRUE), Edge(3,1,TRUE), Edge(2,1,TRUE), Edge(4,1,TRUE)>>)}
Req(t, d, g) == [task |-> t, directed |-> d, loops |-> TRUE, undirected |-> TRUE, parallel |-> TRUE, dag |-> g]
MCRequests == {Req("analyze", FALSE, FALSE), Req("analyze", TRUE, FALSE), Req("validate", FALSE, TRUE),
  [Req("validate", FALSE, TRUE) EXCEPT !.loops = FALSE, !.undirected = FALSE, !.parallel = FALSE, !.dag = FALSE]}

-----------------------------------------------------------------------------
CONSTANTS json, JSON, text_x, graph_name, pdf   \* spellings
MCNormal == [space \in Namespaces |-> [s \in {json, JSON, text_x, graph_name, pdf} |->
  IF s = JSON THEN json ELSE IF s = text_x /\ space = "extension" THEN NoName ELSE s]]
Parser(i, f, a, m, e, p) == [id |-> i, format |-> f, aliases |-> a, media |-> m,
                             extensions |-> e, priority |-> p, valid |-> TRUE]
MCDescriptors == {
  Parser(1, json, {}, {text_x}, {JSON}, 0),
  Parser(2, JSON, {}, {pdf}, {}, 1),                \* the same format, preferred
  Parser(3, JSON, {graph_name}, {}, {}, 1),         \* claims another format's name
  Parser(4, graph_name, {}, {text_x}, {pdf}, 0),    \* claims a taken media type
  Parser(7, graph_name, {}, {}, {}, 1),             \* and nothing but its name
  Parser(4, pdf, {}, {}, {}, 0),                    \* a taken id
  Parser(5, pdf, {}, {}, {text_x}, 0),              \* an empty extension
  [Parser(6, pdf, {}, {}, {json}, 2) EXCEPT !.valid = FALSE]}
Provider(i, k, p, n, iso) == [id |-> i, kind |-> k, priority |-> p, origin |-> "caller",
                              network |-> n, isolation |-> iso, valid |-> TRUE]
MCProviders == {Provider(1, "ocr", 0, "forbidden", FALSE), Provider(2, "ocr", 1, "required", FALSE),
  Provider(3, "ocr", 1, "optional", FALSE), Provider(3, "backend", 0, "optional", TRUE),
  Provider(4, "backend", 1, "optional", FALSE)}

-----------------------------------------------------------------------------
Node(k, p, l, z) == [kind |-> k, parent |-> p, level |-> l, size |-> z, selected |-> TRUE,
                     located |-> TRUE, caption |-> 0]
Text(p, z) == Node("text", p, 1, z)
MCTexts == {
  (* headings by level and by parent *)
  <<Node("heading", 0, 1, 1), Text(0, 1), Node("heading", 0, 2, 1), Text(0, 2), Text(3, 1), Text(0, 1)>>,
  (* a table with rows, a caption far from its figure *)
  <<Text(0, 1), Node("figure", 0, 1, 1), Node("table", 0, 1, 1), Node("row", 3, 1, 2),
    [Node("caption", 0, 1, 1) EXCEPT !.caption = 2], Text(0, 1), Text(0, 1)>>,
  (* nodes that are not prepared, one larger than any segment, code in an equation *)
  <<Text(0, 5), [Text(0, 1) EXCEPT !.located = FALSE], Node("equation", 0, 1, 1), Node("code", 3, 1, 1),
    [Node("heading", 0, 1, 1) EXCEPT !.selected = FALSE], Text(5, 2)>>,
  (* parents in a circle *)
  <<Text(2, 1), Text(1, 1)>>}
MCSegmentOptions == [target : 0 .. 3, maximum : {2, 3, 4}, overlap : 0 .. 3, headings : BOOLEAN,
                     atomic : {{}, {"table", "code", "equation", "figure"}},
                     boundaries : {{"text"}, {"heading", "row"}}]

-----------------------------------------------------------------------------
CONSTANT MaxEvents  \* bound: events handed to the collector

MCItems == [event : {"item"}, sequence : 0..2]
MCTerminals ==
  [event : {"terminal"}, status : {"complete", "partial", "cancelled"},
   emitted_items : 0..3, partial : BOOLEAN]
MCCollectorNext == EndOfStream \/ (Len(received) < MaxEvents /\ \E e \in Events : Receive(e))

-----------------------------------------------------------------------------
PNode(i, o, p, u) == [id |-> i, ordinal |-> o, place |-> p, parent |-> u]
PEdge(s, r, t, p, d) ==
  [id |-> <<>>, source |-> s, relation |-> r, target |-> t, place |-> p, detail |-> d]
Part(n, e) == [nodes |-> n, edges |-> e]
MCFragments == <<
  Part(<<PNode(4, 9, 1, 0)>>, <<PEdge(4, 1, 2, 1, 1), PEdge(4, 1, 1, 1, 1)>>),
  Part(<<PNode(3, 1, 1, 2), PNode(2, 1, 2, 4)>>, <<PEdge(2, 1, 3, 1, 1)>>),
  (* a sibling of the same ordinal and place, edges from absent nodes *)
  Part(<<PNode(1, 1, 2, 4)>>, <<[PEdge(9, 1, 1, 0, 1) EXCEPT !.id = <<1, 1>>], PEdge(8, 1, 9, 0, 2)>>),
  (* an edge that collides with another when it is named for good, and comes *)
  (* with the fallback of an earlier merge *)
  Part(<<PNode(5, 1, 1, 7)>>, <<LET e == PEdge(4, 1, 2, 1, 2) IN [e EXCEPT !.id = FallbackId(e)]>>),
  (* an edge without an endpoint; parents in a circle *)
  Part(<<>>, <<PEdge(2, 2, 1, 1, 1), PEdge(0, 1, 1, 1, 1)>>),
  Part(<<PNode(6, 1, 1, 7), PNode(7, 0, 1, 6)>>, <<>>)>>

-----------------------------------------------------------------------------
OneOf(S) == CHOOSE x \in S : TRUE
MCInit ==
  /\ machine \in {"graph", "registry", "segmentation", "collector", "projection"}
  /\ document \in IF machine = "graph" THEN Documents ELSE {OneOf(Documents)}
  /\ request \in IF machine = "graph" THEN Requests ELSE {OneOf(Requests)}
  /\ text \in IF machine = "segmentation" THEN Texts ELSE {OneOf(Texts)}
  /\ option \in IF machine = "segmentation" THEN SegmentOptions ELSE {OneOf(SegmentOptions)}
  /\ GraphInit /\ RegistryInit /\ SegmentInit /\ CollectorInit /\ ProjectionInit

MCNext ==
  \/ /\ machine = "graph" /\ GraphNext
     /\ UNCHANGED <<machine, registryVars, segmentVars, collector, projectionVars>>
  \/ /\ machine = "registry" /\ RegistryNext
     /\ UNCHANGED <<machine, graphVars, segmentVars, collector, projectionVars>>
  \/ /\ machine = "segmentation" /\ SegmentNext
     /\ UNCHANGED <<machine, graphVars, registryVars, collector, projectionVars>>
  \/ /\ machine = "collector" /\ MCCollectorNext
     /\ UNCHANGED <<machine, graphVars, registryVars, segmentVars, projectionVars>>
  \/ /\ machine = "projection" /\ ProjectionNext
     /\ UNCHANGED <<machine, graphVars, registryVars, segmentVars, collector>>

MCSpec == MCInit /\ [][MCNext]_<<machine, graphVars, registryVars, segmentVars, collector, projectionVars>>
=============================================================================
