---------------------------- MODULE GraphAnalysis ----------------------------
(***************************************************************************)
(* Validation and analysis of a generic graph (src/graph/analysis.rs):     *)
(* the strongly connected components by two depth-first searches with a    *)
(* stack of their own, one shortest closed walk for each cyclic component, *)
(* and a schedule in layers when there is none. Each turn of a loop that   *)
(* asks the operation control whether to go on is a step.                  *)
(***************************************************************************)
EXTENDS Integers, SequencesExt

CONSTANTS
  Ids,        \* node ids, as numbers: only their order counts
  Documents,  \* [nodes, edges]: what may be analysed, in document order
  Requests    \* [task, directed, loops, undirected, parallel, dag]

ASSUME GraphAssumption ==
  /\ Ids \subseteq Nat
  /\ \A d \in Documents :
       /\ d.nodes \in Seq(Ids)
       /\ d.edges \in Seq([source : Ids, target : Ids, directed : BOOLEAN])
  /\ \A r \in Requests :
       /\ r.task \in {"analyze", "validate"}
       /\ {r.directed, r.loops, r.undirected, r.parallel, r.dag} \subseteq BOOLEAN

VARIABLES
  document, request,
  phase,        \* "index", "search", "gather", "witness", "schedule", "failed", "done"
  error,        \* why there is no analysis: "none", "duplicate", ...
  diagnostics,  \* codes of validate_graph
  adjacency,    \* successors of each node
  visited,      \* nodes met by the search under way
  stack,        \* first search: [node, rest] frames; second: nodes
  finish,       \* nodes in the order the first search left them
  component,    \* members of the component being gathered
  components,
  todo, firsts, paths, \* components, neighbours and the queue of paths still to look at
  witnesses,
  indegree, ready, order, layers

search == <<visited, stack, finish, component>>
walk == <<todo, firsts, paths>>
schedule == <<indegree, ready, order, layers>>
graphVars == <<document, request, phase, error, diagnostics, adjacency, search, components, walk,
          witnesses, schedule>>

NodeIds(d) == {d.nodes[i] : i \in DOMAIN d.nodes}
Edges(d) == {d.edges[i] : i \in DOMAIN d.edges}

Adjacency(d) ==
  [n \in NodeIds(d) |-> {m \in NodeIds(d) :
     \E e \in Edges(d) : \/ e.source = n /\ e.target = m
                         \/ ~e.directed /\ e.source = m /\ e.target = n}]
reverse == [n \in NodeIds(document) |-> {m \in NodeIds(document) : n \in adjacency[m]}]

Ascending(S) ==
  [k \in 1 .. Cardinality(S) |-> CHOOSE n \in S : Cardinality({m \in S : m < n}) = k - 1]
Least(S) == CHOOSE n \in S : \A m \in S : n <= m

GraphInit ==
  /\ document \in Documents /\ request \in Requests
  /\ phase = "index" /\ error = "none" /\ diagnostics = {}
  /\ adjacency = <<>>
  /\ visited = {} /\ stack = <<>> /\ finish = <<>> /\ component = {}
  /\ components = {}
  /\ todo = {} /\ firsts = {} /\ paths = <<>>
  /\ witnesses = {}
  /\ indegree = <<>> /\ ready = {} /\ order = <<>> /\ layers = <<>>

-----------------------------------------------------------------------------
(* validate_graph and the head of analyze_graph.                           *)

(* Parallel edges are told apart by direction, and an undirected edge has  *)
(* none.                                                                   *)
Pair(e) ==
  <<IF e.directed \/ e.source <= e.target THEN <<e.source, e.target>> ELSE <<e.target, e.source>>,
    e.directed>>

(* The codes of the diagnostics that do not need an analysis.              *)
Diagnose(d, r) ==
  {code \in {"node_id_duplicate", "edge_endpoint_unknown", "self_loop_forbidden",
             "undirected_edge_forbidden", "parallel_edge_forbidden"} :
     \/ code = "node_id_duplicate" /\ ~IsInjective(d.nodes)
     \/ code = "edge_endpoint_unknown"
          /\ \E e \in Edges(d) : {e.source, e.target} \ NodeIds(d) # {}
     \/ code = "self_loop_forbidden"
          /\ ~r.loops /\ \E e \in Edges(d) : e.source = e.target
     \/ code = "undirected_edge_forbidden"
          /\ ~r.undirected /\ \E e \in Edges(d) : ~e.directed
     \/ code = "parallel_edge_forbidden"
          /\ ~r.parallel
          /\ \E i, j \in DOMAIN d.edges : i < j /\ Pair(d.edges[i]) = Pair(d.edges[j])}

RequireDirected(r) == r.task = "validate" \/ r.directed

(* The first edge that cannot be indexed decides the error.                *)
Faulty(d, r, i) ==
  \/ RequireDirected(r) /\ ~d.edges[i].directed
  \/ {d.edges[i].source, d.edges[i].target} \ NodeIds(d) # {}

IndexError(d, r) ==
  IF ~IsInjective(d.nodes) THEN "duplicate"
  ELSE IF ~ \E i \in DOMAIN d.edges : Faulty(d, r, i) THEN "none"
  ELSE LET i == Least({j \in DOMAIN d.edges : Faulty(d, r, j)}) IN
       IF RequireDirected(r) /\ ~d.edges[i].directed THEN "undirected" ELSE "unknown"

Index ==
  /\ phase = "index"
  /\ diagnostics' = IF request.task = "validate" THEN Diagnose(document, request) ELSE {}
  /\ IF request.task = "validate" /\ ~request.dag
       THEN phase' = "done" /\ UNCHANGED <<error, adjacency>>
       ELSE /\ adjacency' = Adjacency(document)
            /\ error' = IndexError(document, request)
            /\ phase' = IF error' = "none" THEN "search" ELSE "failed"
  /\ UNCHANGED <<document, request, search, components, walk, witnesses, schedule>>

-----------------------------------------------------------------------------
(* iterative_scc.                                                          *)

Frame(n) == [node |-> n, rest |-> Ascending(adjacency[n])]
Top == stack[Len(stack)]

SearchStart ==
  /\ phase = "search" /\ stack = <<>>
  /\ NodeIds(document) \ visited # {}
  /\ LET start == Least(NodeIds(document) \ visited) IN
       /\ visited' = visited \cup {start}
       /\ stack' = <<Frame(start)>>
  /\ UNCHANGED <<document, request, adjacency, phase, error, diagnostics, finish, component, components,
                 walk, witnesses, schedule>>

(* Fault: a node is finished when it is met.                               *)
FinishOnEntry(n, leaving) == IF leaving THEN finish ELSE Append(finish, n)

FinishOn(n, leaving) == IF leaving THEN Append(finish, n) ELSE finish

SearchStep ==
  /\ phase = "search" /\ stack # <<>>
  /\ IF Top.rest = <<>>
       THEN /\ stack' = Front(stack)
            /\ finish' = FinishOn(Top.node, TRUE)
            /\ UNCHANGED visited
       ELSE LET next == Head(Top.rest)
                rest == [stack EXCEPT ![Len(stack)].rest = Tail(@)]
            IN  /\ visited' = visited \cup {next}
                /\ IF next \in visited
                     THEN stack' = rest /\ UNCHANGED finish
                     ELSE stack' = Append(rest, Frame(next)) /\ finish' = FinishOn(next, FALSE)
  /\ UNCHANGED <<document, request, adjacency, phase, error, diagnostics, component, components,
                 walk, witnesses, schedule>>

SearchEnd ==
  /\ phase = "search" /\ stack = <<>>
  /\ NodeIds(document) \subseteq visited
  /\ phase' = "gather"
  /\ visited' = {}
  /\ UNCHANGED <<document, request, adjacency, error, diagnostics, stack, finish, component, components,
                 walk, witnesses, schedule>>

GatherStart ==
  /\ phase = "gather" /\ stack = <<>> /\ component = {} /\ finish # <<>>
  /\ finish' = Front(finish)
  /\ IF Last(finish) \in visited
       THEN UNCHANGED <<visited, stack>>
       ELSE visited' = visited \cup {Last(finish)} /\ stack' = <<Last(finish)>>
  /\ UNCHANGED <<document, request, adjacency, phase, error, diagnostics, component, components,
                 walk, witnesses, schedule>>

GatherStep ==
  LET new == reverse[Top] \ visited IN
  /\ phase = "gather" /\ stack # <<>>
  /\ component' = component \cup {Top}
  /\ visited' = visited \cup new
  /\ stack' = Front(stack) \o Reverse(Ascending(new))
  /\ UNCHANGED <<document, request, adjacency, phase, error, diagnostics, finish,
                 components, walk, witnesses, schedule>>

GatherComponent ==
  /\ phase = "gather" /\ stack = <<>> /\ component # {}
  /\ components' = components \cup {component}
  /\ component' = {}
  /\ UNCHANGED <<document, request, adjacency, phase, error, diagnostics, visited, stack, finish,
                 walk, witnesses, schedule>>

-----------------------------------------------------------------------------
(* cycle_witness and shortest_path, component by component.                *)

GatherEnd ==
  /\ phase = "gather" /\ stack = <<>> /\ component = {} /\ finish = <<>>
  /\ phase' = "witness"
  /\ todo' = components
  /\ UNCHANGED <<document, request, adjacency, error, diagnostics, search, components,
                 firsts, paths, witnesses, schedule>>

WitnessStart ==
  /\ phase = "witness" /\ component = {} /\ todo # {}
  /\ LET c == CHOOSE x \in todo : \A y \in todo : Least(x) <= Least(y)
         start == Least(c)
     IN  /\ todo' = todo \ {c}
         /\ IF Cardinality(c) = 1
              THEN /\ witnesses' = witnesses \cup
                        (IF start \in adjacency[start] THEN {<<start, start>>} ELSE {})
                   /\ UNCHANGED <<component, firsts>>
              ELSE /\ component' = c
                   /\ firsts' = adjacency[start] \cap c
                   /\ UNCHANGED witnesses
  /\ UNCHANGED <<document, request, adjacency, phase, error, diagnostics, visited, stack,
                 finish, components, paths, schedule>>

(* The next neighbour of the least member is tried, or none is left.       *)
WitnessTry ==
  /\ phase = "witness" /\ component # {} /\ paths = <<>>
  /\ IF firsts = {}
       THEN component' = {} /\ UNCHANGED <<visited, firsts, paths>>
       ELSE /\ firsts' = firsts \ {Least(firsts)}
            /\ visited' = {Least(firsts)}
            /\ paths' = <<<<Least(firsts)>>>>
            /\ UNCHANGED component
  /\ UNCHANGED <<document, request, adjacency, phase, error, diagnostics, stack, finish,
                 components, todo, witnesses, schedule>>

(* Fault: the newest node is looked at first, so the walk may be longer.   *)
EnqueueFirst(q, new) == new \o q

Enqueue(q, new) == q \o new

(* A node waits in the queue with the path that led to it.                 *)
WitnessStep ==
  LET path == Head(paths)
      new == (adjacency[Last(path)] \cap component) \ visited
      further == [i \in 1 .. Cardinality(new) |-> Append(path, Ascending(new)[i])]
  IN
  /\ phase = "witness" /\ paths # <<>>
  /\ IF Last(path) = Least(component)
       THEN /\ witnesses' = witnesses \cup {<<Last(path)>> \o path}
            /\ paths' = <<>> /\ component' = {}
            /\ UNCHANGED visited
       ELSE /\ visited' = visited \cup new
            /\ paths' = Enqueue(Tail(paths), further)
            /\ UNCHANGED <<witnesses, component>>
  /\ UNCHANGED <<document, request, adjacency, phase, error, diagnostics, stack, finish,
                 components, todo, firsts, schedule>>

-----------------------------------------------------------------------------
(* stable_schedule.                                                        *)

Indegree(n) == Cardinality(reverse[n])

WitnessEnd ==
  /\ phase = "witness" /\ component = {} /\ todo = {}
  /\ IF witnesses = {}
       THEN /\ phase' = "schedule"
            /\ indegree' = [n \in NodeIds(document) |-> Indegree(n)]
            /\ ready' = {n \in NodeIds(document) : Indegree(n) = 0}
            /\ UNCHANGED diagnostics
       ELSE /\ phase' = "done"
            /\ diagnostics' = IF request.task = "validate" THEN diagnostics \cup {"cycle"}
                              ELSE diagnostics
            /\ UNCHANGED <<indegree, ready>>
  /\ UNCHANGED <<document, request, adjacency, error, search, components, walk, witnesses,
                 order, layers>>

Layer ==
  LET left == [n \in NodeIds(document) |-> indegree[n] - Cardinality(reverse[n] \cap ready)] IN
  /\ phase = "schedule" /\ ready # {}
  /\ order' = order \o Ascending(ready)
  /\ layers' = Append(layers, ready)
  /\ indegree' = left
  /\ ready' = {n \in NodeIds(document) : left[n] = 0 /\ indegree[n] > 0}
  /\ UNCHANGED <<document, request, adjacency, phase, error, diagnostics, search, components, walk,
                 witnesses>>

ScheduleEnd ==
  /\ phase = "schedule" /\ ready = {}
  /\ phase' = "done"
  /\ UNCHANGED <<document, request, adjacency, error, diagnostics, search, components, walk, witnesses,
                 schedule>>

(* An analysis that fails is a diagnostic of validation only when the edge *)
(* is undirected; the other two were told before.                          *)
FailureCodes(e) == IF e = "undirected" THEN {"undirected_edge_forbidden"} ELSE {}

Fail ==
  /\ phase = "failed"
  /\ phase' = "done"
  /\ diagnostics' = diagnostics \cup (IF request.task = "validate" THEN FailureCodes(error) ELSE {})
  /\ UNCHANGED <<document, request, adjacency, error, search, components, walk, witnesses, schedule>>

GraphNext ==
  \/ Index \/ Fail
  \/ SearchStart \/ SearchStep \/ SearchEnd
  \/ GatherStart \/ GatherStep \/ GatherComponent \/ GatherEnd
  \/ WitnessStart \/ WitnessTry \/ WitnessStep \/ WitnessEnd
  \/ Layer \/ ScheduleEnd

GraphSpec == GraphInit /\ [][GraphNext]_graphVars

-----------------------------------------------------------------------------
(* Properties.                                                             *)


Analysed == phase = "done" /\ error = "none" /\ (request.task = "analyze" \/ request.dag)

Vertices == NodeIds(document)

(* The nodes each node leads to along the edges of the document: those in  *)
(* every set that has what n is joined to and what its own members are.    *)
Reach ==
  LET succ == Adjacency(document)
      closed == {S \in SUBSET Vertices : \A m \in S : succ[m] \subseteq S}
  IN  [n \in Vertices |-> {m \in Vertices : \A S \in closed : succ[n] \subseteq S => m \in S}]

(* Two searches that keep their own stacks find exactly the classes of     *)
(* nodes that reach each other, whatever the order of the neighbours.      *)
ComponentsAreClasses ==
  Analysed =>
    LET reach == Reach IN
    components = {{m \in Vertices : m = n \/ (m \in reach[n] /\ n \in reach[m])} : n \in Vertices}

(* A walk along the edges inside c.                                        *)
IsWalk(w, c) == Range(w) \subseteq c /\ \A i \in 1 .. Len(w) - 1 : w[i + 1] \in adjacency[w[i]]

(* Every component with a cycle, and no other, has one witness: a closed   *)
(* walk along its edges that starts at its least node, takes the least     *)
(* neighbour and comes back by as few edges as there can be.               *)
WitnessesAreShortest ==
  Analysed =>
    LET reach == Reach IN
    /\ \A n \in Vertices :
         n \in reach[n] <=> \E c \in components, w \in witnesses : n \in c /\ Range(w) \subseteq c
    /\ \A v, w \in witnesses : v[1] = w[1] => v = w
    /\ \A w \in witnesses : \E c \in components :
         /\ IsWalk(w, c) /\ Len(w) > 1 /\ w[1] = Least(c) /\ Last(w) = Least(c)
         /\ w[2] = Least(adjacency[w[1]] \cap c)
         /\ \A k \in 1 .. Len(w) - 2 : \A v \in [1 .. k -> c] :
              v[1] = w[2] /\ v[k] = w[1] => ~IsWalk(v, c)

(* A graph without a cycle is scheduled whole: every node once, after all  *)
(* that lead to it, in the earliest layer that allows it.                  *)
ScheduleIsTopological ==
  (Analysed /\ witnesses = {}) =>
    /\ Len(order) = Cardinality(Vertices) /\ Range(order) = Vertices
    /\ UNION Range(layers) = Vertices
    /\ \A i, j \in DOMAIN layers : \A m \in layers[i], n \in layers[j] :
         i < j \/ (i = j /\ m < n) =>
           \E k, l \in DOMAIN order : k < l /\ order[k] = m /\ order[l] = n
    /\ \A i \in DOMAIN layers : \A n \in layers[i] :
         /\ \A m \in reverse[n] : \E j \in 1 .. i - 1 : m \in layers[j]
         /\ i > 1 => reverse[n] \cap layers[i - 1] # {}

(* Validation that requires a DAG says valid exactly for the documents     *)
(* that break no rule of their own and can be scheduled: an analysis that  *)
(* fails must not pass for one that found nothing.                         *)
ValidDagIsSchedulable ==
  (phase = "done" /\ request.task = "validate" /\ request.dag) =>
    (diagnostics = {} <=> /\ Diagnose(document, request) = {}
                          /\ \A e \in Edges(document) : e.directed
                          /\ \A n \in Vertices : n \notin Reach[n])

(* An analysis carries the proof of its verdict: a shortest closed walk    *)
(* for each cyclic component, or a schedule of the whole graph in layers;  *)
(* and validation accepts what can be scheduled.                           *)
VerdictIsProved == WitnessesAreShortest /\ ScheduleIsTopological /\ ValidDagIsSchedulable
=============================================================================
