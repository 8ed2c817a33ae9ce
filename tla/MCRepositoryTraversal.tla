------------------------ MODULE MCRepositoryTraversal ------------------------
(* A small tree: two files, one of which the rules name, a directory that  *)
(* may be a repository of its own, a link, and the tree target with the    *)
(* directory of external artifacts in it. The file is called dir.x: it is  *)
(* visited after dir/below, and sorted before it; once it was inspected it *)
(* may turn into a link or a device.                                       *)
EXTENDS RepositoryTraversal

CONSTANTS top, file, rule, dir, git, below, link, target, out

MCPaths == {file, rule, dir, git, below, link, target, out}
MCParent == [p \in MCPaths |-> CASE p \in {git, below} -> dir [] p = out -> target [] OTHER -> top]
MCAncestors == [p \in MCPaths |-> IF MCParent[p] = top THEN {} ELSE {MCParent[p]}]
MCRank == [p \in MCPaths \cup {top} |->
  CASE p = top -> 0 [] p = dir -> 1 [] p = file -> 2 [] p = git -> 3 [] p = below -> 4
    [] p = link -> 5 [] p = rule -> 6 [] p = target -> 7 [] OTHER -> 8]

File(n) == [kind |-> "file", size |-> n, inside |-> TRUE, target |-> None]
Dir(in) == [kind |-> "dir", size |-> 0, inside |-> in, target |-> None]
Link(q) == [kind |-> "link", size |-> 0, inside |-> TRUE, target |-> q]
Special == [kind |-> "special", size |-> 0, inside |-> TRUE, target |-> None]

MCPossible == [p \in MCPaths |->
  CASE p = file -> {File(1), File(2), Link(below), Link(Outside), Special}
    [] p = below -> {File(1), Absent}
    [] p = dir -> {Dir(TRUE), Dir(FALSE)}
    [] p = git -> {Absent, Dir(TRUE)}
    [] p = link -> {Link(below), Link(Outside), Link(top), Special}
    [] p = rule -> {File(1)}
    [] OTHER -> {Dir(TRUE)}]

MCTrees == {[p \in MCPaths |-> CASE p = file -> f [] p = below -> b [] p = dir -> d [] p = git -> g
                              [] p = link -> l [] p = rule -> File(1) [] OTHER -> Dir(TRUE)] :
              f \in {File(1), File(2)}, b \in MCPossible[below], d \in MCPossible[dir],
              g \in MCPossible[git], l \in MCPossible[link]}

MCAnswers == [p \in MCPaths |->
  IF p = below THEN Envelopes ELSE {[outcome |-> "complete", diagnosed |-> FALSE]}]

Options(h, i, f, s, n, d) ==
  [honor |-> h, ignored |-> i, follow |-> f, submodules |-> s, files |-> n, depth |-> d]
MCOptionSets == {Options(TRUE, FALSE, FALSE, FALSE, 3, 2),
                 Options(TRUE, TRUE, TRUE, TRUE, 2, 2),
                 Options(FALSE, FALSE, TRUE, TRUE, 1, 1),
                 Options(TRUE, FALSE, TRUE, FALSE, 3, 0)}
=============================================================================
