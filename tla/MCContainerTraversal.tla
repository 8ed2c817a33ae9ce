------------------------ MODULE MCContainerTraversal ------------------------
(* Small instances of ContainerTraversal.  A decoder returns one or two    *)
(* members of any kinds; a container nested in itself is cut off at depth  *)
(* 2, and every other axis is limited so low that a tree of four members   *)
(* can exhaust it.                                                         *)
EXTENDS ContainerTraversal

M(path, kind, bytes) == [path |-> path, kind |-> kind, bytes |-> bytes]

MCDecodings ==
  {<<>>,
   <<M("a", "leaf", 1)>>,
   <<M("a", "nested", 1)>>,
   <<M("a", "leaf", 2), M("b", "bad_locator", 0)>>,
   <<M("a", "nested", 1), M("b", "leaf", 2)>>,
   <<M("a", "unavailable", 0), M("b", "nested", 2)>>,
   <<M("a", "nested", 1), M("b", "bad_metadata", 1)>>,
   <<M("unsafe", "leaf", 2), M("b", "no_code", 0)>>,
   <<M("a", "leaf", 1), M("a", "leaf", 2)>>}

(* Members whose loss or cancellation happens at some depth.               *)
MCNestings == {<<M("a", "leaf", 1), M("b", "nested", 0)>>, <<M("a", "leaf", 1)>>,
               <<M("a", "leaf", 1), M("b", "bad_locator", 0)>>}

MCLimit ==
  [a \in {"input_bytes", "archive_members", "child_artifacts", "output_bytes",
          "nesting_depth", "archive_expansion_ratio", "memory_bytes"} |->
     CASE a = "input_bytes" -> 3
       [] a = "archive_members" -> 2
       [] a = "child_artifacts" -> 3
       [] a = "output_bytes" -> 2
       [] a = "nesting_depth" -> 2
       [] a = "archive_expansion_ratio" -> 2
       [] a = "memory_bytes" -> 2]
=============================================================================
