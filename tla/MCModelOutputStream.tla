------------------------ MODULE MCModelOutputStream ------------------------
(* Chunks cut inside a scalar, candidates found in a prefix and at the     *)
(* end, lost, reordered and repeated, and every axis limited so low that   *)
(* some call exhausts it.                                                  *)
EXTENDS ModelOutputStream

MCChunks ==
  {<<>>, <<"blank">>, <<"text">>, <<"closer">>, <<"head">>,
   <<"tail", "tail">>, <<"tail", "tail", "text">>, <<"head", "tail">>, <<"tail", "closer">>}

MCStable == {<<>>, <<1>>, <<2, 1>>, <<2, 2>>}

MCFinal == {<<>>, <<1>>, <<1, 2>>, <<2, 2>>, <<1, 2, 1>>}

MCLimit ==
  [a \in Axes |->
     CASE a = "input_bytes" -> 5
       [] a = "decoded_characters" -> 3
       [] a = "memory_bytes" -> Peak(4)
       [] a = "records" -> 2
       [] a = "nodes" -> 4
       [] a = "output_bytes" -> 12]
=============================================================================
