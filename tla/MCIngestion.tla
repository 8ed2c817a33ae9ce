---------------------------- MODULE MCIngestion ----------------------------
(* Small instances of Ingestion.  Requests are numbered from 1; one batch  *)
(* is empty and one repeats an id.  Every axis but decoded characters is   *)
(* limited so low that either of two requests can exhaust it.              *)
EXTENDS Ingestion

MCBatches == {<<>>, <<2, 1>>, <<1, 1>>}

MCLimit ==
  [a \in {"input_bytes", "memory_bytes", "nesting_depth", "nodes", "output_bytes"} |->
     CASE a = "input_bytes" -> 3
       [] a = "memory_bytes" -> 2
       [] a = "nesting_depth" -> 0
       [] a = "nodes" -> 1
       [] a = "output_bytes" -> 3]
=============================================================================
