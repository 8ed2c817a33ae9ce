------------------------- MODULE MCOperationControl -------------------------
(***************************************************************************)
(* A small instance of OperationControl: two threads, one axis of each kind *)
(* a caller charges directly, the two time axes and the expansion ratio.   *)
(***************************************************************************)
EXTENDS OperationControl, TLC

MCSumAxes == {"output_bytes", "provider_millis"}
MCPeakAxes == {"memory_bytes", "parse_millis", "expansion_ratio"}

(* Output and memory are limited below the counters' maximum, provider     *)
(* time to one millisecond; any tick of the clock exhausts the parse time. *)
MCLimit ==
  "output_bytes" :> 2 @@ "memory_bytes" :> 1 @@ "expansion_ratio" :> 1
  @@ "provider_millis" :> 1 @@ "parse_millis" :> 0
=============================================================================
