------------------------- MODULE MCOperationCache -------------------------
(* Two callers; requests that differ in options, in the order of providers *)
(* only, and in the type they ask the same result as.                      *)
EXTENDS OperationCache

CONSTANTS a, b

MCRequests ==
  {[input |-> 1, options |-> 1, providers |-> <<1, 2>>, type |-> "report"],
   [input |-> 1, options |-> 2, providers |-> <<2, 1, 2>>, type |-> "report"],
   [input |-> 1, options |-> 1, providers |-> <<2, 1>>, type |-> "summary"]}

Symmetry == Permutations(Callers)
============================================================================
