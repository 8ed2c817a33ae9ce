--------------------------- MODULE MCMaterialization ---------------------------
(* Small instances of Materialization.  Two byte strings, one of them within *)
(* the inline threshold, and hand-made records: a lawful external one whose  *)
(* bytes nobody stored, and three that contradict themselves.                *)
EXTENDS Materialization

CONSTANTS short, long

MCLength == [c \in Contents |-> IF c = short THEN 1 ELSE 2]

Lawful == Record("extracted", long, "external", 1, FALSE)

MCForeign ==
  {Lawful,
   [Lawful EXCEPT !.held = short],
   [Lawful EXCEPT !.unsafe = TRUE],
   [Lawful EXCEPT !.id = short]}

MCOccupied == {<<short, FALSE, 0>>}
=============================================================================
