------------------------ MODULE StructuralSegmentation ------------------------
(***************************************************************************)
(* Segmentation of a document graph (src/segment/structural.rs): nodes are *)
(* grouped into units that may not be cut, and units are put together into *)
(* segments in canonical order, each with the headings above it and some   *)
(* nodes of the segment before. A node is known by its position; its text  *)
(* by its size, which adds up, as bytes and scalars do and tokens need not.*)
(***************************************************************************)
EXTENDS Integers, Sequences, FiniteSets, SequencesExt

CONSTANTS
  Texts,         \* sequences of [kind, parent, level, size, selected, located, caption]
  SegmentOptions \* [target, maximum, overlap, headings, atomic, boundaries]

ASSUME SegmentationAssumption ==
  /\ \A t \in Texts :
       /\ t \in Seq([kind : STRING, parent : Nat, level : Nat \ {0}, size : Nat,
                     selected : BOOLEAN, located : BOOLEAN, caption : Nat])
       /\ \A i \in DOMAIN t : {t[i].parent, t[i].caption} \subseteq 0 .. Len(t)
  /\ \A o \in SegmentOptions :
       {o.target, o.maximum, o.overlap} \subseteq Nat /\ o.headings \in BOOLEAN

VARIABLES
  text, option,
  stage,   \* "check", "assemble", "segmented", "refused"
  unit,    \* how many units have been dealt with
  overlap, primary, \* units of the draft under way
  drafts   \* finished drafts

segmentVars == <<text, option, stage, unit, overlap, primary, drafts>>

SegmentInit ==
  /\ text \in Texts /\ option \in SegmentOptions
  /\ stage = "check"
  /\ unit = 0
  /\ overlap = <<>> /\ primary = <<>> /\ drafts = <<>>

-----------------------------------------------------------------------------
(* prepare_nodes and build_units.                                          *)

Positions == DOMAIN text

(* The node at i, its parent and so on; the graph is the root's parent, 0. *)
Ascent(i) ==
  LET up[k \in 1 .. Len(text) + 1] ==
        IF k = 1 THEN <<i>>
        ELSE LET path == up[k - 1] IN
             IF Last(path) = 0 THEN path ELSE Append(path, text[Last(path)].parent)
  IN  up[Len(text) + 1]

(* validate_parent_structure; every parent is a node.                      *)
ParentsEnd == \A i \in Positions : Last(Ascent(i)) = 0

Ancestry(i) == Front(Ascent(i))

(* Selected, with a text, and with a place in the source.                  *)
Prepared == {i \in Positions : text[i].selected /\ text[i].size > 0 /\ text[i].located}

Above(i, kind) == {k \in DOMAIN Ancestry(i) : text[Ancestry(i)[k]].kind = kind}

Nearest(i, kind) == Ancestry(i)[CHOOSE k \in Above(i, kind) : \A l \in Above(i, kind) : k <= l]
Outermost(i, kind) == Ancestry(i)[CHOOSE k \in Above(i, kind) : \A l \in Above(i, kind) : k >= l]

(* A figure may have captions and a caption has its figure, by an edge.    *)
HasFigure(i) == text[i].kind = "caption" /\ text[i].caption # 0

AtomicGroup(i) ==
  IF "table" \in option.atomic /\ Above(i, "table") # {} THEN <<"table", Outermost(i, "table")>>
  ELSE IF "code" \in option.atomic /\ Above(i, "code") # {} THEN <<"code", Nearest(i, "code")>>
  ELSE IF "equation" \in option.atomic /\ Above(i, "equation") # {}
    THEN <<"equation", Nearest(i, "equation")>>
  ELSE IF "figure" \in option.atomic /\ HasFigure(i) THEN <<"figure", text[i].caption>>
  ELSE IF "figure" \in option.atomic /\ Above(i, "figure") # {}
    THEN <<"figure", Nearest(i, "figure")>>
  ELSE <<"node", i>>

InOrderOfPosition(S) ==
  [k \in 1 .. Cardinality(S) |-> CHOOSE i \in S : Cardinality({j \in S : j < i}) = k - 1]

(* What s has of S, in the order of s.                                     *)
Keep(s, S) ==
  LET at == InOrderOfPosition({k \in DOMAIN s : s[k] \in S})
  IN  [k \in DOMAIN at |-> s[at[k]]]

(* The nodes of the unit that begins with the node u.                      *)
Members(u) == {i \in Prepared : AtomicGroup(i) = AtomicGroup(u)}

(* A unit stands where its first node does.                                *)
Units == InOrderOfPosition({u \in Prepared : \A i \in Members(u) : u <= i})

PreferredBoundary(u) == \E i \in Members(u) : text[i].kind \in option.boundaries

-----------------------------------------------------------------------------
(* Drafts.                                                                 *)

NodesOf(us) == FlattenSeq([k \in DOMAIN us |-> InOrderOfPosition(Members(us[k]))])

Headings == {i \in Prepared : text[i].kind = "heading"}

(* The headings a node stands under: those among its ancestors, or else    *)
(* the last ones of each level before it.                                  *)
HeadingAncestry(first) ==
  LET parents == Keep(Reverse(Tail(Ancestry(first))), Headings)
      active[i \in 0 .. first - 1] ==
        IF i = 0 THEN <<>>
        ELSE LET before == active[i - 1]
                 kept == IF text[i].level - 1 < Len(before) THEN text[i].level - 1
                         ELSE Len(before)
             IN  IF i \notin Headings THEN before
                 ELSE Append(SubSeq(before, 1, kept), i)
  IN  IF parents # <<>> THEN parents ELSE active[first - 1]

(* draft_pieces: ancestry, overlap and content, in this order.             *)
Pieces(draft) ==
  LET content == NodesOf(draft.overlap) \o NodesOf(draft.primary)
      above == IF option.headings THEN HeadingAncestry(draft.primary[1]) ELSE <<>>
  IN  Keep(above, Positions \ Range(content)) \o content

DraftSize(draft) == FoldLeft(LAMBDA sum, i : sum + text[i].size, 0, Pieces(draft))

Exceeds(size) == size > option.maximum

(* Fault: the requested number is of units.                                *)
OverlapByUnits(draft) ==
  LET all == draft.overlap \o draft.primary IN
  IF option.overlap >= Len(all) THEN all
  ELSE SubSeq(all, Len(all) - option.overlap + 1, Len(all))

(* The shortest tail of units with the requested number of nodes.          *)
ChooseOverlapUnits(draft) ==
  LET all == draft.overlap \o draft.primary
      enough == {k \in DOMAIN all : Len(NodesOf(SubSeq(all, k, Len(all)))) >= option.overlap}
  IN  IF option.overlap = 0 THEN <<>>
      ELSE IF enough = {} THEN all
      ELSE SubSeq(all, CHOOSE k \in enough : \A l \in enough : l <= k, Len(all))

Draft(o, p) == [overlap |-> o, primary |-> p]

(* validate_options and validate_parent_structure.                         *)
Check ==
  /\ stage = "check"
  /\ stage' = IF option.target = 0 \/ option.target > option.maximum \/ ~ParentsEnd
              THEN "refused" ELSE "assemble"
  /\ UNCHANGED <<text, option, unit, overlap, primary, drafts>>

(* Fault: the unit that did not fit is lost when the draft is finished.    *)
AndThisLost(cut, p, u) == IF cut THEN p ELSE Append(p, u)

AndThis(cut, p, u) == Append(p, u)

(* One turn of build_drafts: the unit goes into the draft under way unless *)
(* that would be too large, and may finish the draft it went into.         *)
TakeUnit ==
  LET u == Units[unit + 1]
      cut == primary # <<>> /\ Exceeds(DraftSize(Draft(overlap, Append(primary, u))))
      kept == IF cut THEN Append(drafts, Draft(overlap, primary)) ELSE drafts
      carried == IF cut THEN ChooseOverlapUnits(Draft(overlap, primary)) ELSE overlap
      current == Draft(carried, AndThis(cut, IF cut THEN <<>> ELSE primary, u))
      full == /\ current.primary # <<>> /\ DraftSize(current) >= option.target
              /\ PreferredBoundary(u)
  IN
  /\ stage = "assemble" /\ unit < Len(Units)
  /\ unit' = unit + 1
  /\ IF full
       THEN /\ drafts' = Append(kept, current)
            /\ overlap' = ChooseOverlapUnits(current) /\ primary' = <<>>
       ELSE /\ drafts' = kept
            /\ overlap' = current.overlap /\ primary' = current.primary
  /\ UNCHANGED <<text, option, stage>>

LastDraft ==
  /\ stage = "assemble" /\ unit = Len(Units)
  /\ stage' = "segmented"
  /\ drafts' = IF primary = <<>> THEN drafts ELSE Append(drafts, Draft(overlap, primary))
  /\ UNCHANGED <<text, option, unit, overlap, primary>>

SegmentNext == Check \/ TakeUnit \/ LastDraft

SegmentSpec == SegmentInit /\ [][SegmentNext]_segmentVars

-----------------------------------------------------------------------------
(* Properties.                                                             *)

Segmented == stage = "segmented"

(* Every prepared node is the content of exactly one segment, the units    *)
(* come in canonical order and whole, and no node appears twice in one     *)
(* segment, though it may be heading, overlap and content at once.         *)
SegmentsCoverOnce ==
  Segmented =>
    /\ FlattenSeq([k \in DOMAIN drafts |-> drafts[k].primary]) = Units
    /\ Range(NodesOf(Units)) = Prepared /\ IsInjective(NodesOf(Units))
    /\ \A k \in DOMAIN drafts : IsInjective(Pieces(drafts[k]))

(* A segment ends where it must or should: at the first preferred boundary *)
(* past the target, or because the next unit would have made it too large. *)
(* Only a segment with a single unit of its own is ever too large.         *)
CutsAreNeeded ==
  Segmented =>
    \A k \in DOMAIN drafts :
      LET d == drafts[k]
          Part(l) == Draft(d.overlap, SubSeq(d.primary, 1, l))
          Ends(l) == PreferredBoundary(d.primary[l]) /\ DraftSize(Part(l)) >= option.target
      IN
      /\ DraftSize(d) > option.maximum => Len(d.primary) = 1
      /\ \A l \in 1 .. Len(d.primary) - 1 : ~Ends(l)
      /\ k < Len(drafts) =>
           \/ Ends(Len(d.primary))
           \/ DraftSize(Draft(d.overlap, Append(d.primary, drafts[k + 1].primary[1])))
                > option.maximum

(* What a segment repeats is the end of the one before, whole units with   *)
(* at least as many nodes as were asked for, or all of it, and no more     *)
(* units than that takes.                                                  *)
OverlapIsTheEnd ==
  Segmented =>
    \A k \in DOMAIN drafts :
      LET o == drafts[k].overlap
          before == drafts[k - 1].overlap \o drafts[k - 1].primary
      IN
      IF k = 1 \/ option.overlap = 0 THEN o = <<>>
      ELSE /\ IsSuffix(o, before)
           /\ Len(NodesOf(o)) >= option.overlap \/ o = before
           /\ Len(NodesOf(Tail(o))) < option.overlap

(* Segments are as long, and repeat as little, as the options allow.       *)
SegmentsAreTight == CutsAreNeeded /\ OverlapIsTheEnd
=============================================================================
