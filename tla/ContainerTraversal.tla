------------------------- MODULE ContainerTraversal -------------------------
(***************************************************************************)
(* ContainerRecursor (src/container/recursion.rs): the traversal of a      *)
(* container, of the containers nested in it and of their members, under   *)
(* one budget tree and one cancellation token.  The recursion of           *)
(* decode_container and process_member is a stack of frames.               *)
(*                                                                         *)
(* Decoders are foreign code.  What one returns is a sequence of members   *)
(* in the canonical order into which the controller sorts it.  A leaf is   *)
(* handed to the ingestor, of which only the control is kept here: it      *)
(* passes a checkpoint and charges its input.  A step reaches from one     *)
(* checkpoint to the next.                                                 *)
(***************************************************************************)
EXTENDS Integers, SequencesExt

CONSTANTS
  Decodings,    \* member sequences a decoder may return
  Classes,      \* container classes; see ArchiveClasses
  RootSizes,    \* byte lengths of the root container
  Declared,     \* sizes and numbers of members a decoder may ask room for
  Limit,        \* inclusive limit of each limited budget axis
  LargestRatio  \* stands for the maximum finite ratio

(* A member as the recursion sees it, with a path unless it is "unsafe".   *)
Members == [path : STRING, bytes : Nat,
            kind : {"leaf", "nested", "unavailable", "bad_locator", "no_code", "bad_metadata"}]

SumAxes == {"input_bytes", "archive_members", "child_artifacts", "output_bytes"}
PeakAxes == {"nesting_depth", "archive_expansion_ratio", "memory_bytes"}
Axes == SumAxes \cup PeakAxes

ASSUME ContainerTraversalAssumption ==
  /\ DOMAIN Limit \subseteq Axes /\ \A a \in DOMAIN Limit : Limit[a] \in Nat
  /\ RootSizes \subseteq Nat /\ Declared \subseteq Nat
  /\ LargestRatio \in Nat
  /\ \A members \in Decodings : members \in Seq(Members)

VARIABLES
  rootBytes, \* length of the root container
  mode,      \* artifact mode, with or without a sink
  parseLeaves, \* parse_leaf_payloads
  cancelled, \* the cancellation flag
  late,      \* the parse-time axis is exhausted
  usage,     \* the budget tree
  expanded,  \* expanded_bytes
  stack,     \* the frames of decode_container, innermost last
  phase,     \* what the innermost call does next
  result,    \* the traversal handed to the caller
  (* History only: nothing below is read by an action.                     *)
  discovered, \* members decoders have returned
  admitted    \* members and bytes whose charges were all accepted

request == <<rootBytes, mode, parseLeaves>>
vars == <<request, cancelled, late, usage, expanded, stack, phase, result,
          discovered, admitted>>

ArchiveClasses == {"archive", "package"}
Modes == {"inventory_only", "inline_payload", "content_addressed", "no_sink"}

(* The child statuses that lose nothing.                                  *)
Lossless == {"parsed", "inventory_only"}

None == "none"

Available(m) == m.kind \in {"leaf", "nested", "bad_metadata"}

(* A child with what child_has_loss computes of it.                        *)
Child(status, axis, children) ==
  [status |-> status, axis |-> axis, children |-> children, envelope |-> None,
   loss |-> status \notin Lossless \/ \E i \in 1..Len(children) : children[i].loss]

(* A leaf with the status of the envelope it was parsed into.              *)
Leaf(envelope, axis) ==
  [Child(IF envelope \in {"complete", "partial"} THEN "parsed" ELSE envelope,
         axis, <<>>) EXCEPT !.envelope = envelope]

Audit(before, after, hit, children) ==
  [before |-> before, after |-> after, hit |-> hit, children |-> children]

Frame(depth) ==
  [depth |-> depth, class |-> None, todo |-> <<>>, children |-> <<>>,
   allocations |-> <<>>, before |-> usage]

Top == stack[Len(stack)]
Outer == SubSeq(stack, 1, Len(stack) - 1)

NoResult == [status |-> None, children |-> <<>>, root |-> Audit(0, 0, None, <<>>)]

(* The first budget axis named by the diagnostics of a child or, in order, *)
(* of its descendants.                                                     *)
FirstAxis(children) ==
  LET hits == {i \in 1..Len(children) : children[i].axis # None}
  IN  IF hits = {} THEN None
      ELSE children[CHOOSE i \in hits : \A j \in hits : i <= j].axis

-----------------------------------------------------------------------------
(* Charging the budget tree.                                               *)

Used(u, a, n) ==
  [u EXCEPT ![a] = IF a \in SumAxes THEN @ + n ELSE IF n > @ THEN n ELSE @]

Within(u, a) == a \in DOMAIN Limit => u[a] <= Limit[a]

(* The usage after each of a sequence of charges.                          *)
Tally(charges) ==
  LET tally[k \in 0..Len(charges)] ==
        IF k = 0 THEN usage ELSE Used(tally[k - 1], charges[k][1], charges[k][2])
  IN  tally

(* A sequence of charges up to the first refusal: the usage it leaves, the *)
(* axis that refused, and how many charges were made.                      *)
Spend(charges) ==
  LET tally == Tally(charges)
      refused == {k \in 1..Len(charges) : ~ Within(tally[k], charges[k][1])}
      last == IF refused = {} THEN Len(charges)
              ELSE CHOOSE k \in refused : \A j \in refused : k <= j
  IN  [usage |-> tally[last], made |-> last,
       axis |-> IF refused = {} THEN None ELSE charges[last][1]]

Stopped == cancelled \/ late

(* The status and the axis of a member stopped by a checkpoint.            *)
StoppedStatus == IF cancelled THEN "cancelled" ELSE "budget_limited"

StoppedAxis == IF cancelled THEN None ELSE "parse_millis"

(* Ratios are compared with whole limits, hence rounded up.                *)
Ratio(bytes) ==
  IF rootBytes = 0
  THEN IF bytes = 0 THEN 0 ELSE LargestRatio
  ELSE (bytes + rootBytes - 1) \div rootBytes

-----------------------------------------------------------------------------
Unused == [a \in Axes |-> 0]

Init ==
  /\ rootBytes \in RootSizes
  /\ mode \in Modes /\ parseLeaves \in BOOLEAN
  /\ cancelled = FALSE /\ late = FALSE
  /\ usage = Unused /\ expanded = 0
  /\ stack = <<>> /\ phase = "submitted" /\ result = NoResult
  /\ discovered = 0 /\ admitted = [archive |-> 0, artifacts |-> 0, bytes |-> 0]

Cancel ==
  /\ ~ cancelled /\ cancelled' = TRUE
  /\ UNCHANGED <<request, late, usage, expanded, stack, phase, result, discovered, admitted>>

Deadline ==
  /\ ~ late /\ late' = TRUE
  /\ UNCHANGED <<request, cancelled, usage, expanded, stack, phase, result,
                 discovered, admitted>>

Result(status, children, hit, allocations) ==
  [status |-> status, children |-> children,
   root |-> Audit(Unused, usage', hit, allocations)]

Refuse ==
  /\ phase = "submitted" /\ mode = "no_sink"
  /\ phase' = "refused"
  /\ UNCHANGED <<request, cancelled, late, usage, expanded, stack, result,
                 discovered, admitted>>

(* The root passes a checkpoint and pays for itself, or nothing starts.    *)
Begin ==
  /\ phase = "submitted" /\ mode # "no_sink"
  /\ LET s == Spend(<<<<"nesting_depth", 0>>, <<"memory_bytes", rootBytes>>,
                      <<"input_bytes", rootBytes>>>>)
         axis == IF Stopped THEN StoppedAxis ELSE s.axis
     IN  /\ usage' = IF Stopped THEN usage ELSE s.usage
         /\ IF Stopped \/ s.axis # None
            THEN /\ result' = Result(IF cancelled THEN "cancelled" ELSE "failed",
                                     <<>>, axis, <<>>)
                 /\ phase' = "done" /\ UNCHANGED stack
            ELSE stack' = <<Frame(0)>> /\ phase' = "decode" /\ UNCHANGED result
  /\ UNCHANGED <<request, cancelled, late, expanded, discovered, admitted>>

-----------------------------------------------------------------------------
(* The end of a member and the end of a frame.                             *)

(* Fault: the usage after a member is taken before its subtree is walked.  *)
ClosedEarly(f, child, allocations, after) ==
  [f EXCEPT !.todo = Tail(@), !.children = Append(@, child),
            !.allocations = Append(@, Audit(f.before, f.before, child.axis, allocations))]

(* Frame f with its current member closed.                                 *)
Closed(f, child, allocations, after) ==
  [f EXCEPT !.todo = Tail(@), !.children = Append(@, child),
            !.allocations = Append(@, Audit(f.before, after, child.axis, allocations))]

(* Fault: only the children themselves are looked at.                      *)
TraversalStatusShallow(children) ==
  IF \E i \in 1..Len(children) : children[i].status = "cancelled" THEN "cancelled"
  ELSE IF \E i \in 1..Len(children) : children[i].status \notin Lossless THEN "partial"
  ELSE "complete"

(* traversal_status of a root that was decoded.                            *)
TraversalStatus(children) ==
  IF \E i \in 1..Len(children) : children[i].status = "cancelled" THEN "cancelled"
  ELSE IF \E i \in 1..Len(children) : children[i].loss THEN "partial"
  ELSE "complete"

(* decode_container returns an error: what its frame holds is dropped and  *)
(* the container is a childless child of its parent, or a failed root.     *)
FrameFails(status, axis) ==
  IF Len(stack) = 1
  THEN /\ result' = Result(IF status = "budget_limited" THEN "failed" ELSE status,
                           <<>>, axis, <<>>)
       /\ stack' = <<>> /\ phase' = "output"
  ELSE /\ stack' = [Outer EXCEPT ![Len(stack) - 1] =
                      Closed(@, Child(status, axis, <<>>), <<>>, usage')]
       /\ phase' = "members" /\ UNCHANGED result

FinishFrame ==
  /\ UNCHANGED <<request, cancelled, late, usage, expanded, discovered, admitted>>
  /\ phase = "members" /\ Top.todo = <<>>
  /\ IF Len(stack) = 1
     THEN /\ result' = Result(TraversalStatus(Top.children), Top.children, None,
                              Top.allocations)
          /\ stack' = <<>> /\ phase' = "output"
     ELSE /\ stack' = [Outer EXCEPT ![Len(stack) - 1] =
                         Closed(@, Child("parsed", FirstAxis(Top.children), Top.children),
                                Top.allocations, usage')]
          /\ UNCHANGED <<phase, result>>

(* The traversal itself is output; being refused makes it partial.         *)
ChargeOutput ==
  /\ phase = "output"
  /\ LET s == Spend(<<<<"output_bytes", 1>>>>)
     IN  /\ usage' = s.usage
         /\ result' = [result EXCEPT
              !.status = IF s.axis # None /\ @ = "complete" THEN "partial" ELSE @,
              !.root.hit = IF s.axis # None THEN s.axis ELSE @,
              !.root.after = s.usage]
  /\ phase' = "done"
  /\ UNCHANGED <<request, cancelled, late, expanded, stack, discovered, admitted>>

-----------------------------------------------------------------------------
(* Decoding a container.                                                   *)

(* There is no decoder, or it stops at a checkpoint, gives up or panics.   *)
DecodeFails ==
  /\ UNCHANGED <<request, cancelled, late, usage, expanded, discovered, admitted>>
  /\ phase = "decode"
  /\ \/ Stopped /\ FrameFails(StoppedStatus, StoppedAxis)
     \/ \E status \in {"unsupported", "encrypted", "failed"} : FrameFails(status, None)

(* check_member_capacity.                                                  *)
CheckCapacity ==
  /\ phase = "decode" /\ ~ Stopped
  /\ \E n \in Declared :
       LET s == Spend(<<<<"memory_bytes", n>>>>)
       IN  /\ usage' = s.usage
           /\ IF s.axis # None THEN FrameFails("budget_limited", s.axis)
              ELSE UNCHANGED <<stack, phase, result>>
  /\ UNCHANGED <<request, cancelled, late, expanded, discovered, admitted>>

(* check_archive_preflight of n members which expand a single byte to n:   *)
(* members are counted without being charged.                              *)
CheckPreflight ==
  /\ phase = "decode" /\ ~ Stopped
  /\ \E n \in Declared :
       LET s == Spend(<<<<"archive_expansion_ratio", n>>, <<"memory_bytes", n>>>>)
           counted == Within(Used(usage, "archive_members", n), "archive_members")
           axis == IF counted THEN s.axis ELSE "archive_members"
       IN  /\ usage' = IF counted THEN s.usage ELSE usage
           /\ IF axis # None THEN FrameFails("budget_limited", axis)
              ELSE UNCHANGED <<stack, phase, result>>
  /\ UNCHANGED <<request, cancelled, late, expanded, discovered, admitted>>

(* archive_rejections: unsafe members and, among the others, all that      *)
(* share a normalised path.                                                *)
Rejected(class, members, i) ==
  /\ class \in ArchiveClasses
  /\ \/ members[i].path = "unsafe"
     \/ \E j \in 1..Len(members) \ {i} : members[j].path = members[i].path

DecodeSucceeds ==
  /\ phase = "decode"
  /\ \E class \in Classes, members \in Decodings :
       /\ stack' = [stack EXCEPT ![Len(stack)] = [@ EXCEPT
            !.class = class,
            !.todo = [i \in 1..Len(members) |->
                       [member |-> members[i], rejected |-> Rejected(class, members, i)]]]]
       /\ discovered' = discovered + Len(members)
  /\ phase' = "members"
  /\ UNCHANGED <<request, cancelled, late, usage, expanded, result, admitted>>

-----------------------------------------------------------------------------
(* Members.                                                                *)

(* Fault: each member is measured alone against the root.                  *)
ExpandedAlone(m) == m.bytes

(* Bytes expanded so far, member m included.                               *)
Expanded(m) == expanded + m.bytes

(* What every member of f pays, and what an available one pays more.       *)
InventoryCharges(f) ==
  <<<<"nesting_depth", f.depth + 1>>>>
  \o (IF f.class \in ArchiveClasses THEN <<<<"archive_members", 1>>>> ELSE <<>>)
  \o <<<<"child_artifacts", 1>>>>

ExpansionCharges(m) ==
  <<<<"archive_expansion_ratio", Ratio(Expanded(m))>>, <<"memory_bytes", m.bytes>>>>

Expands(entry) == ~ entry.rejected /\ Available(entry.member)

(* charge_member.                                                          *)
MemberSpend(f, entry) ==
  Spend(InventoryCharges(f)
        \o IF Expands(entry) THEN ExpansionCharges(entry.member) ELSE <<>>)

(* The current member of the innermost frame becomes child.                *)
CloseMember(f, child) ==
  /\ stack' = [stack EXCEPT ![Len(stack)] = Closed(f, child, <<>>, usage')]
  /\ phase' = "members" /\ UNCHANGED result

EntryNext == phase = "members" /\ Top.todo # <<>>

(* The locator does not resolve: the members before it are lost as well.   *)
BadLocator ==
  /\ UNCHANGED <<request, cancelled, late, usage, expanded, discovered, admitted>>
  /\ EntryNext /\ Head(Top.todo).member.kind = "bad_locator"
  /\ FrameFails("failed", None)

(* A member that is stopped, or one of whose charges is refused, is        *)
(* recorded, unless its declared name or media type is not valid in an     *)
(* artifact's record: then the container fails and the reason is lost.     *)
CloseUnspent(child) ==
  IF Head(Top.todo).member.kind = "bad_metadata" THEN FrameFails("failed", None)
  ELSE CloseMember([Top EXCEPT !.before = usage], child)

(* The member is stopped by its checkpoint.                                *)
MemberStopped ==
  /\ UNCHANGED <<request, cancelled, late, usage, expanded, discovered, admitted>>
  /\ EntryNext /\ Head(Top.todo).member.kind # "bad_locator"
  /\ Stopped
  /\ CloseUnspent(Child(StoppedStatus, StoppedAxis, <<>>))

(* One of the charges is refused.                                          *)
MemberRefused ==
  /\ EntryNext /\ Head(Top.todo).member.kind # "bad_locator"
  /\ ~ Stopped
  /\ LET entry == Head(Top.todo)
         s == MemberSpend(Top, entry)
     IN  /\ s.axis # None
         /\ usage' = s.usage
         /\ expanded' = IF s.made > Len(InventoryCharges(Top)) THEN Expanded(entry.member)
                        ELSE expanded
         /\ CloseUnspent(Child("budget_limited", s.axis, <<>>))
  /\ UNCHANGED <<request, cancelled, late, discovered, admitted>>

(* The charges are accepted and the member needs no further call.          *)
Recorded(entry) ==
  IF entry.rejected THEN {"rejected"}
  ELSE IF entry.member.kind = "unavailable"
       THEN {"skipped", "encrypted", "unsupported", "rejected", "failed"}
  ELSE (* capturing the artifact may fail *)
       {"failed"} \cup
       (IF entry.member.kind = "nested" THEN {}
        ELSE IF mode = "inventory_only" THEN {"inventory_only"}
        ELSE IF ~ parseLeaves THEN {"skipped"} ELSE {})

(* The record of an admitted member is not valid.                          *)
Unrecordable(entry) ==
  entry.member.kind = "bad_metadata" \/ (entry.member.kind = "no_code" /\ ~ entry.rejected)

(* The charges are accepted and member goes where its kind takes it.       *)
MemberAdmitted ==
  /\ EntryNext /\ Head(Top.todo).member.kind # "bad_locator"
  /\ ~ Stopped
  /\ LET entry == Head(Top.todo)
         m == entry.member
         s == MemberSpend(Top, entry)
         f == [Top EXCEPT !.before = usage]
     IN  /\ s.axis = None
         /\ usage' = s.usage
         /\ expanded' = IF Expands(entry) THEN Expanded(m) ELSE expanded
         /\ admitted' = [archive |-> admitted.archive
                                     + IF f.class \in ArchiveClasses THEN 1 ELSE 0,
                         artifacts |-> admitted.artifacts + 1,
                         bytes |-> admitted.bytes
                                   + IF Expands(entry) THEN m.bytes ELSE 0]
         /\ \/ /\ ~ Unrecordable(entry)
               /\ \E status \in Recorded(entry) : CloseMember(f, Child(status, None, <<>>))
            \/ /\ Unrecordable(entry)
               /\ FrameFails("failed", None)
            \/ /\ m.kind = "nested" /\ ~ entry.rejected
               /\ stack' = Append([stack EXCEPT ![Len(stack)] = f],
                                  Frame(f.depth + 1))
               /\ phase' = "decode" /\ UNCHANGED result
            \/ /\ m.kind = "leaf" /\ ~ entry.rejected
               /\ mode # "inventory_only" /\ parseLeaves
               /\ stack' = [stack EXCEPT ![Len(stack)] = f]
               /\ phase' = "leaf" /\ UNCHANGED result
  /\ UNCHANGED <<request, cancelled, late, discovered>>

Envelopes ==
  IF cancelled THEN {"cancelled"} ELSE IF late THEN {}
  ELSE {"complete", "partial", "unsupported", "encrypted", "failed"}

(* ingest_with_control on a leaf.  A cancellation is lost when the         *)
(* envelope that reports it is refused.                                    *)
IngestLeaf ==
  /\ phase = "leaf"
  /\ LET m == Head(Top.todo).member
         s == Spend(<<<<"input_bytes", m.bytes>>, <<"output_bytes", 1>>>>)
     IN  \/ /\ Stopped /\ UNCHANGED usage
            /\ CloseMember(Top, Leaf(IF cancelled THEN "cancelled" ELSE "failed",
                                     StoppedAxis))
         \/ /\ s.axis # None /\ usage' = s.usage
            /\ CloseMember(Top, Leaf("failed", s.axis))
         \/ /\ s.axis = None /\ usage' = s.usage
            /\ \E envelope \in Envelopes : CloseMember(Top, Leaf(envelope, None))
  /\ UNCHANGED <<request, cancelled, late, expanded, discovered, admitted>>

Work ==
  \/ Refuse \/ Begin \/ DecodeFails \/ CheckCapacity \/ CheckPreflight
  \/ DecodeSucceeds \/ BadLocator \/ MemberStopped \/ MemberRefused \/ MemberAdmitted
  \/ IngestLeaf \/ FinishFrame \/ ChargeOutput

Finished == phase \in {"refused", "done"} /\ UNCHANGED vars

Next == Work \/ Cancel \/ Deadline \/ Finished

Spec == Init /\ [][Next]_vars

-----------------------------------------------------------------------------
(* Properties.                                                             *)

Final == phase = "done"

(* Level k of a forest whose nodes hold their children.  There cannot be   *)
(* more levels than members.                                               *)
Levels(forest) ==
  LET level[k \in 0..discovered] ==
        IF k = 0 THEN forest
        ELSE FlattenSeq([i \in 1..Len(level[k - 1]) |-> level[k - 1][i].children])
  IN  level

Nodes(forest) == LET level == Levels(forest)
                 IN  UNION {{level[k][i] : i \in 1..Len(level[k])} : k \in DOMAIN level}

(* How many children each node has, level by level.                        *)
Shape(forest) == LET level == Levels(forest)
                 IN  [k \in DOMAIN level |->
                       [i \in 1..Len(level[k]) |-> Len(level[k][i].children)]]

CountNodes(forest) ==
  LET level == Levels(forest)
      total[k \in DOMAIN level] ==
        Len(level[k]) + IF k = 0 THEN 0 ELSE total[k - 1]
  IN  total[discovered]

LeqUsage(u, v) == \A a \in Axes : u[a] <= v[a]

(* However a payload is split over members and nested containers, what the *)
(* traversal lets through stays within the limits of the root: one counter *)
(* of members, one of artifacts and one sum of bytes for the whole tree.   *)
(* An empty root has no ratio but the largest.                             *)
AdmittedWithinLimits ==
  /\ "archive_members" \in DOMAIN Limit => admitted.archive <= Limit["archive_members"]
  /\ "child_artifacts" \in DOMAIN Limit => admitted.artifacts <= Limit["child_artifacts"]
  /\ "archive_expansion_ratio" \in DOMAIN Limit =>
       \/ admitted.bytes <= Limit["archive_expansion_ratio"] * rootBytes
       \/ rootBytes = 0 /\ Limit["archive_expansion_ratio"] >= LargestRatio

(* The usage recorded for a node spans that of its whole subtree, and what *)
(* one sibling used is there when the next one starts.                     *)
SpansSubtree(node) ==
  LET kids == node.children
  IN  /\ LeqUsage(node.before, node.after)
      /\ \A i \in 1..Len(kids) :
           /\ LeqUsage(kids[i].after, node.after)
           /\ LeqUsage(IF i = 1 THEN node.before ELSE kids[i - 1].after, kids[i].before)

(* A budget axis named for a node was really exhausted: it is over its     *)
(* limit, or the deadline has passed, or a decoder declared more members   *)
(* than are left.                                                          *)
AxisIsExhausted(node) ==
  \/ node.hit = None
  \/ node.hit = "parse_millis" /\ late
  \/ node.hit = "archive_members" /\ Declared # {}
  \/ node.hit \in DOMAIN Limit /\ ~ Within(result.root.after, node.hit)

(* The audit tree tells the truth about the traversal: it has the shape of *)
(* the tree of children, at every level and in the same order, and what it *)
(* says of the budget is so.                                               *)
AuditIsTrue ==
  Final =>
    /\ Shape(result.root.children) = Shape(result.children)
    /\ \A node \in Nodes(<<result.root>>) : SpansSubtree(node) /\ AxisIsExhausted(node)

(* A complete traversal shows every member any decoder returned, and none  *)
(* of them is lost, at whatever depth.                                     *)
CompleteIsWhole ==
  Final /\ result.status = "complete" =>
    /\ CountNodes(result.children) = discovered
    /\ \A child \in Nodes(result.children) : child.status \in Lossless

(* docs/container-recursion.md: any lossy descendant makes the root        *)
(* partial; a leaf parsed into a partial envelope is one.                  *)
PartialReachesRoot ==
  Final /\ (\E child \in Nodes(result.children) : child.envelope = "partial") =>
    result.status # "complete"
=============================================================================
