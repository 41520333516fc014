------------------------------- MODULE MstDiff -------------------------------
(***************************************************************************)
(* The difference of two Merkle search trees, by two walkers that advance  *)
(* side by side (packages/repo/src/mst/diff.ts, mst/walker.ts) and note in *)
(* a DataDiff (packages/repo/src/data-diff.ts) which records and which     *)
(* blocks came and went.                                                   *)
(*                                                                         *)
(* The walkers skip what both trees share, which takes them to know the    *)
(* layer they are on.  The code reads the layer hint of a node in memory,  *)
(* or 0 when it has none; whether it has one depends on the calls made     *)
(* before, so the model lets it be there or not, at every step.            *)
(***************************************************************************)
EXTENDS Mst, DataDiff, FiniteSets

VARIABLES
    left,   \* leftWalker, over the previous tree
    right   \* rightWalker, over the current tree

diffVars == <<left, right, diff>>

-----------------------------------------------------------------------------
(* Walkers *)

\* A walker is at the root, in the node of the last of its frames, or done.
\* A frame is a node and the index of the entry the walk is at.
Walker(root) == [at |-> "root", root |-> root, frames |-> <<>>]
Done(w) == w.at = "done"

Top(w) == Last(w.frames)
Curr(w) == IF w.at = "root" THEN w.root ELSE Top(w).node.entries[Top(w).index]
AtTree(w) == ~Done(w) /\ IsTree(Curr(w))
AtLeaf(w) == ~Done(w) /\ ~IsTree(Curr(w))

\* layer: of the node that is walked; the root counts as inside a node above it
LayersOf(w) ==
    CASE w.at = "root" -> {1, GetLayer(w.root) + 1}
      [] w.at = "in" -> {0, GetLayer(Top(w).node)}
      [] Done(w) -> {}

Finished(w) == [w EXCEPT !.at = "done", !.frames = <<>>]

\* stepOver: the next entry of this node, or of the closest one above it
StepOver(w) ==
    LET more == {i \in DOMAIN w.frames :
                    w.frames[i].index < Len(w.frames[i].node.entries)}
        i == CHOOSE j \in more : \A k \in more : k <= j
    IN  IF more = {} THEN Finished(w)
        ELSE [w EXCEPT !.frames = Append(SubSeq(@, 1, i - 1),
                 [node |-> @[i].node, index |-> @[i].index + 1])]

\* stepInto: only a root may be empty
StepInto(w) ==
    IF Curr(w).entries = <<>> THEN Finished(w)
    ELSE [w EXCEPT !.at = "in",
                   !.frames = Append(@, [node |-> Curr(w), index |-> 1])]

Advance(w) == IF AtTree(w) THEN StepInto(w) ELSE StepOver(w)

-----------------------------------------------------------------------------
(* DataDiff *)

NodeAdd(d, e) == IF IsTree(e) THEN TreeAdd(d, Pointer(e)) ELSE LeafAdd(d, e)

NodeDelete(d, e) == IF IsTree(e) THEN TreeDelete(d, Pointer(e)) ELSE LeafGone(d, e)

-----------------------------------------------------------------------------
(* mstDiff: one action per branch of its loop *)

Begin(prev, curr) ==
    left' = Walker(prev) /\ right' = Walker(curr) /\ diff' = EmptyDiff

AddRest ==
    /\ Done(left) /\ ~Done(right)
    /\ diff' = NodeAdd(diff, Curr(right))
    /\ right' = Advance(right) /\ UNCHANGED left

DeleteRest ==
    /\ ~Done(left) /\ Done(right)
    /\ diff' = NodeDelete(diff, Curr(left))
    /\ left' = Advance(left) /\ UNCHANGED right

SameKey ==
    /\ AtLeaf(left) /\ AtLeaf(right)
    /\ Curr(left).key = Curr(right).key
    /\ diff' = IF Curr(left).val = Curr(right).val THEN diff
               ELSE LeafUpdate(diff, Curr(left), Curr(right))
    /\ left' = Advance(left) /\ right' = Advance(right)

KeyGone ==
    /\ AtLeaf(left) /\ AtLeaf(right)
    /\ Curr(left).key < Curr(right).key
    /\ diff' = LeafDelete(diff, Curr(left))
    /\ left' = Advance(left) /\ UNCHANGED right

\* Mutant: the left walker advances along
KeyCameBoth ==
    /\ AtLeaf(left) /\ AtLeaf(right)
    /\ Curr(left).key > Curr(right).key
    /\ diff' = LeafAdd(diff, Curr(right))
    /\ left' = Advance(left) /\ right' = Advance(right)

KeyCame ==
    /\ AtLeaf(left) /\ AtLeaf(right)
    /\ Curr(left).key > Curr(right).key
    /\ diff' = LeafAdd(diff, Curr(right))
    /\ right' = Advance(right) /\ UNCHANGED left

\* One walker is at a tree at least; each is on a layer
AtTrees == ~Done(left) /\ ~Done(right) /\ (AtTree(left) \/ AtTree(right))

EnterLeft ==
    /\ diff' = NodeDelete(diff, Curr(left))
    /\ left' = StepInto(left) /\ UNCHANGED right

EnterRight ==
    /\ diff' = NodeAdd(diff, Curr(right))
    /\ right' = StepInto(right) /\ UNCHANGED left

\* The walkers may read layers that compare like this
MayRead(Compares(_, _)) ==
    {p \in LayersOf(left) \X LayersOf(right) : Compares(p[1], p[2])} # {}

SameLayer == MayRead(LAMBDA l, r : l = r)

LeftHigher ==
    /\ AtTrees /\ MayRead(LAMBDA l, r : l > r)
    /\ IF AtLeaf(left) THEN EnterRight ELSE EnterLeft

RightHigher ==
    /\ AtTrees /\ MayRead(LAMBDA l, r : l < r)
    /\ IF AtLeaf(right) THEN EnterLeft ELSE EnterRight

SameTree ==
    /\ AtTree(left) /\ AtTree(right) /\ SameLayer
    /\ Pointer(Curr(left)) = Pointer(Curr(right))
    /\ left' = StepOver(left) /\ right' = StepOver(right) /\ UNCHANGED diff

OtherTree ==
    /\ AtTree(left) /\ AtTree(right) /\ SameLayer
    /\ Pointer(Curr(left)) # Pointer(Curr(right))
    /\ diff' = NodeDelete(NodeAdd(diff, Curr(right)), Curr(left))
    /\ left' = StepInto(left) /\ right' = StepInto(right)

TreeAndLeaf ==
    /\ AtTrees /\ SameLayer
    /\ \/ AtLeaf(left) /\ EnterRight
       \/ AtLeaf(right) /\ EnterLeft

DiffStep ==
    \/ AddRest \/ DeleteRest
    \/ SameKey \/ KeyGone \/ KeyCame
    \/ LeftHigher \/ RightHigher
    \/ SameTree \/ OtherTree \/ TreeAndLeaf

=============================================================================
