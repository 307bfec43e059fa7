------------------------------ MODULE TilingTree ------------------------------
(***************************************************************************)
(* The tiling tree of one workspace (src/layout/tiling_tree): an arena of  *)
(* nodes, the leaves being windows and the others splits, the focus, the   *)
(* fullscreen node, and a subtree that has been detached and will be       *)
(* attached again (a floating container, or one that moves to another      *)
(* workspace).                                                             *)
(*                                                                         *)
(* Every operation takes a tree to a tree.  Shares and their resizes,      *)
(* rectangles, titles, maximized windows and animations are left out; the  *)
(* shape, the layouts and the focus are not.  Of the focus history only    *)
(* the answers are kept: an operation that asks it which of several nodes  *)
(* had the focus last gets any answer that some history would give.  A     *)
(* leaf is identified with its window, and between operations the splits   *)
(* are numbered in tree order; a split that is made takes the least number *)
(* that no split has.                                                      *)
(***************************************************************************)
EXTENDS Integers, Sequences, FiniteSets, SequencesExt, FiniteSetsExt, Functions

CONSTANTS
  Windows,         \* the windows; each is at most once in the tree
  MaxSplits,       \* bound: splits other than the root, between two operations
  MaxSize,         \* bound: nodes but for the root, and the tabbed and fullscreen ones again
  MaxTreeDepth,    \* MAX_TREE_DEPTH
  Layouts,         \* the layouts that commands ask for
  WorkspaceLayout, \* "default", or the layout that wraps a new top level window
  FocusWrapping,   \* "no", "yes" or "force"
  None

ASSUME LayoutsAssumption == Layouts \subseteq {"splith", "splitv", "tabbed", "stacked"}

VARIABLES
  tree,    \* the arena, the focus, the fullscreen node; see Init
  held     \* None, or the detached subtree with its own nodes

vars == <<tree, held>>

Root == 0
Directions == {"left", "right", "up", "down"}
Axis(d) == IF d \in {"left", "right"} THEN "splith" ELSE "splitv"
IsBackwards(d) == d \in {"left", "up"}

-----------------------------------------------------------------------------
(* Sequences *)

First(s, P(_)) == LET i == SelectInSeq(s, P) IN IF i = 0 THEN None ELSE s[i]
Pos(s, x) == SelectInSeq(s, LAMBDA y : y = x)
Without(s, S) == SelectSeq(s, LAMBDA x : x \notin S)
PutAt(s, i, x) == InsertAt(s, Min({i, Len(s) + 1}), x)

-----------------------------------------------------------------------------
(* The arena *)

Live(t) == DOMAIN t.par
IsSplit(t, n) == n \in DOMAIN t.kids
Tiled(t) == Windows \cap Live(t)

\* A node and its ancestors, the root last.
RECURSIVE Path(_, _)
Path(t, n) ==
  IF n \in Live(t) /\ t.par[n] # None THEN <<n>> \o Path(t, t.par[n]) ELSE <<n>>

ContainsNode(t, ancestor, n) == ancestor \in ToSet(Path(t, n))

\* The nodes of the stack, each followed by all that is under it.
DepthFirst(t, n) ==
  LET From[stack \in Seq(Live(t))] ==
        IF stack = <<>> THEN <<>>
        ELSE <<stack[1]>> \o From[(IF IsSplit(t, stack[1]) THEN t.kids[stack[1]] ELSE <<>>)
                                    \o Tail(stack)]
  IN  IF n \in Live(t) THEN From[<<n>>] ELSE <<>>

LeafIdsIn(t, n) == SelectSeq(DepthFirst(t, n), LAMBDA m : m \in Windows)
FirstLeafIn(t, n) == First(DepthFirst(t, n), LAMBDA m : m \in Windows)

NodeDepth(t, n) == Len(Path(t, n)) - 1
SubtreeHeight(t, n) ==
  Max({NodeDepth(t, m) - NodeDepth(t, n) + 1 : m \in ToSet(DepthFirst(t, n))})
CanWrapOneMore(t, n) == NodeDepth(t, n) + SubtreeHeight(t, n) <= MaxTreeDepth + 1
CanWrap(t, n) == NodeDepth(t, n) + SubtreeHeight(t, n) <= MaxTreeDepth
CanWrapRootChildren(t) == SubtreeHeight(t, Root) <= MaxTreeDepth
FitsBelow(t, parent, height) == NodeDepth(t, parent) + height <= MaxTreeDepth
FitsAt(t, n, height) == NodeDepth(t, n) + height <= MaxTreeDepth + 1

\* Forgets a node and all that is recorded of it, except that it has the focus.
RemoveNode(t, n) ==
  [t EXCEPT !.par = Restrict(@, DOMAIN @ \ {n}),
            !.kids = Restrict(@, DOMAIN @ \ {n}),
            !.lay = Restrict(@, DOMAIN @ \ {n}),
            !.full = @ \ {n}]

RemoveChild(t, parent, n) == [t EXCEPT !.kids[parent] = Without(@, {n})]
InsertChildAt(t, parent, n, i) == [t EXCEPT !.kids[parent] = PutAt(@, i, n), !.par[n] = parent]
InsertChild(t, parent, n, after) ==
  LET i == Pos(t.kids[parent], after)
  IN  InsertChildAt(t, parent, n, IF i = 0 THEN Len(t.kids[parent]) + 1 ELSE i + 1)
DetachOnly(t, n) == [RemoveChild(t, t.par[n], n) EXCEPT !.par[n] = None]

FreeIds(t) == (1..MaxSplits + 2) \ Live(t)
Alloc(t, parent, layout, children) ==
  LET id == Min(FreeIds(t))
  IN  [t EXCEPT !.par = [n \in DOMAIN @ \cup {id} |->
                           IF n = id THEN parent
                           ELSE IF n \in ToSet(children) THEN id ELSE @[n]],
                !.kids = [n \in DOMAIN @ \cup {id} |-> IF n = id THEN children ELSE @[n]],
                !.lay = [n \in DOMAIN @ \cup {id} |-> IF n = id THEN layout ELSE @[n]]]

\* Renames the nodes of a tree; both directions of the renaming are given.
Renamed(t, New(_), Old(_)) ==
  [t EXCEPT !.par = [n \in {New(m) : m \in DOMAIN @} |-> New(@[Old(n)])],
            !.kids = [n \in {New(m) : m \in DOMAIN @} |->
                        [i \in DOMAIN @[Old(n)] |-> New(@[Old(n)][i])]],
            !.lay = [n \in {New(m) : m \in DOMAIN @} |-> @[Old(n)]],
            !.full = {New(m) : m \in @}, !.focus = New(@)]
Splits(t, n) == SelectSeq(DepthFirst(t, n), LAMBDA m : m \in DOMAIN t.kids \ {Root})
\* The splits are numbered in tree order from the node n down.
Renumbered(t, n) ==
  LET splits == Splits(t, n)
  IN  IF splits = [i \in DOMAIN splits |-> i] THEN t
      ELSE Renamed(t, LAMBDA m : IF m \in ToSet(splits) THEN Pos(splits, m) ELSE m,
                      LAMBDA m : IF m \in DOMAIN splits THEN splits[m] ELSE m)

-----------------------------------------------------------------------------
(* Focus *)

SetFocusId(t, focus) == [t EXCEPT !.focus = focus]

\* t.recent is the part of the focus history that the operation consults.
FocusedLeafIn(t, n) ==
  LET f == First(t.recent, LAMBDA w : w \in Tiled(t) /\ ContainsNode(t, n, w))
  IN  IF f # None THEN f ELSE FirstLeafIn(t, n)
FocusedChildIn(t, parent) ==
  LET children == IF IsSplit(t, parent) THEN t.kids[parent] ELSE <<>>
      f == FocusedLeafIn(t, parent)
  IN  First(children, LAMBDA c : ContainsNode(t, c, f))

\* What a window that leaves may hand the focus to: under its old parent or,
\* where the history knows of nothing there, anywhere else.
TransferFocusTargets(t, moved) ==
  {None} \cup {n \in Live(t) \ {Root} : ~ContainsNode(t, moved, n)}

\* The target or, where it was reaped, the last view under what survives of it.
ResolveTransferFocus(t, target) ==
  LET survivors == SelectSeq(target, LAMBDA n : n \in Live(t))
  IN  IF survivors = <<>> THEN t
      ELSE IF survivors[1] = target[1] THEN SetFocusId(t, target[1])
      ELSE SetFocusId(t, FocusedLeafIn(t, survivors[1]))

-----------------------------------------------------------------------------
(* Normalisation *)

FullscreenNode(t) == IF t.full = {} THEN None ELSE CHOOSE n \in t.full : TRUE
\* Node n takes over the fullscreen mode of one of the nodes of S.
InheritFullscreen(t, S, n) == [t EXCEPT !.full = IF @ \cap S = {} THEN @ ELSE @ \cup {n}]

SpliceFocusesParent(t, n, child, children) ==
  LET parent == t.par[n]
      i == Pos(t.kids[parent], n)
      moved == [t EXCEPT
        !.kids[parent] = SubSeq(@, 1, i - 1) \o children \o SubSeq(@, i + 1, Len(@)),
        !.par = [m \in DOMAIN @ |-> IF m \in ToSet(children) THEN parent ELSE @[m]]]
      focused == IF t.focus \in {n, child} THEN SetFocusId(moved, parent) ELSE moved
  IN  RemoveNode(RemoveNode(focused, n), child)
\* Puts children in the place of node n, and forgets n and its child.
Splice(t, n, child, children) ==
  LET parent == t.par[n]
      i == Pos(t.kids[parent], n)
      moved == [t EXCEPT
        !.kids[parent] = SubSeq(@, 1, i - 1) \o children \o SubSeq(@, i + 1, Len(@)),
        !.par = [m \in DOMAIN @ |-> IF m \in ToSet(children) THEN parent ELSE @[m]]]
      focused == IF t.focus \in {n, child} THEN SetFocusId(moved, children[1]) ELSE moved
  IN  RemoveNode(RemoveNode(focused, n), child)

ReapWithFocus(t, n) == RemoveChild(RemoveNode(t, n), t.par[n], n)
\* A split that has lost its last child, the focus going to its parent.
Reap(t, n) ==
  LET parent == t.par[n]
      focused == IF t.focus = n THEN SetFocusId(t, parent) ELSE t
  IN  RemoveChild(RemoveNode(focused, n), parent, n)

RECURSIVE ReapEmptyFrom(_, _)
ReapEmptyFrom(t, n) ==
  IF n \in DOMAIN t.kids \ {Root} /\ t.kids[n] = <<>>
  THEN ReapEmptyFrom(Reap(t, n), t.par[n])
  ELSE t

RECURSIVE CollapseFrom(_, _)
CollapseFrom(t, n) ==
  IF n \notin DOMAIN t.kids \ {Root} \/ Len(t.kids[n]) > 1 THEN t
  ELSE IF t.kids[n] = <<>> THEN CollapseFrom(Reap(t, n), t.par[n])
  ELSE LET child == t.kids[n][1]
       IN  CollapseFrom(Splice(InheritFullscreen(t, {n}, child), n, n, <<child>>), t.par[n])

LayoutsParallel(a, b) == (a \in {"splith", "tabbed"}) = (b \in {"splith", "tabbed"})

\* A split whose only child is a split across it and along its parent.
Squashable(t, n) ==
  /\ n \in DOMAIN t.kids \ {Root}
  /\ Len(t.kids[n]) = 1
  /\ LET child == t.kids[n][1]
     IN  /\ IsSplit(t, child)
         /\ {t.lay[n], t.lay[child]} \subseteq {"splith", "splitv"}
         /\ ~LayoutsParallel(t.lay[n], t.lay[child])
         /\ LayoutsParallel(t.lay[t.par[n]], t.lay[child])

SquashReversed(t, n) ==
  LET child == t.kids[n][1]
  IN  Splice(InheritFullscreen(t, {n, child}, t.par[n]), n, child, Reverse(t.kids[child]))
Squash(t, n) ==
  LET child == t.kids[n][1]
  IN  Splice(InheritFullscreen(t, {n, child}, t.par[n]), n, child, t.kids[child])

RECURSIVE CompactTree(_)
CompactTree(t) ==
  LET n == First(DepthFirst(t, Root), LAMBDA m : Squashable(t, m))
  IN  IF n = None THEN t ELSE CompactTree(Squash(t, n))

\* One pass over the children of n from the i-th on, which puts grandchildren
\* in reverse and drops the fullscreen mode of what it squashes.
RECURSIVE SquashForMoveFrom(_, _, _)
SquashForMoveFrom(t, n, i) ==
  IF i > Len(t.kids[n]) THEN t
  ELSE LET m == t.kids[n][i]
       IN  IF Squashable(t, m)
           THEN LET child == t.kids[m][1]
                IN  SquashForMoveFrom(Splice(t, m, child, Reverse(t.kids[child])),
                                      n, i + Len(t.kids[child]))
           ELSE SquashForMoveFrom(IF IsSplit(t, m) THEN SquashForMoveFrom(t, m, 1) ELSE t,
                                  n, i + 1)

SquashForMove(t) == SquashForMoveFrom(t, Root, 1)

-----------------------------------------------------------------------------
(* Splits and layouts *)

WrapNode(t, n, layout) ==
  IF ~CanWrap(t, n) THEN t
  ELSE LET parent == t.par[n]
           wrapper == Min(FreeIds(t))
       IN  [Alloc(t, parent, layout, <<n>>) EXCEPT
              !.kids[parent] = ReplaceAt(@, Pos(@, n), wrapper),
              !.full = IF n \in @ THEN (@ \ {n}) \cup {wrapper} ELSE @]

WrapRootChildren(t, layout) ==
  IF ~CanWrapRootChildren(t) THEN t
  ELSE [Alloc(t, Root, layout, t.kids[Root]) EXCEPT !.kids[Root] = <<Min(FreeIds(t))>>]

SetLay(t, n, layout) == [t EXCEPT !.lay[n] = layout]

Split(t, n, layout) ==
  LET parent == IF n = Root THEN Root ELSE t.par[n]
      alone == Len(t.kids[parent]) <= 1
  IN  IF n = Root
      THEN IF t.kids[Root] = <<>> THEN SetLay(t, Root, layout)
           ELSE IF ~CanWrapRootChildren(t) THEN t
           ELSE LET u == SetLay(WrapRootChildren(t, t.lay[Root]), Root, layout)
                IN  SetFocusId(u, u.kids[Root][1])
      ELSE IF alone /\ (IF IsSplit(t, n) THEN parent = Root
                        ELSE t.lay[parent] \in {"splith", "splitv"})
      THEN SetLay(t, parent, layout)
      ELSE WrapNode(t, n, layout)

SetLayout(t, n, layout) ==
  IF IsSplit(t, n) THEN CompactTree(SetLay(t, n, layout)) ELSE Split(t, n, layout)

FlattenParentWindowed(t, n) ==
  LET parent == t.par[n]
  IN  IF parent \in {None, Root} \/ Len(t.kids[parent]) # 1 THEN t
      ELSE Splice(t, parent, parent, <<n>>)
FlattenParent(t, n) ==
  LET parent == t.par[n]
  IN  IF parent \in {None, Root} \/ Len(t.kids[parent]) # 1 THEN t
      ELSE Splice(InheritFullscreen(t, {parent}, n), parent, parent, <<n>>)

\* The focused node's parent, or its grandparent once the parent is flattened
\* where both have a single child.
LayoutParent(t) == IF t.par[t.focus] = None THEN Root ELSE t.par[t.focus]
FlattensForLayout(t) ==
  LET target == LayoutParent(t)
  IN  /\ target # Root /\ Len(t.kids[target]) = 1
      /\ t.par[target] # Root /\ Len(t.kids[t.par[target]]) = 1
FlattenedForLayout(t) ==
  IF FlattensForLayout(t) THEN FlattenParent(t, t.kids[LayoutParent(t)][1]) ELSE t
FocusedLayoutTarget(t) ==
  IF FlattensForLayout(t) THEN t.par[LayoutParent(t)] ELSE LayoutParent(t)

WrapsForLayout(t, layout) ==
  /\ t.focus # None /\ FocusedLayoutTarget(t) = Root /\ layout # t.lay[Root]
  /\ t.focus \in Windows \/ t.lay[Root] \in {"tabbed", "stacked"}
SetFocusedLayout(t, layout) ==
  IF t.focus = None THEN SetLayout(t, Root, layout)
  ELSE IF WrapsForLayout(t, layout) THEN WrapRootChildren(t, layout)
  ELSE SetLay(FlattenedForLayout(t), FocusedLayoutTarget(t), layout)

-----------------------------------------------------------------------------
(* Windows that come and go *)

ReplaceFullscreenState(t, n, on) ==
  LET set == [t EXCEPT !.full = {n}]
  IN  IF ~on THEN [t EXCEPT !.full = @ \ {n}]
      ELSE IF t.focus = n THEN set ELSE SetFocusId(set, FocusedLeafIn(set, n))

\* insertion_slot: the parent, and the sibling to go after.
InsertionSlot(t, target) ==
  IF target \notin Live(t) \/ target = Root THEN <<Root, None>>
  ELSE <<t.par[target], target>>

PlaceNewLeafInFocusOrder(t, w, activate, blocked) ==
  IF t.focus # None /\ (~activate \/ blocked)
  THEN t ELSE SetFocusId(t, w)

\* add_tile_with_activation, at the given slot and in the given pending mode.
AddTileAt(t, w, slot, activate, fullscreen) ==
  LET blocked == t.full # {}
      leaf == [t EXCEPT !.par = [n \in DOMAIN @ \cup {w} |-> IF n = w THEN None ELSE @[n]]]
      inserted == InsertChild(leaf, slot[1], w, slot[2])
      wrapped == IF slot[1] = Root /\ WorkspaceLayout # "default"
                 THEN WrapNode(inserted, w, WorkspaceLayout) ELSE inserted
      placed == PlaceNewLeafInFocusOrder(wrapped, w, activate, blocked)
      compact == CompactTree(placed)
  IN  IF fullscreen THEN ReplaceFullscreenState(compact, w, TRUE) ELSE compact

AddTileAtDrop(t, w, target, edge, activate) ==
  LET axis == Axis(edge)
      u == IF t.lay[t.par[target]] = axis THEN t ELSE Split(t, target, axis)
      added == AddTileAt(u, w, InsertionSlot(u, target), activate, FALSE)
      siblings == added.kids[added.par[w]]
  IN  IF IsBackwards(edge)
      THEN [added EXCEPT !.kids[added.par[w]] =
              [siblings EXCEPT ![Pos(siblings, target)] = w, ![Pos(siblings, w)] = target]]
      ELSE added

RemoveTileNode(t, w) ==
  LET parent == t.par[w]
      reaped == ReapEmptyFrom(RemoveChild(RemoveNode(t, w), parent, w), parent)
      shown == FocusedLeafIn(reaped, IF reaped.full = {} THEN Root ELSE FullscreenNode(reaped))
  IN  IF Tiled(reaped) = {} THEN [reaped EXCEPT !.full = {}, !.focus = None]
      ELSE IF reaped.focus = w THEN SetFocusId(reaped, shown) ELSE reaped

RemoveTileForTransfer(t, w, target) ==
  LET removed == RemoveTileNode(t, w)
  IN  IF \/ target = None \/ t.focus # w \/ t.full # {} \/ removed.focus = None
      THEN removed ELSE ResolveTransferFocus(removed, Path(t, target))

-----------------------------------------------------------------------------
(* Directional focus *)

Neighbour(s, x, backwards) ==
  LET i == Pos(s, x) + IF backwards THEN -1 ELSE 1
  IN  IF i \in DOMAIN s THEN s[i] ELSE None
FarEnd(s, backwards) == IF backwards THEN s[Len(s)] ELSE s[1]

\* The walk from node n up to the barrier: the neighbour in the first parent
\* along the axis that has one, else where wrapping leads.
RECURSIVE WalkToNeighbour(_, _, _, _, _, _)
WalkToNeighbour(t, n, axis, backwards, barrier, wrap) ==
  IF t.par[n] = None \/ n = barrier THEN wrap
  ELSE LET parent == t.par[n]
           along == LayoutsParallel(t.lay[parent], axis)
           children == t.kids[parent]
           next == Neighbour(children, n, backwards)
           wraps == along /\ FocusWrapping # "no" /\ Len(children) > 1
           far == FarEnd(children, backwards)
       IN  IF along /\ next # None THEN next
           ELSE IF wraps /\ FocusWrapping = "force" THEN far
           ELSE LET w == IF wraps /\ wrap = None THEN far ELSE wrap
                IN  IF parent = barrier THEN w
                    ELSE WalkToNeighbour(t, parent, axis, backwards, barrier, w)

DirectionalFocusTarget(t, d) ==
  LET n == WalkToNeighbour(t, t.focus, Axis(d), IsBackwards(d), FullscreenNode(t), None)
  IN  IF n = None THEN None ELSE FocusedLeafIn(t, n)

FocusDirection(t, d) ==
  LET next == DirectionalFocusTarget(t, d)
  IN  SetFocusId(t, IF next = None THEN t.focus ELSE next)

FocusNextPrevSibling(t, next) ==
  LET axis == IF LayoutsParallel(t.lay[t.par[t.focus]], "splith") THEN "splith" ELSE "splitv"
      target == WalkToNeighbour(t, t.focus, axis, ~next, None, None)
  IN  IF target = None THEN t ELSE SetFocusId(t, target)

FocusFromOutputDirection(t, d) ==
  SetFocusId(t, IF t.full # {} THEN FocusedLeafIn(t, FullscreenNode(t))
                ELSE IF LayoutsParallel(Axis(d), t.lay[Root]) /\ t.kids[Root] # <<>>
                THEN FocusedLeafIn(t, FarEnd(t.kids[Root], IsBackwards(d)))
                ELSE FocusedLeafIn(t, Root))

\* The split whose tabs the window's indicator belongs to.
TabParent(t, w) ==
  First(Tail(Path(t, w)), LAMBDA n : t.lay[n] \in {"tabbed", "stacked"})
ScrollTabIndicator(t, w, backwards) ==
  LET parent == TabParent(t, w)
      active == FocusedChildIn(t, parent)
      next == Neighbour(t.kids[parent], active, backwards)
  IN  SetFocusId(t, FocusedLeafIn(t, IF next = None THEN active ELSE next))

-----------------------------------------------------------------------------
(* Moves *)

FinishDirectionalMove(t, n) ==
  LET leaf == FirstLeafIn(t, n)
  IN  IF t.focus = n THEN t ELSE SetFocusId(t, IF leaf = None THEN t.focus ELSE leaf)

\* Takes node n out of its parent and puts it at position i of another, or of
\* the same, and reaps what became empty.
Rehang(t, n, parent, i) ==
  ReapEmptyFrom(InsertChildAt(DetachOnly(t, n), parent, n, i), t.par[n])
RehangSquashed(t, n, parent, i) ==
  FinishDirectionalMove(SquashForMove(Rehang(t, n, parent, i)), n)
RehangCompacted(t, n, parent, i) ==
  FinishDirectionalMove(CompactTree(Rehang(t, n, parent, i)), n)

MoveSubtreeToIndex(t, n, i) ==
  LET parent == t.par[n]
      j == Min({i, Len(t.kids[parent])})
  IN  IF Pos(t.kids[parent], n) = j THEN t
      ELSE FinishDirectionalMove([t EXCEPT !.kids[parent] = InsertAt(Without(@, {n}), j, n)], n)

RECURSIVE MoveIntoDirectionalDestination(_, _, _, _)
MoveIntoDirectionalDestination(t, n, dest, d) ==
  IF ~IsSplit(t, dest)
  THEN RehangSquashed(t, n, t.par[dest],
                      Pos(t.kids[t.par[dest]], dest) + (IF IsBackwards(d) THEN 1 ELSE 0))
  ELSE IF LayoutsParallel(t.lay[dest], Axis(d))
  THEN RehangSquashed(t, n, dest, IF IsBackwards(d) THEN Len(t.kids[dest]) + 1 ELSE 1)
  ELSE MoveIntoDirectionalDestination(t, n, FocusedChildIn(t, dest), d)

PromoteToBoundary(t, n, boundary, d) ==
  RehangCompacted(t, n, boundary, IF IsBackwards(d) THEN 1 ELSE Len(t.kids[boundary]) + 1)

\* The root's children go to a new split beside node n, along the axis.
WrapRootForDirection(t, n, d) ==
  LET old == Min(FreeIds(t))
      u == Alloc(t, Root, t.lay[Root], t.kids[Root])
  IN  [u EXCEPT !.lay[Root] = Axis(d), !.par[n] = Root,
                !.kids[Root] = IF IsBackwards(d) THEN <<n, old>> ELSE <<old, n>>]
PromoteByWrappingRoot(t, n, d) ==
  FinishDirectionalMove(
    SquashForMove(ReapEmptyFrom(WrapRootForDirection(DetachOnly(t, n), n, d), t.par[n])), n)

\* The ancestors of n that run along the axis, beyond its own parent.
ParallelAbove(t, n, axis) ==
  {i \in 3..Len(Path(t, n)) : LayoutsParallel(t.lay[Path(t, n)[i]], axis)}

MoveOnlyWindow(t, n, d) ==
  IF ParallelAbove(t, n, Axis(d)) = {} /\ ~LayoutsParallel(t.lay[Root], Axis(d))
  THEN LET u == SetLayout(t, Root, Axis(d))
           m == IF n \in Live(u) THEN n ELSE FirstLeafIn(u, Root)
       IN  IF u.par[m] = Root THEN u ELSE FinishDirectionalMove(Rehang(u, m, Root, 1), m)
  ELSE LET leaf == FirstLeafIn(t, Root)
           above == ParallelAbove(t, leaf, Axis(d))
       IN  IF \/ t.par[leaf] = Root \/ above = {}
              \/ t.par[t.par[leaf]] = Root /\ Len(t.kids[t.par[leaf]]) = 1
           THEN t
           ELSE LET path == Path(t, leaf)
                    dest == path[Min(above)]
                    beside == Pos(t.kids[dest], path[Min(above) - 1])
                IN  RehangCompacted(t, leaf, dest, beside + (IF IsBackwards(d) THEN 0 ELSE 1))

\* The walk of move_direction_inner from the branch of n: the moved tree, or t.
RECURSIVE MoveWalk(_, _, _, _)
MoveWalk(t, n, d, branch) ==
  IF branch = Root
  THEN IF CanWrapRootChildren(t) THEN PromoteByWrappingRoot(t, n, d) ELSE t
  ELSE LET parent == t.par[branch]
           along == LayoutsParallel(t.lay[parent], Axis(d))
           dest == Neighbour(t.kids[parent], branch, IsBackwards(d))
       IN  IF along /\ dest # None
           THEN IF branch = n /\ ~IsSplit(t, dest)
                THEN MoveSubtreeToIndex(t, n, Pos(t.kids[parent], dest))
                ELSE MoveIntoDirectionalDestination(t, n, dest, d)
           ELSE IF along /\ (parent = Root \/ branch # n)
           THEN IF \/ branch = n
                   \/ parent = Root /\ t.par[n] = branch /\ Len(t.kids[branch]) = 1
                THEN t
                ELSE PromoteToBoundary(t, n, parent, d)
           ELSE MoveWalk(t, n, d, parent)

MoveRefused(t, n) == n = Root \/ \E f \in t.full : ContainsNode(t, f, n)
MoveDirectionInner(t, n, d) ==
  IF MoveRefused(t, n) THEN t
  ELSE IF Cardinality(Tiled(t)) = 1 THEN MoveOnlyWindow(t, n, d)
  ELSE IF t.kids[Root] = <<n>> THEN SetLayout(t, Root, Axis(d))
  ELSE LET u == MoveWalk(t, n, d, n) IN IF u = t THEN t ELSE CompactTree(u)

\* move_node_direction, which restores a focus that was elsewhere.
MoveNodeDirection(t, n, d) ==
  LET u == MoveDirectionInner(t, n, d)
  IN  IF ~ContainsNode(t, n, t.focus) /\ t.focus \in Live(u)
      THEN [u EXCEPT !.focus = t.focus] ELSE u

MoveSubtreeToNode(t, n, dest) ==
  LET parent == IF IsSplit(t, dest) THEN dest ELSE t.par[dest]
      after == IF IsSplit(t, dest) THEN None ELSE dest
      there == /\ t.par[n] = parent /\ after # None
               /\ Neighbour(t.kids[parent], after, FALSE) = n
      hung == InsertChild(DetachOnly(t, n), parent, n, after)
  IN  IF \/ n = Root \/ ContainsNode(t, n, dest)
         \/ ~FitsBelow(t, parent, SubtreeHeight(t, n))
         \/ there /\ ContainsNode(t, n, t.focus)
      THEN t ELSE CompactTree(ReapEmptyFrom(hung, t.par[n]))

Expel(t, n, after) ==
  LET parent == t.par[n]
      outer == t.par[parent]
      i == Pos(t.kids[outer], parent) + IF after THEN 1 ELSE 0
  IN  CompactTree(CollapseFrom(InsertChildAt(RemoveChild(t, parent, n), outer, n, i), parent))
CanExpel(t, n) == t.par[n] \notin {None, Root}

\* The neighbour and node n become the children of a new vertical split.
Consume(t, n, right) ==
  LET parent == t.par[n]
      sibling == IF n = Root THEN None ELSE Neighbour(t.kids[parent], n, ~right)
      pair == IF right THEN <<sibling, n>> ELSE <<n, sibling>>
  IN  IF sibling = None \/ ~CanWrap(t, n) \/ ~CanWrap(t, sibling) THEN t
      ELSE CompactTree([Alloc(RemoveChild(t, parent, n), parent, "splitv", pair) EXCEPT
                          !.kids[parent] = ReplaceAt(@, Pos(@, sibling), Min(FreeIds(t)))])

ExpelOrConsume(t, n, right) ==
  LET u == SetFocusId(t, n)
  IN  IF CanExpel(u, n) THEN Expel(u, n, right) ELSE Consume(u, n, right)

CheckSwappable(t, a, b) ==
  /\ a # b /\ ~ContainsNode(t, a, b) /\ ~ContainsNode(t, b, a)
  /\ FitsAt(t, a, SubtreeHeight(t, b)) /\ FitsAt(t, b, SubtreeHeight(t, a))
FocusAfterSwap(t, a, b) ==
  LET IsTabbed(n) == t.lay[t.par[n]] \in {"tabbed", "stacked"}
  IN  IF t.focus = a /\ IsTabbed(b) THEN b
      ELSE IF t.focus = b /\ IsTabbed(a) THEN a ELSE t.focus
SwapNodes(t, a, b) ==
  LET Other(n) == IF n = a THEN b ELSE IF n = b THEN a ELSE n
      u == [t EXCEPT !.par = [n \in DOMAIN @ |-> @[Other(n)]],
                     !.kids = [n \in DOMAIN @ |-> [i \in DOMAIN @[n] |-> Other(@[n][i])]],
                     !.full = {Other(n) : n \in @}]
      focus == FocusAfterSwap(t, a, b)
  IN  IF focus = t.focus THEN u ELSE SetFocusId(u, focus)

-----------------------------------------------------------------------------
(* Subtrees that leave and come back *)

\* The subtree of the given root, with the numbers 1..k for its splits.
Cut(t, root) ==
  LET S == ToSet(DepthFirst(t, root))
  IN  Renumbered([par |-> [Restrict(t.par, S) EXCEPT ![root] = None],
                  kids |-> Restrict(t.kids, S \cap DOMAIN t.kids),
                  lay |-> Restrict(t.lay, S \cap DOMAIN t.kids),
                  full |-> t.full \cap S, root |-> IF IsSplit(t, root) THEN 1 ELSE root,
                  focus |-> None], root)
Uncut(t, S) == FoldSet(LAMBDA m, u : RemoveNode(u, m), t, S)

\* The root stays: what leaves is a new split with its layout, children and mode.
RootAsDetached(t) ==
  LET id == Min(FreeIds(t))
      u == Alloc(t, Root, t.lay[Root], t.kids[Root])
  IN  [u EXCEPT !.kids[Root] = <<id>>, !.lay[Root] = "splith",
                !.full = {IF n = Root THEN id ELSE n : n \in @}]

\* detach_subtree and finish_subtree_detach: the subtree, and what is left.
Detached(t, n) ==
  IF n = Root THEN LET u == RootAsDetached(t) IN Cut(u, u.kids[Root][1]) ELSE Cut(t, n)
\* The last focus under the old parent is never found: focus_inactive_in leaves
\* out all that is under the very node it is asked about.
AfterDetach(t, n) ==
  LET u == IF n = Root THEN RootAsDetached(t) ELSE t
      top == IF n = Root THEN u.kids[Root][1] ELSE n
      rest == Uncut(RemoveChild(u, u.par[top], top), ToSet(DepthFirst(u, top)))
      focused == [rest EXCEPT !.focus = FocusedLeafIn(rest, Root)]
      tidy == CompactTree(IF n = Root THEN focused ELSE ReapEmptyFrom(focused, t.par[n]))
  IN  [tidy EXCEPT !.focus = FocusedLeafIn(tidy, Root)]

RestoreTransferredFocus(t) ==
  IF t.focus = None THEN SetFocusId(t, FocusedLeafIn(t, Root)) ELSE t

AttachSlot(t, target) ==
  IF target \in DOMAIN t.kids THEN <<target, None>>
  ELSE IF target \in Tiled(t) THEN <<t.par[target], target>> ELSE <<Root, None>>

InsertDetachedNode(t, s) ==
  LET Both(f, g) == [m \in DOMAIN f \cup DOMAIN g |-> IF m \in DOMAIN f THEN f[m] ELSE g[m]]
  IN  [t EXCEPT !.par = Both(@, s.par), !.kids = Both(@, s.kids), !.lay = Both(@, s.lay),
                !.full = @ \cup s.full]
AttachSplitReversed(t, s) ==
  LET u == InsertDetachedNode(t, s)
      children == Reverse(s.kids[s.root])
  IN  RemoveNode([u EXCEPT !.kids[Root] = children, !.lay[Root] = s.lay[s.root],
                           !.par = [m \in DOMAIN @ |-> IF m \in ToSet(children) THEN Root ELSE @[m]],
                           !.full = IF s.root \in @ THEN {Root} ELSE @], s.root)
\* An empty root takes over the layout, the children and the mode of the split.
AttachSplitToEmptyRoot(t, s) ==
  LET u == InsertDetachedNode(t, s)
      children == s.kids[s.root]
  IN  RemoveNode([u EXCEPT !.kids[Root] = children, !.lay[Root] = s.lay[s.root],
                           !.par = [m \in DOMAIN @ |-> IF m \in ToSet(children) THEN Root ELSE @[m]],
                           !.full = IF s.root \in @ THEN {Root} ELSE @], s.root)

\* The detached subtree, its splits numbered after the k of the tree.
Shifted(s, k) ==
  LET Shift(m, i) == IF m \in Windows \cup {None} THEN m ELSE m + i
  IN  [Renamed(s, LAMBDA m : Shift(m, k), LAMBDA m : Shift(m, 0 - k)) EXCEPT !.root = Shift(@, k)]

AttachSubtree(t, s, target, unwrap) ==
  LET u == IF s.full = {} THEN t ELSE [t EXCEPT !.full = {}]
      fresh == Shifted(s, Cardinality(DOMAIN t.kids) - 1)
      height == SubtreeHeight(s, s.root)
      slot == AttachSlot(u, target)
      fitting == IF FitsBelow(u, slot[1], height) THEN slot ELSE <<Root, None>>
  IN  RestoreTransferredFocus(
        IF u.focus = None /\ unwrap /\ s.root \in DOMAIN s.kids
        THEN AttachSplitToEmptyRoot(u, fresh)
        ELSE InsertChild(InsertDetachedNode(u, fresh), fitting[1], fresh.root, fitting[2]))

-----------------------------------------------------------------------------
(* The operations *)

Init ==
  /\ tree \in [par : {[n \in {Root} |-> None]},             \* the parents of the live nodes
               kids : {[n \in {Root} |-> <<>>]},            \* the children of the splits
               lay : [{Root} -> {"splith", "splitv"}],      \* their layouts
               focus : {None}, full : {{}}, recent : {<<>>}]
  /\ held = None

SplitsOf(t) == IF t = None THEN {} ELSE DOMAIN t.kids \ {Root}
Size(t) ==
  IF t = None THEN 0
  ELSE Cardinality(Live(t) \ {Root}) + Cardinality(t.full)
         + Cardinality({n \in DOMAIN t.lay : t.lay[n] \in {"tabbed", "stacked"}})
Bounded(t, h) ==
  /\ Cardinality(SplitsOf(t)) + Cardinality(SplitsOf(h)) <= MaxSplits
  /\ Size(t) + Size(h) <= MaxSize
\* An operation that changes nothing is no step.
BecomeOne(S) ==
  \E t \in S : t # tree /\ Bounded(t, held) /\ tree' = Renumbered(t, Root) /\ UNCHANGED held
Become(t) == BecomeOne({t})
\* What the operation may make of a tree, whichever window had the focus last.
Outcomes(Op(_)) ==
  {[Op([tree EXCEPT !.recent = <<last>>]) EXCEPT !.recent = <<>>] : last \in Tiled(tree)}
HeldWindows == IF held = None THEN {} ELSE Windows \cap DOMAIN held.par
Elsewhere == Windows \ (Tiled(tree) \cup HeldWindows)

AddTile(w, target, activate, fullscreen) ==
  Become(AddTileAt(tree, w, InsertionSlot(tree, target), activate, fullscreen))
\* InsertTarget::MoveDestination on a focused split.
AddTileInFocusedSplit(w, activate) ==
  /\ tree.focus \in DOMAIN tree.kids
  /\ Become(AddTileAt(tree, w, <<tree.focus, None>>, activate, FALSE))
\* Where the new window is wrapped for the workspace layout it is no sibling of
\* the drop target, and the code's expect ends the compositor.
AddTileDropped(w, target, edge, activate) ==
  /\ WorkspaceLayout = "default" \/ ~IsBackwards(edge) \/ tree.par[target] # Root
  /\ Become(AddTileAtDrop(tree, w, target, edge, activate))

\* A floated window comes back to the split it left, if that is still there.
UnfloatTile(w, parent, activate) ==
  LET leaf == [tree EXCEPT !.par = [n \in DOMAIN @ \cup {w} |-> IF n = w THEN parent ELSE @[n]]]
      inserted == InsertChild(leaf, parent, w, None)
  IN  Become(IF activate THEN SetFocusId(inserted, w) ELSE inserted)

RemoveTile(w) == BecomeOne(Outcomes(LAMBDA t : RemoveTileNode(t, w)))
TransferTile(w) ==
  BecomeOne(UNION {Outcomes(LAMBDA t : RemoveTileForTransfer(t, w, target)) :
                     target \in TransferFocusTargets(tree, w)})

SetFocus(n) == Tiled(tree) # {} /\ Become(SetFocusId(tree, n))
FocusParent ==
  /\ tree.focus \notin {None, Root} \cup tree.full
  /\ Become(SetFocusId(tree, tree.par[tree.focus]))
FocusChild ==
  /\ tree.focus \in DOMAIN tree.kids
  /\ BecomeOne(Outcomes(LAMBDA t : SetFocusId(t, FocusedChildIn(t, t.focus))))
FocusInDirection ==
  BecomeOne(UNION {Outcomes(LAMBDA t : FocusDirection(t, d)) : d \in Directions})
FocusFromOutput ==
  BecomeOne(UNION {Outcomes(LAMBDA t : FocusFromOutputDirection(t, d)) : d \in Directions})
FocusSibling(next) ==
  tree.focus \notin {None, Root} /\ Become(FocusNextPrevSibling(tree, next))
ScrollTab(w) ==
  /\ TabParent(tree, w) # None
  /\ BecomeOne({[ScrollTabIndicator([tree EXCEPT !.recent = order], w, backwards)
                   EXCEPT !.recent = <<>>] : order \in SetToSeqs(Tiled(tree)), backwards \in BOOLEAN})

SplitNode(n, layout) == Become(Split(tree, n, layout))
SetParentLayout(layout) ==
  tree.focus \notin {None, Root} /\ Become(SetLayout(tree, tree.par[tree.focus], layout))
LayoutFocused(layout) == Become(SetFocusedLayout(tree, layout))
LayoutTarget(n, layout) == Become(SetLay(tree, n, layout))
Flatten(n) == Become(FlattenParent(tree, n))
WrapWorkspaceChildren ==
  tree.kids[Root] # <<>> /\ Become(WrapRootChildren(tree, tree.lay[Root]))

MoveFocused(d) ==
  /\ ~MoveRefused(tree, tree.focus)
  /\ BecomeOne(Outcomes(LAMBDA t : MoveDirectionInner(t, t.focus, d)))
MoveNode(n, d) == ~MoveRefused(tree, n) /\ BecomeOne(Outcomes(LAMBDA t : MoveNodeDirection(t, n, d)))
MoveFocusedToIndex(i) ==
  /\ tree.focus \notin {None, Root}
  /\ LET path == Path(tree, tree.focus)
     IN  Become(MoveSubtreeToIndex(tree, path[Len(path) - 1], i))
MoveToNode(n, dest) == Become(MoveSubtreeToNode(tree, n, dest))
ExpelOrConsumeNode(n, right) ==
  Tiled(tree) # {} /\ Become(ExpelOrConsume(tree, n, right))
ConsumeFocused ==
  /\ tree.focus # None /\ Consume(tree, tree.focus, TRUE) # tree
  /\ Become(Consume(tree, tree.focus, TRUE))
ExpelFocused ==
  /\ tree.focus # None /\ CanExpel(tree, tree.focus)
  /\ Become(Expel(tree, tree.focus, TRUE))
Swap(a, b) == CheckSwappable(tree, a, b) /\ Become(SwapNodes(tree, a, b))

SetFullscreen(n, on) ==
  (on \/ n \in tree.full) /\ BecomeOne(Outcomes(LAMBDA t : ReplaceFullscreenState(t, n, on)))

Detach(n) ==
  /\ held = None /\ held' = Detached(tree, n)
  /\ \E t \in Outcomes(LAMBDA t : AfterDetach(t, n)) :
       Bounded(t, Detached(tree, n)) /\ tree' = Renumbered(t, Root)
Attach ==
  /\ held # None /\ held' = None
  /\ \E t \in {AttachSubtree([tree EXCEPT !.recent = <<last>>], held, target, unwrap) :
                 last \in HeldWindows, target \in Live(tree), unwrap \in BOOLEAN} :
       tree' = [Renumbered(t, Root) EXCEPT !.recent = <<>>]

WindowsComeAndGo ==
  \/ \E w \in Elsewhere, activate \in BOOLEAN :
       \/ \E target \in Live(tree), fullscreen \in BOOLEAN : AddTile(w, target, activate, fullscreen)
       \/ AddTileInFocusedSplit(w, activate)
       \/ \E target \in Tiled(tree), edge \in Directions : AddTileDropped(w, target, edge, activate)
       \/ \E parent \in DOMAIN tree.kids \ {Root} : UnfloatTile(w, parent, activate)
  \/ \E w \in Tiled(tree) : RemoveTile(w) \/ TransferTile(w)

FocusMoves ==
  \/ \E n \in Live(tree) : SetFocus(n)
  \/ FocusParent
  \/ FocusChild
  \/ FocusInDirection
  \/ FocusFromOutput
  \/ \E next \in BOOLEAN : FocusSibling(next)
  \/ \E w \in Tiled(tree) : ScrollTab(w)

LayoutsChange ==
  \/ \E layout \in Layouts :
       \/ \E n \in Live(tree) : SplitNode(n, layout)
       \/ \E n \in DOMAIN tree.kids : LayoutTarget(n, layout)
       \/ SetParentLayout(layout)
       \/ LayoutFocused(layout)
  \/ \E n \in Live(tree) : Flatten(n)
  \/ WrapWorkspaceChildren

NodesMove ==
  \/ \E d \in Directions : MoveFocused(d) \/ \E n \in Live(tree) \ {tree.focus} : MoveNode(n, d)
  \/ \E i \in 1..Len(tree.kids[Root]) : MoveFocusedToIndex(i)
  \/ \E n, dest \in Live(tree) : MoveToNode(n, dest)
  \/ \E n \in Tiled(tree) \cup {tree.focus}, right \in BOOLEAN : ExpelOrConsumeNode(n, right)
  \/ ConsumeFocused
  \/ ExpelFocused
  \/ \E a, b \in Live(tree) : Swap(a, b)

ModesChange ==
  \/ \E n \in Live(tree), on \in BOOLEAN : SetFullscreen(n, on)

SubtreesTransfer ==
  \/ \E n \in Live(tree) : Detach(n)
  \/ Attach

Next ==
  \/ WindowsComeAndGo
  \/ FocusMoves
  \/ LayoutsChange
  \/ NodesMove
  \/ ModesChange
  \/ SubtreesTransfer

Spec == Init /\ [][Next]_vars

-----------------------------------------------------------------------------
(* Properties *)

Depth(t) == SubtreeHeight(t, Root) - 1
Order(t) == LeafIdsIn(t, Root)

\* What check_invariants asserts after every operation, without the shares: the
\* arena is one tree rooted at the root, in which parents and children agree,
\* every node is reached exactly once and only the root may be empty; a window
\* is tiled or detached, not both; the focus is a live node exactly as long as
\* there is a window; and one live node at most is fullscreen.
CheckInvariants ==
  LET nodes == DepthFirst(tree, Root)
  IN  /\ ToSet(nodes) = Live(tree) /\ IsInjective(nodes)
      /\ tree.par[Root] = None
      /\ DOMAIN tree.kids = DOMAIN tree.lay /\ Live(tree) \ DOMAIN tree.kids \subseteq Windows
      /\ \A n \in DOMAIN tree.kids :
           /\ n # Root => tree.kids[n] # <<>>
           /\ \A c \in ToSet(tree.kids[n]) : tree.par[c] = n
      /\ HeldWindows \cap Live(tree) = {}
      /\ tree.focus \in Live(tree) \cup {None} /\ (tree.focus = None) = (Tiled(tree) = {})
      /\ tree.full \subseteq Live(tree) /\ Cardinality(tree.full) <= 1

\* Splitting, laying out, flattening and compacting move no window past another:
\* squashing a pair of splits puts the grandchildren in their place and in order.
LayoutKeepsOrder ==
  /\ Order(CompactTree(tree)) = Order(tree)
  /\ \A n \in Live(tree) : Order(FlattenParent(tree, n)) = Order(tree)
  /\ \A layout \in Layouts :
       /\ Order(SetFocusedLayout(tree, layout)) = Order(tree)
       /\ \A n \in Live(tree) : Order(SetLayout(tree, n, layout)) = Order(tree)

\* The windows that the fullscreen node shows stay on the screen when its split is
\* wrapped, squashed, flattened or collapsed: the mode goes to a node above them.
Shown(t) == UNION {ToSet(LeafIdsIn(t, n)) : n \in t.full}
LayoutKeepsFullscreen ==
  /\ Shown(tree) \subseteq Shown(CompactTree(tree))
  /\ \A n \in Live(tree) :
       /\ Shown(tree) \subseteq Shown(FlattenParent(tree, n))
       /\ Shown(tree) \subseteq Shown(CollapseFrom(tree, n))
  /\ \A layout \in Layouts :
       /\ Shown(tree) \subseteq Shown(SetFocusedLayout(tree, layout))
       /\ \A n \in Live(tree) : Shown(tree) \subseteq Shown(SetLayout(tree, n, layout))

\* No command that wraps, consumes, swaps or moves to a mark makes the tree deeper
\* than MAX_TREE_DEPTH, even where a directional move has left it deeper already.
Deeper(t) == Depth(t) > Max({MaxTreeDepth, Depth(tree)})
DepthBound ==
  /\ \A layout \in Layouts :
       /\ ~Deeper(SetFocusedLayout(tree, layout))
       /\ \A n \in Live(tree) : ~Deeper(SetLayout(tree, n, layout))
  /\ \A n \in Live(tree), right \in BOOLEAN : ~Deeper(Consume(tree, n, right))
  /\ \A n, m \in Live(tree) :
       /\ ~Deeper(MoveSubtreeToNode(tree, n, m))
       /\ CheckSwappable(tree, n, m) => ~Deeper(SwapNodes(tree, n, m))

\* A directional move of the focused node takes the focus along: afterwards it is
\* on that node or on something that was under it, whatever was squashed.
FocusFollowsMove ==
  tree.focus # None /\ ~MoveRefused(tree, tree.focus) =>
    \A d \in Directions : \A t \in Outcomes(LAMBDA t : MoveDirectionInner(t, t.focus, d)) :
      ToSet(LeafIdsIn(t, t.focus)) \subseteq ToSet(LeafIdsIn(tree, tree.focus))

List == INSTANCE WindowList WITH
          order <- Order(tree),
          away <- IF held = None THEN <<>> ELSE LeafIdsIn(held, held.root)

\* To the layers above, the tree is a list of windows: no operation loses, doubles
\* or invents one, one that adds or removes a window leaves the others in order,
\* and a container comes back with its windows in a row and in the same order.
ImplementsWindowList == List!Spec

=============================================================================
