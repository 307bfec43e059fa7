------------------------------ MODULE WindowList ------------------------------
(***************************************************************************)
(* What a workspace's tiling tree promises to the layers above it, which   *)
(* see its windows as a list (TilingTree::tiles) and do not look at the    *)
(* splits: a window comes and goes alone and leaves the others in their    *)
(* order, a container goes away and comes back with its windows in a row,  *)
(* and every other operation rearranges the windows that are there.        *)
(***************************************************************************)
EXTENDS Integers, Sequences, SequencesExt

CONSTANT Windows

VARIABLES
  order,  \* the tiled windows, in the order of the tree
  away    \* the windows of the container that is detached

vars == <<order, away>>

Init == order = <<>> /\ away = <<>>

\* How a list s becomes a list t.
Inserts(s, t, S) ==
  /\ Len(t) = Len(s) + 1
  /\ \E i \in DOMAIN t : t[i] \in S /\ s = RemoveAt(t, i)
Removes(s, t) == Len(s) = Len(t) + 1 /\ \E i \in DOMAIN s : t = RemoveAt(s, i)
Permutes(s, t) == Len(s) = Len(t) /\ ToSet(s) = ToSet(t)
\* The list b has t with all of a put in a row somewhere.
Holds(b, t, a) ==
  /\ Len(b) = Len(t) + Len(a)
  /\ \E i \in 0..Len(t) : b = SubSeq(t, 1, i) \o a \o SubSeq(t, i + 1, Len(t))

Open == Inserts(order, order', Windows \ (ToSet(order) \cup ToSet(away))) /\ UNCHANGED away
Close == Removes(order, order') /\ UNCHANGED away
Rearrange == Permutes(order, order') /\ UNCHANGED away
\* A container leaves with its windows, or comes back with them.
TakeOut == away = <<>> /\ away' # <<>> /\ Holds(order, order', away')
PutBack == away # <<>> /\ away' = <<>> /\ Holds(order', order, away)

Next ==
  /\ order' \in Seq(Windows) /\ away' \in Seq(Windows)
  /\ Rearrange \/ Open \/ Close \/ TakeOut \/ PutBack
Spec == Init /\ [][Next]_vars

=============================================================================
