----------------------------- MODULE Workspaces -----------------------------
(***************************************************************************)
(* Workspaces and monitors: the part of `Layout` (src/src/layout/mod.rs,   *)
(* monitor.rs, sway_workspace.rs, workspace_naming.rs, scratchpad.rs) that *)
(* decides which workspaces exist, on which output each of them is, which  *)
(* one every output shows, and where every window is, while outputs are    *)
(* plugged and unplugged, windows come, go and move, and workspaces are    *)
(* switched, created, renamed, moved and destroyed.                        *)
(*                                                                         *)
(* The operators on a monitor m and on a layout L are the methods of       *)
(* `Monitor` and `Layout` and return the new value; an action is one       *)
(* command, handler or event, with every call it makes.  A workspace's     *)
(* tree of windows is here the set of its windows (see TilingTree).        *)
(* Sequences are indexed from 1 where the code indexes from 0.             *)
(***************************************************************************)
EXTENDS Naturals, Sequences, FiniteSets, SequencesExt

CONSTANTS
  Outputs,        \* the connectors an output can appear on
  Windows,
  Names,          \* workspace names, as strings that do not start with a digit
  Numbers,        \* the numbers a command asks for
  Declarable,     \* the names the configuration may declare
  OpenOn,         \* [Declarable -> Outputs \cup {NoOutput}], `open-on-output`
  NoOutput, NoWindow,
  MaxWorkspaces,  \* bound: workspaces that exist together
  MaxNumber,      \* bound: numbers of workspaces
  MaxSize         \* bound: see Fits

VARIABLES
  layout,   \* the fields of `Layout`, see Init
  open      \* the windows that are mapped

vars == <<layout, open>>

-----------------------------------------------------------------------------
(* Identities.  `Workspace::name` and `Workspace::number`, "" and 0 for    *)
(* None; the names of the model carry no number.                           *)

Anonymous == [name |-> "", number |-> 0]
Number(n) == [name |-> "", number |-> n]
Named(x) == [name |-> x, number |-> 0]
Identities == {Number(n) : n \in Numbers} \cup {Named(x) : x \in Names}

HasIdentity(w) == w.ident # Anonymous
HasWindows(w) == w.wins # {}
MustBeKept(w) == HasWindows(w) \/ w.persistent

(* sticky is the set of the workspace's windows that float and are sticky. *)
Workspace(id, out, ident, persistent) ==
  [id |-> id, ident |-> ident, persistent |-> persistent, orig |-> out,
   wins |-> {}, sticky |-> {}]

Ids(wss) == [i \in DOMAIN wss |-> wss[i].id]
AddTo(w, wins, sticky) ==
  [w EXCEPT !.wins = @ \cup wins, !.sticky = @ \cup sticky]
RemoveFrom(w, wins) == [w EXCEPT !.wins = @ \ wins, !.sticky = @ \ wins]

-----------------------------------------------------------------------------
(* Operators on a monitor.                                                 *)

(* The index of workspace id on m, 0 when it is not there.                 *)
IdxOf(m, id) == SelectInSeq(m.wss, LAMBDA w : w.id = id)

Inactive(m) == {m.wss[i] : i \in DOMAIN m.wss \ {m.active}}

(* A monitor is made of the workspaces that must be kept, or of one with   *)
(* the identity computed for it, and shows the workspace it showed last.   *)
NewMonitor(out, wss, lastActive, ident, id) ==
  LET kept == SelectSeq(wss, MustBeKept)
      all  == IF kept = <<>> THEN <<Workspace(id, out, ident, FALSE)>> ELSE kept
      last == SelectInSeq(all, LAMBDA w : w.id = lastActive)
  IN [out |-> out, wss |-> all, order |-> Ids(all),
      active |-> IF last = 0 THEN 1 ELSE last,
      prev |-> 0, prevName |-> Anonymous, switching |-> FALSE, aborted |-> FALSE]

(* Takes the workspaces ids, none of which is active, out of m.            *)
Discard(m, ids) ==
  [m EXCEPT !.wss = SelectSeq(@, LAMBDA w : w.id \notin ids),
            !.order = SelectSeq(@, LAMBDA id : id \notin ids),
            !.active = @ - Cardinality({i \in DOMAIN m.wss : i <= @ /\ m.wss[i].id \in ids})]

(* consider_destroy_workspace for each of ids; its assert! stays in the    *)
(* release build and ends the session when an animation is running.        *)
ConsiderDestroy(m, ids) ==
  IF ids # {} /\ m.switching
    THEN [m EXCEPT !.aborted = TRUE]
    ELSE Discard(m, {w.id : w \in {v \in Inactive(m) : ~MustBeKept(v)}} \cap ids)

CleanUp(m) ==
  ConsiderDestroy(m, {w.id : w \in {v \in ToSet(m.wss) : ~v.persistent}})

(* Numbered workspaces come first, by number, then the named ones, then    *)
(* those without an identity; the spatial order breaks ties by id, the     *)
(* order reported to clients keeps ties as they were.                      *)
SortKey(w) ==
  IF ~HasIdentity(w) THEN 1001 ELSE IF w.ident.number # 0 THEN w.ident.number ELSE 1000

Sort(m) ==
  LET key(id) == SortKey(m.wss[IdxOf(m, id)])
      pos(id) == SelectInSeq(m.order, LAMBDA c : c = id)
      wss == SortSeq(m.wss, LAMBDA a, b :
               \/ SortKey(a) < SortKey(b)
               \/ SortKey(a) = SortKey(b) /\ a.id < b.id)
      listed == SelectSeq(m.order, LAMBDA id : IdxOf(m, id) # 0)
  IN [m EXCEPT !.wss = wss,
               !.order = SortSeq(listed, LAMBDA a, b :
                           \/ key(a) < key(b)
                           \/ key(a) = key(b) /\ pos(a) < pos(b)),
               !.active = SelectInSeq(wss, LAMBDA w : w.id = m.wss[m.active].id)]

(* add_sway_workspace_at, and add_workspace_at on a monitor left empty.    *)
AddWorkspaceAt(m, i, id, ident) ==
  [m EXCEPT !.wss = InsertAt(@, i, Workspace(id, m.out, ident, FALSE)),
            !.order = Append(@, id),
            !.active = IF i <= @ THEN @ + 1 ELSE @]

(* reap_empty_workspaces; id is for the workspace an empty monitor gets.   *)
Reap(m, id) ==
  IF m.wss = <<>>
    THEN [AddWorkspaceAt(m, 1, id, Anonymous) EXCEPT !.active = 1]
    ELSE Sort(Discard([m EXCEPT !.switching = FALSE],
                      {w.id : w \in {v \in Inactive(m) : ~MustBeKept(v)}}))

(* activate_workspace: remember the workspace left, carry its sticky       *)
(* windows along, start the animation.                                     *)
Activate(m, i) ==
  IF i = m.active THEN m
  ELSE LET left == m.wss[m.active]
       IN [m EXCEPT !.prev = left.id, !.prevName = left.ident,
                    !.active = i, !.switching = TRUE,
                    !.wss = [@ EXCEPT ![m.active] = RemoveFrom(@, left.sticky),
                                      ![i] = AddTo(@, left.sticky, left.sticky)]]

(* add_tile: a workspace without a name becomes this output's own.         *)
AddTile(m, i, win, sticky, activate) ==
  LET added == [m EXCEPT !.wss[i] =
                  [AddTo(@, {win}, sticky) EXCEPT
                     !.orig = IF m.wss[i].ident.name = "" THEN m.out ELSE @]]
  IN IF activate THEN Activate(added, i) ELSE added

DetachWorkspace(m, id) ==
  LET i == IdxOf(m, id)
  IN [m EXCEPT !.wss = RemoveAt(@, i),
               !.order = SelectSeq(@, LAMBDA c : c # id),
               !.active = IF i <= @ /\ @ > 1 THEN @ - 1 ELSE @,
               !.switching = FALSE]

AttachWorkspace(m, w, at, activate) ==
  LET i == IF at > Len(m.wss) THEN Len(m.wss) + 1 ELSE at
      next == IF i > Len(m.wss) THEN Len(m.order) + 1
              ELSE SelectInSeq(m.order, LAMBDA c : c = m.wss[i].id)
      in == [m EXCEPT !.wss = InsertAt(@, i, w), !.order = InsertAt(@, next, w.id),
                      !.active = IF i <= @ THEN @ + 1 ELSE @,
                      !.switching = FALSE]
      shown == IF activate THEN Activate(in, i) ELSE in
  IN CleanUp([shown EXCEPT !.switching = FALSE])

AppendForgetsOrder(m, wss) ==
  IF wss = <<>> THEN m ELSE CleanUp(Reap([m EXCEPT !.wss = @ \o wss], 0))
AppendWorkspaces(m, wss) ==
  IF wss = <<>> THEN m
  ELSE CleanUp(Reap([m EXCEPT !.wss = @ \o wss, !.order = @ \o Ids(wss)], 0))

(* finish_workspace_switch, with which a command that names a workspace    *)
(* begins, and advance_animations, with which the animation ends.          *)
FinishSwitch(m, target) ==
  IF ~m.switching \/ ~HasWindows(m.wss[m.active]) THEN m
  ELSE CleanUp(ConsiderDestroy([m EXCEPT !.switching = FALSE], {m.prev} \ {target}))

AdvanceAnimations(m) ==
  Reap(CleanUp(ConsiderDestroy([m EXCEPT !.switching = FALSE], {m.prev})), 0)

-----------------------------------------------------------------------------
(* Operators on a layout.                                                  *)

Places(L) == UNION {{j} \X DOMAIN L.mons[j].wss : j \in DOMAIN L.mons}
At(L, p) == L.mons[p[1]].wss[p[2]]
AllWorkspaces(L) ==
  UNION {ToSet(L.mons[j].wss) : j \in DOMAIN L.mons} \cup ToSet(L.homeless)

(* A fresh workspace id; WorkspaceId::next counts up.                      *)
NextId(L) ==
  1 + Max({0} \cup {w.id : w \in AllWorkspaces(L)}
              \cup {L.mons[j].prev : j \in DOMAIN L.mons}
              \cup {L.lastActive[o] : o \in Outputs})

(* The first of a set of places, in the order of `Layout::workspaces`;     *)
(* <<0, 0>> when there is none.                                            *)
Earlier(p, q) == p[1] < q[1] \/ (p[1] = q[1] /\ p[2] < q[2])
FirstOf(ps) ==
  IF ps = {} THEN <<0, 0>>
  ELSE CHOOSE p \in ps : \A q \in ps \ {p} : Earlier(p, q)
Find(L, ident) == FirstOf({p \in Places(L) : At(L, p).ident = ident})
PlaceOf(L, win) == FirstOf({p \in Places(L) : win \in At(L, p).wins})
MonitorOf(L, out) == SelectInSeq(L.mons, LAMBDA m : m.out = out)

UsedOnOutputs(L, ident) == Find(L, ident) # <<0, 0>>
Used(L, ident) == \E w \in AllWorkspaces(L) : w.ident = ident

(* next_free_workspace_identity: the least number no workspace has.        *)
FreeNumber(L) ==
  LET used == {w.ident.number : w \in AllWorkspaces(L)}
  IN Number(CHOOSE n \in 1..Cardinality(used) + 1 :
              n \notin used /\ \A k \in 1..n - 1 : k \in used)

(* The identity for the first workspace of an output: an unused declared   *)
(* name whose assignment claims the output, else a free number.            *)
InitialIdentity(L, out) ==
  LET claimed == {x \in L.declared : OpenOn[x] = out /\ ~Used(L, Named(x))}
  IN IF claimed # {} THEN Named(CHOOSE x \in claimed : TRUE) ELSE FreeNumber(L)

(* initial_monitor_for_workspace: where a new workspace is created.        *)
InitialMonitor(L, ident) ==
  LET assigned == IF ident.name \in L.declared
                    THEN MonitorOf(L, OpenOn[ident.name]) ELSE 0
  IN IF assigned = 0 THEN L.active ELSE assigned

(* add_sway_workspace_at on monitor j and the sort that follows it.        *)
CreateAt(L, j, i, ident) ==
  [L EXCEPT !.mons[j] = Sort(AddWorkspaceAt(@, i, NextId(L), ident))]
CreateSwayWorkspace(L, ident) ==
  LET j == InitialMonitor(L, ident)
  IN CreateAt(L, j, Len(L.mons[j].wss), ident)

(* prepare_workspace_at: a workspace without an identity is not used; a    *)
(* new one is put in its place.                                            *)
Prepare(L, j, i) ==
  IF HasIdentity(L.mons[j].wss[i]) THEN L ELSE CreateAt(L, j, i, FreeNumber(L))
PreparedId(L, j, i) ==
  IF HasIdentity(L.mons[j].wss[i]) THEN L.mons[j].wss[i].id ELSE NextId(L)

(* Gives the shown workspace of monitor j an identity if it has none.      *)
Identify(L, j) ==
  LET m == L.mons[j]
  IN IF HasIdentity(m.wss[m.active]) THEN L
     ELSE [L EXCEPT !.mons[j].wss[m.active].ident = FreeNumber(L)]

FocusOutput(L, j) == [Identify(Identify(L, L.active), j) EXCEPT !.active = j]

SwitchWorkspace(L, i) == [L EXCEPT !.mons[L.active] = Activate(@, i)]
ActivateAt(L, p) == SwitchWorkspace(FocusOutput(L, p[1]), p[2])

(* activate_sway_workspace for a name or a number.                         *)
ActivateSwayWorkspace(L, ident) ==
  IF Find(L, ident) # <<0, 0>> THEN ActivateAt(L, Find(L, ident))
  ELSE LET created == CreateSwayWorkspace(L, ident)
       IN ActivateAt(created, Find(created, ident))

(* `workspace back_and_forth`: by id while the workspace is on this        *)
(* output, by its cached name otherwise.                                   *)
BackAndForth(L) ==
  LET m == L.mons[L.active]
      i == IdxOf(m, m.prev)
  IN IF i # 0 THEN SwitchWorkspace(L, i)
     ELSE IF m.prevName # Anonymous THEN ActivateSwayWorkspace(L, m.prevName)
     ELSE L

(* With workspace_auto_back_and_forth the shown workspace leads back.      *)
AutoBackAndForth(L, ident) ==
  LET p == Find(L, ident)
  IN IF p = <<0, 0>> THEN ActivateSwayWorkspace(L, ident)
     ELSE IF p[1] # L.active THEN ActivateAt(L, p)
     ELSE IF p[2] = L.mons[p[1]].active THEN BackAndForth(L)
     ELSE SwitchWorkspace(L, p[2])

(* The workspace `workspace next` and `workspace prev` lead to, in sway's   *)
(* scan order: from a number the closest number beyond it, else a named    *)
(* workspace, else the extreme number; from a name the next named one,     *)
(* else the extreme number, else the first named one.                      *)
RelativePlace(L, next) ==
  LET m == L.mons[L.active]
      here == <<L.active, m.active>>
      num(p) == At(L, p).ident.number
      ps == {p \in Places(L) : \/ HasWindows(At(L, p))
                               \/ HasIdentity(At(L, p))
                               \/ p = here}
      Scanned(p, q) == IF next THEN Earlier(p, q) ELSE Earlier(q, p)
      First(S) == CHOOSE p \in S : \A q \in S \ {p} : Scanned(p, q)
      named == {p \in ps : num(p) = 0}
      numbered == ps \ named
      beyond == {p \in numbered : IF next THEN num(p) > num(here) ELSE num(p) < num(here)}
      after == {p \in named : Scanned(here, p)}
      Closest(S) == First({p \in S : \A q \in S :
                             IF next THEN num(p) <= num(q) ELSE num(p) >= num(q)})
  IN IF num(here) # 0
       THEN IF beyond # {} THEN Closest(beyond)
            ELSE IF named # {} THEN First(named) ELSE Closest(numbered)
       ELSE IF after # {} THEN First(after)
            ELSE IF numbered # {} THEN Closest(numbered) ELSE First(named)

(* `workspace next_on_output` and `prev_on_output`, which wrap around.     *)
RelativeOnOutput(L, next) ==
  LET m == L.mons[L.active]
      is == {i \in DOMAIN m.wss : HasWindows(m.wss[i]) \/ HasIdentity(m.wss[i]) \/ i = m.active}
      ahead == {i \in is : IF next THEN i > m.active ELSE i < m.active}
      first(S) == CHOOSE i \in S : \A k \in S : IF next THEN i <= k ELSE i >= k
  IN <<L.active, IF ahead = {} THEN first(is) ELSE first(ahead)>>

(* move_to_workspace: the window at place p goes to workspace id of the    *)
(* same monitor.                                                           *)
MoveToWorkspace(m, win, id, activate) ==
  LET from == SelectInSeq(m.wss, LAMBDA w : win \in w.wins)
      sticky == m.wss[from].sticky \cap {win}
      source == m.wss[from].id
      moved == AddTile([m EXCEPT !.wss[from] = RemoveFrom(@, {win})],
                       IdxOf(m, id), win, sticky, activate)
  IN IF source = id THEN m
     ELSE IF moved.switching THEN moved
     ELSE ConsiderDestroy(moved, {source})

(* move_to_output: to workspace i of monitor j, which may be win's own.    *)
MoveToOutput(L, win, j, i, activate) ==
  LET from == PlaceOf(L, win)
      sticky == At(L, from).sticky \cap {win}
      source == At(L, from).id
      id == PreparedId(L, j, i)
      P == Prepare(L, j, i)
      taken == [P EXCEPT !.mons[from[1]].wss[IdxOf(P.mons[from[1]], source)]
                           = RemoveFrom(@, {win})]
      added == [taken EXCEPT !.mons[j] = AddTile(@, IdxOf(@, id), win, sticky, activate),
                             !.active = IF activate THEN j ELSE @]
  IN IF from = <<j, i>> THEN L
     ELSE IF added.mons[from[1]].switching THEN added
     ELSE [added EXCEPT !.mons[from[1]] = CleanUp(@)]

-----------------------------------------------------------------------------
(* Outputs that come and go.  The first monitor is the primary one.        *)

(* The workspaces the primary gives back, and those an output that goes    *)
(* leaves behind.                                                          *)
ReclaimedKept(m, out) == SelectSeq(m.wss, LAMBDA w : w.orig = out /\ MustBeKept(w))
Reclaimed(m, out) == SelectSeq(m.wss, LAMBDA w : w.orig = out)
IntoTiledWorkspaces(m) == SelectSeq(m.wss, LAMBDA w : w.persistent \/ w.wins # w.sticky)
IntoWorkspaces(m) == SelectSeq(m.wss, MustBeKept)

(* add_output: of what the primary gives back, the workspaces that must be *)
(* kept are shown on the new output.                                       *)
WithOutput(L, out) ==
  LET ident == InitialIdentity(L, out)
      id == NextId(L)
      primary == L.mons[1]
      back == Reclaimed(primary, out)
      ids == ToSet(Ids(back))
      below == {i \in 1..primary.active : primary.wss[i].id \in ids}
      left == [primary EXCEPT
                 !.wss = SelectSeq(@, LAMBDA w : w.id \notin ids),
                 !.order = SelectSeq(@, LAMBDA c : c \notin ids),
                 !.active = Max({1, @ - Cardinality(below)}),
                 !.switching = @ /\ back = <<>>]
      settled == IF primary.switching /\ back # <<>> THEN CleanUp(left) ELSE left
      monitor == NewMonitor(out, back, L.lastActive[out], ident, id)
      focused == L.mons[L.active].wss[L.mons[L.active].active]
      restored == MustBeKept(focused) /\ focused.id \in ids
  IN IF L.mons = <<>>
       THEN [L EXCEPT !.mons = <<NewMonitor(out, L.homeless, L.lastActive[out], ident, id)>>,
                      !.homeless = <<>>, !.active = 1, !.lastActive[out] = 0]
       ELSE [L EXCEPT
               !.mons = Append([@ EXCEPT ![1] = IF back = <<>> THEN settled
                                                ELSE Reap(settled, id + 1)],
                               Reap(monitor, 0)),
               !.active = IF restored THEN Len(L.mons) + 1 ELSE @,
               !.lastActive[out] = 0]

(* remove_output: workspaces with windows of their own go to the primary,  *)
(* sticky windows to the workspace it shows; the last output leaves        *)
(* everything to MonitorSet::NoOutputs.                                    *)
WithoutOutput(L, out) ==
  LET j == MonitorOf(L, out)
      gone == L.mons[j]
      shown == gone.wss[gone.active].id
      rest == RemoveAt(L.mons, j)
      kept == IntoWorkspaces(gone)
      moving == SelectSeq(kept, LAMBDA w : w.wins # w.sticky)
      roaming == UNION {w.sticky : w \in ToSet(kept) \ ToSet(moving)}
      primary == AppendWorkspaces(
                   [rest[1] EXCEPT !.wss[rest[1].active] = AddTo(@, roaming, roaming)],
                   moving)
      follow == L.active = j /\ IdxOf(primary, shown) # 0
      R == [L EXCEPT !.lastActive[out] = shown]
  IN IF rest = <<>>
       THEN [R EXCEPT !.mons = <<>>, !.homeless = kept, !.active = 0]
       ELSE [R EXCEPT
               !.mons = [rest EXCEPT ![1] =
                           IF follow THEN Reap([primary EXCEPT !.active = IdxOf(primary, shown)], 0)
                                     ELSE primary],
               !.active = IF follow THEN 1
                          ELSE IF @ >= j THEN Max({1, @ - 1}) ELSE @]

-----------------------------------------------------------------------------
(* Windows that go, and the scratchpad.                                    *)

IsHidden(L, win) == \E k \in DOMAIN L.pad : L.pad[k].win = win

(* clean_up_removed_window_workspace.                                      *)
CleanUpRemoved(m, id) ==
  LET one == ConsiderDestroy([m EXCEPT !.switching = FALSE], {id})
      empty == {i \in DOMAIN one.wss : ~HasWindows(one.wss[i])}
  IN Reap(IF Cardinality(empty) > 1 THEN ConsiderDestroy(one, {one.prev}) ELSE one, 0)

(* detach_window_inner, and what its callers do to the workspace it leaves. *)
Detach(L, win) ==
  LET p == PlaceOf(L, win)
      h == SelectInSeq(L.homeless, LAMBDA w : win \in w.wins)
      left == RemoveFrom(L.homeless[h], {win})
  IN IF p # <<0, 0>>
       THEN [L EXCEPT !.mons[p[1]] =
               CleanUpRemoved([@ EXCEPT !.wss[p[2]] = RemoveFrom(@, {win})], At(L, p).id)]
     ELSE IF h = 0 THEN L
     ELSE [L EXCEPT !.homeless = IF MustBeKept(left) THEN [@ EXCEPT ![h] = left]
                                                     ELSE RemoveAt(@, h)]

IsStickyWindow(L, win) == \E w \in AllWorkspaces(L) : win \in w.sticky

(* move_to_scratchpad.  padWins is `scratchpad_windows`, which also lists  *)
(* the windows shown again.                                                *)
Hide(L, win) ==
  IF IsHidden(L, win) \/ ~\E w \in AllWorkspaces(L) : win \in w.wins THEN L
  ELSE [Detach(L, win) EXCEPT
          !.pad = Append(@, [win |-> win, sticky |-> IsStickyWindow(L, win)]),
          !.padWins = IF win \in ToSet(@) THEN @ ELSE Append(@, win)]

(* show_scratchpad_tile, on the workspace that is shown.                   *)
ShowTile(L, k) ==
  IF k \notin DOMAIN L.pad \/ L.mons = <<>> THEN L
  ELSE LET tile == L.pad[k]
       IN [L EXCEPT !.pad = RemoveAt(@, k),
                    !.mons[L.active].wss[L.mons[L.active].active] =
                       AddTo(@, {tile.win}, IF tile.sticky THEN {tile.win} ELSE {})]

(* show_scratchpad for a window, or for none: the shown scratchpad window  *)
(* is hidden, or brought here when it is not the focused one; without one  *)
(* the window hidden longest is shown.                                     *)
ShowScratchpad(L, win, focus) ==
  LET onActive(v) == L.mons # <<>> /\ v \in L.mons[L.active].wss[L.mons[L.active].active].wins
      visible == SelectSeq(L.padWins, LAMBDA v : ~IsHidden(L, v))
      shown == IF focus # NoWindow /\ focus \in ToSet(visible) THEN focus
               ELSE IF visible = <<>> THEN NoWindow ELSE visible[1]
      target == IF win # NoWindow THEN win ELSE shown
      stays == IF win # NoWindow THEN onActive(win) ELSE focus # NoWindow /\ focus = shown
      H == Hide(L, target)
      at == SelectInSeq(H.pad, LAMBDA t : t.win = target)
  IN IF visible = <<>> /\ win = NoWindow THEN ShowTile(L, 1)
     ELSE IF stays THEN H
     ELSE ShowTile(H, IF at = 0 THEN 1 ELSE at)

(* remove_window.  A scratchpad window closed while it is shown stays in   *)
(* `scratchpad_windows` as the id of no window.                            *)
Close(L, win) ==
  LET stale == [k \in DOMAIN L.padWins |-> IF L.padWins[k] = win THEN NoWindow ELSE L.padWins[k]]
      once == SelectSeq(L.padWins, LAMBDA v : v # win)
  IN IF IsHidden(L, win)
       THEN [L EXCEPT !.pad = SelectSeq(@, LAMBDA t : t.win # win), !.padWins = once]
       ELSE [Detach(L, win) EXCEPT
               !.padWins = IF NoWindow \in ToSet(@) THEN once ELSE stale]

(* set_sticky: a window made sticky joins the shown workspace of its       *)
(* output, with the other sticky windows of the workspace it leaves.       *)
SetSticky(L, win, sticky) ==
  LET p == PlaceOf(L, win)
      m == L.mons[p[1]]
      flagged == [m EXCEPT !.wss[p[2]].sticky = IF sticky THEN @ \cup {win} ELSE @ \ {win}]
      all == flagged.wss[p[2]].sticky
      moved == [flagged EXCEPT !.wss = [@ EXCEPT ![p[2]] = RemoveFrom(@, all),
                                                 ![m.active] = AddTo(@, all, all)]]
  IN [L EXCEPT !.mons[p[1]] = IF ~sticky \/ p[2] = m.active THEN flagged
                              ELSE IF m.switching THEN moved ELSE CleanUp(moved)]

-----------------------------------------------------------------------------
(* Workspaces that are renamed, declared, and moved.                       *)

SetIdentity(wss, id, ident, persistent) ==
  [i \in DOMAIN wss |->
     IF wss[i].id = id THEN [wss[i] EXCEPT !.ident = ident, !.persistent = persistent]
     ELSE wss[i]]
Identified(L, id, ident, persistent) ==
  [L EXCEPT
     !.mons = [j \in DOMAIN @ |->
                 [@[j] EXCEPT !.wss = SetIdentity(@, id, ident, persistent)]],
     !.homeless = SetIdentity(@, id, ident, persistent)]

(* rename_sway_workspace_by_id.                                            *)
Rename(L, id, ident) ==
  LET stale(m) == {w.id : w \in {v \in Inactive(m) : /\ v.id \notin {id, m.prev}
                                                     /\ ~HasWindows(v)
                                                     /\ v.ident = ident}}
      D == [L EXCEPT !.mons = [j \in DOMAIN @ |->
              IF @[j].switching THEN @[j] ELSE ConsiderDestroy(@[j], stale(@[j]))]]
      N == Identified(D, id, ident, ident.name \in L.declared)
  IN IF Used(D, ident) THEN D
     ELSE [N EXCEPT
             !.homeless = SelectSeq(@, MustBeKept),
             !.mons = [j \in DOMAIN @ |->
                IF IdxOf(@[j], id) = 0 THEN @[j]
                ELSE [Sort(@[j]) EXCEPT !.prevName = IF N.mons[j].prev = id THEN ident ELSE @]]]

(* set_workspace_name.                                                     *)
SetWorkspaceName(L, id, name) ==
  LET N == Identified(L, id, Named(name), name \in L.declared)
  IN IF Used(L, Named(name)) THEN L
     ELSE [N EXCEPT !.mons = [j \in DOMAIN @ |-> Reap(@[j], 0)],
                    !.homeless = SelectSeq(@, MustBeKept)]

(* unname_workspace_by_id.                                                 *)
Unname(L, id) ==
  LET N == Identified(L, id, Anonymous, FALSE)
  IN [N EXCEPT
        !.mons = [j \in DOMAIN @ |-> IF IdxOf(@[j], id) = 0 \/ @[j].switching THEN @[j]
                                     ELSE CleanUp(@[j])],
        !.homeless = SelectSeq(@, LAMBDA w : w.id # id \/ HasWindows(w))]

(* ensure_named_workspace for a declared name.                             *)
EnsureNamed(L, name) ==
  LET out == OpenOn[name]
      j == IF out = NoOutput THEN L.active ELSE Max({1, MonitorOf(L, out)})
      orig == IF out = NoOutput /\ L.mons # <<>> THEN L.mons[j].out ELSE out
      w == Workspace(NextId(L), orig, Named(name), TRUE)
  IN IF Used(L, Named(name)) THEN L
     ELSE IF L.mons = <<>> THEN [L EXCEPT !.homeless = <<w>> \o @]
     ELSE [L EXCEPT !.mons[j] = Reap(CleanUp(AttachWorkspace(@, w, 1, FALSE)), 0)]

(* reload_config, as far as it concerns workspaces: the names no longer    *)
(* declared are taken off, the declared ones are made to exist.            *)
Reload(L, names) ==
  LET Orphan(acc, x) ==
        LET ws == {w \in AllWorkspaces(acc) : w.ident.name = x}
        IN IF ws = {} THEN acc ELSE Unname(acc, (CHOOSE w \in ws : TRUE).id)
      O == FoldLeft(Orphan, L, SetToSeq(L.declared \ names))
  IN FoldLeft(EnsureNamed, [O EXCEPT !.declared = names], SetToSeq(names))

(* move_workspace_to_output_by_id: to monitor j.  The command passes the   *)
(* old output, the native action does not (given).                         *)
MoveWorkspaceTo(L, c, id, given, j) ==
  LET m == L.mons[c]
      w == m.wss[IdxOf(m, id)]
      wasShown == m.wss[m.active].id = id
      activate == c = L.active /\ wasShown
      alone == {v \in ToSet(m.wss) : v.id = id \/ MustBeKept(v)} = {w}
      replace == (given \/ ~HasWindows(w)) /\ alone
      ident == IF given THEN InitialIdentity(L, m.out) ELSE FreeNumber(L)
      fresh == NextId(L)
      spare == SelectInSeq(m.wss, LAMBDA v : v.id # id /\ ~HasIdentity(v) /\ ~HasWindows(v))
      ready == IF ~replace THEN m
               ELSE IF spare # 0 THEN [m EXCEPT !.wss[spare].ident = ident]
               ELSE AddWorkspaceAt(m, 2, fresh, ident)
      out == DetachWorkspace(ready, id)
      kept == {i \in DOMAIN out.wss : MustBeKept(out.wss[i])}
      fallback == IF replace
                    THEN IdxOf(out, IF spare # 0 THEN m.wss[spare].id ELSE fresh)
                    ELSE Max({1} \cup kept)
      source == Reap(IF wasShown THEN [out EXCEPT !.active = fallback] ELSE out, fresh + 1)
      t == L.mons[j]
      target == Sort(AttachWorkspace(t, [w EXCEPT !.orig = t.out], t.active + 1, activate))
  IN IF c = j THEN [L EXCEPT !.mons[c].wss[IdxOf(m, id)].orig = m.out]
     ELSE [L EXCEPT !.mons[c] = CleanUp(source),
                    !.mons[j] = Reap(CleanUp(target), 0),
                    !.active = IF activate THEN j ELSE @]

(* move_workspace_up and move_workspace_down, i the index next to the      *)
(* shown workspace, and move_workspace_to_idx.                             *)
MoveWorkspaceBeside(m, i) ==
  LET swapped == [m EXCEPT !.wss = [@ EXCEPT ![m.active] = m.wss[i], ![i] = m.wss[m.active]]]
  IN Reap(CleanUp([Activate(swapped, i) EXCEPT
             !.switching = FALSE, !.prev = m.prev, !.prevName = m.prevName]), 0)
MoveWorkspaceToIdx(m, from, to) ==
  LET wss == InsertAt(RemoveAt(m.wss, from), to, m.wss[from])
  IN IF from = to THEN m
     ELSE Reap(CleanUp([m EXCEPT !.wss = wss, !.switching = FALSE,
                          !.active = SelectInSeq(wss, LAMBDA w : w.id = m.wss[m.active].id)]), 0)

(* resolve_move_workspace_target: a window sent to the workspace it is on  *)
(* goes back and forth.                                                    *)
MoveTarget(L, win, ident, auto) ==
  LET back == L.mons[L.active].prevName
  IN IF auto /\ At(L, PlaceOf(L, win)).ident = ident /\ back # Anonymous THEN back ELSE ident

(* refuse_sticky_move_on_same_output, for a name or a number.              *)
RefusesSticky(L, win, ident) ==
  LET p == PlaceOf(L, win)
      to == Find(L, ident)
  IN win \in At(L, p).sticky /\ p[1] = (IF to = <<0, 0>> THEN InitialMonitor(L, ident) ELSE to[1])

(* move_to_sway_workspace_inner, with the target resolved to a place.      *)
MoveWindowTo(L, win, p) ==
  LET from == PlaceOf(L, win)
  IN IF from = p THEN L
     ELSE IF from[1] # p[1] THEN MoveToOutput(L, win, p[1], p[2], FALSE)
     ELSE [L EXCEPT !.mons[p[1]] = MoveToWorkspace(@, win, At(L, p).id, FALSE)]

-----------------------------------------------------------------------------
(* The steps.                                                              *)

(* The bound on a state: workspaces and windows, workspaces without an     *)
(* identity, sticky and scratchpad windows, declared names, outputs that   *)
(* switch or remember a switch, and outputs whose return is prepared.      *)
Fits(L, wins) ==
  LET all == FoldLeft(LAMBDA acc, m : acc \o m.wss, L.homeless, L.mons)
      size == Len(all) + Cardinality(wins)
              + Cardinality({i \in DOMAIN all : ~HasIdentity(all[i])})
              + Cardinality(UNION {all[i].sticky : i \in DOMAIN all})
              + Len(L.padWins) + Cardinality(L.declared)
              + Cardinality({j \in DOMAIN L.mons : \/ L.mons[j].switching
                                                   \/ L.mons[j].prev # 0
                                                   \/ L.mons[j].prevName # Anonymous})
              + Cardinality({o \in Outputs : L.lastActive[o] # 0})
  IN /\ Len(all) <= MaxWorkspaces
     /\ \A i \in DOMAIN all : all[i].ident.number <= MaxNumber
     /\ size <= MaxSize

(* Ids are only compared, for equality and for age: the live ones are      *)
(* renumbered in their order, the others become 0.                         *)
Canonical(L) ==
  LET live == UNION {ToSet(Ids(wss)) : wss \in {L.homeless} \cup {L.mons[j].wss : j \in DOMAIN L.mons}}
      rank(id) == IF id \in live THEN Cardinality({c \in live : c <= id}) ELSE 0
      relabel(wss) == [i \in DOMAIN wss |-> [wss[i] EXCEPT !.id = rank(@)]]
  IN [L EXCEPT
        !.mons = [j \in DOMAIN @ |->
                    [@[j] EXCEPT !.wss = relabel(@),
                                 !.order = [k \in DOMAIN @ |-> rank(@[k])],
                                 !.prev = rank(@)]],
        !.homeless = relabel(@),
        !.lastActive = [o \in Outputs |-> rank(@[o])]]

(* The layout becomes new, with the windows wins mapped; a call that       *)
(* changes nothing is no step.                                             *)
Becomes(new, wins) ==
  \E L \in {new} :
    /\ L # layout \/ wins # open
    /\ Fits(L, wins)
    /\ layout' = Canonical(L)
    /\ open' = wins
Do(new) == Becomes(new, open)

Connected == {layout.mons[j].out : j \in DOMAIN layout.mons}
Shown == layout.mons[layout.active]
Placed(win) == PlaceOf(layout, win) # <<0, 0>>
Focusable == IF layout.mons = <<>> THEN {} ELSE Shown.wss[Shown.active].wins

AddOutput(out) == out \notin Connected /\ Do(WithOutput(layout, out))
RemoveOutput(out) == out \in Connected /\ Do(WithoutOutput(layout, out))

(* add_window: next to another window, on a workspace, on an output or on  *)
(* the shown workspace, activated or not.                                  *)
OpenWindow(win) ==
  /\ win \notin open
  /\ \E p \in Places(layout), activate \in BOOLEAN :
       Becomes([layout EXCEPT
                  !.mons[p[1]] = AddTile(@, p[2], win, {}, activate),
                  !.active = IF activate THEN p[1] ELSE @], open \cup {win})
OpenWindowNoOutputs(win) ==
  /\ win \notin open
  /\ layout.mons = <<>>
  /\ LET wss == IF layout.homeless # <<>> THEN layout.homeless
                ELSE <<Workspace(NextId(layout), NoOutput, Anonymous, FALSE)>>
     IN \E i \in DOMAIN wss :
          Becomes([layout EXCEPT !.homeless = [wss EXCEPT ![i] = AddTo(@, {win}, {})]],
                  open \cup {win})
CloseWindow(win) == win \in open /\ Becomes(Close(layout, win), open \ {win})

(* ensure_sway_workspace, for a window rule or an assignment.              *)
EnsureSwayWorkspace(ident) ==
  /\ layout.mons # <<>>
  /\ ~Used(layout, ident)
  /\ Do(CreateSwayWorkspace(layout, ident))

(* The workspace command.                                                  *)
Finished(ident) ==
  LET p == Find(layout, ident)
      target == IF p = <<0, 0>> THEN 0 ELSE At(layout, p).id
  IN [layout EXCEPT !.mons[layout.active] = FinishSwitch(@, target)]
WorkspaceCommand(ident, auto) ==
  /\ layout.mons # <<>>
  /\ Do(IF auto THEN AutoBackAndForth(Finished(ident), ident)
                ELSE ActivateSwayWorkspace(Finished(ident), ident))
WorkspaceBackAndForth ==
  layout.mons # <<>> /\ Do(BackAndForth(layout))
WorkspaceRelative(next, onOutput) ==
  /\ layout.mons # <<>>
  /\ LET F == Finished(Anonymous)
         p == IF onOutput THEN RelativeOnOutput(F, next) ELSE RelativePlace(F, next)
     IN Do(ActivateAt(F, p))

(* The native actions and the gestures that switch on one output.          *)
SwitchTo(i) ==
  /\ layout.mons # <<>>
  /\ i \in DOMAIN Shown.wss
  /\ LET P == Prepare(layout, layout.active, i)
         id == PreparedId(layout, layout.active, i)
     IN Do(SwitchWorkspace(P, IdxOf(P.mons[P.active], id)))
ActivateWindow(win) ==
  /\ Placed(win)
  /\ LET p == PlaceOf(layout, win)
     IN Do([layout EXCEPT !.active = p[1], !.mons[p[1]] = Activate(@, p[2])])
FocusOutputTo(j) == j \in DOMAIN layout.mons /\ Do(FocusOutput(layout, j))
AnimationDone(j) ==
  /\ j \in DOMAIN layout.mons
  /\ layout.mons[j].switching
  /\ Do([layout EXCEPT !.mons[j] = AdvanceAnimations(@)])

(* Windows that move.                                                      *)
MoveWindowToIdentity(win, ident, auto) ==
  /\ Placed(win)
  /\ LET to == MoveTarget(layout, win, ident, auto)
         C == IF Used(layout, to) THEN layout ELSE CreateSwayWorkspace(layout, to)
     IN /\ ~RefusesSticky(layout, win, to)
        /\ Do(MoveWindowTo(C, win, Find(C, to)))
MoveWindowRelative(win, next, onOutput) ==
  /\ Placed(win)
  /\ Do(MoveWindowTo(layout, win, IF onOutput THEN RelativeOnOutput(layout, next)
                                              ELSE RelativePlace(layout, next)))
MoveFocusedTo(win, i, activate) ==
  /\ win \in Focusable
  /\ i \in 1..Len(Shown.wss) + 1
  /\ LET j == layout.active
         new == i > Len(Shown.wss)
         P == IF new THEN CreateAt(layout, j, i, FreeNumber(layout)) ELSE Prepare(layout, j, i)
         id == IF new THEN NextId(layout) ELSE PreparedId(layout, j, i)
     IN Do([P EXCEPT !.mons[j] = MoveToWorkspace(@, win, id, activate)])
MoveWindowToOutput(win, j, activate) ==
  /\ Placed(win)
  /\ j \in DOMAIN layout.mons
  /\ Do(MoveToOutput(layout, win, j, layout.mons[j].active, activate))
SetStickyWindow(win, sticky) ==
  /\ Placed(win)
  /\ sticky # (win \in At(layout, PlaceOf(layout, win)).sticky)
  /\ Do(SetSticky(layout, win, sticky))

(* Workspaces that move, and their names.                                  *)
MoveWorkspaceToOutput(id, given, j) ==
  /\ j \in DOMAIN layout.mons
  /\ \E c \in DOMAIN layout.mons :
       /\ IdxOf(layout.mons[c], id) # 0
       /\ given \/ (c = layout.active /\ id = Shown.wss[Shown.active].id)
       /\ Do(MoveWorkspaceTo(layout, c, id, given, j))
MoveWorkspaceNext(up) ==
  /\ layout.mons # <<>>
  /\ LET i == IF up THEN Shown.active - 1 ELSE Shown.active + 1
     IN /\ i \in DOMAIN Shown.wss
        /\ Do([layout EXCEPT !.mons[layout.active] = MoveWorkspaceBeside(@, i)])
MoveWorkspaceToIndex(p, to) ==
  /\ p \in Places(layout)
  /\ to \in DOMAIN layout.mons[p[1]].wss
  /\ Do([layout EXCEPT !.mons[p[1]] = MoveWorkspaceToIdx(@, p[2], to)])
RenameWorkspace(id, ident) ==
  /\ \A j \in DOMAIN layout.mons : \A w \in Inactive(layout.mons[j]) :
       w.id = id => HasWindows(w)
  /\ Do(Rename(layout, id, ident))
NameWorkspace(id, name) == Do(SetWorkspaceName(layout, id, name))
UnnameWorkspace(id) == Do(Unname(layout, id))
ReloadConfig(names) == Do(Reload(layout, names))

(* set_window_floating: a window that tiles again is no scratchpad window. *)
TileWindow(win) ==
  /\ Placed(win)
  /\ LET p == PlaceOf(layout, win)
     IN Do([layout EXCEPT !.padWins = SelectSeq(@, LAMBDA v : v # win),
                          !.mons[p[1]].wss[p[2]].sticky = @ \ {win}])

HideWindow(win) == win \in open /\ Do(Hide(layout, win))
ShowScratchpadWindow(win, focus) == Do(ShowScratchpad(layout, win, focus))

Init ==
  /\ open = {}
  /\ layout = [mons |-> <<>>, active |-> 0, homeless |-> <<>>, declared |-> {},
               lastActive |-> [o \in Outputs |-> 0], pad |-> <<>>, padWins |-> <<>>]

Next ==
  \/ \E out \in Outputs : AddOutput(out) \/ RemoveOutput(out)
  \/ \E win \in Windows :
       \/ OpenWindow(win) \/ OpenWindowNoOutputs(win) \/ CloseWindow(win)
       \/ ActivateWindow(win) \/ HideWindow(win) \/ TileWindow(win)
       \/ \E ident \in Identities, auto \in BOOLEAN : MoveWindowToIdentity(win, ident, auto)
       \/ \E next, onOutput \in BOOLEAN : MoveWindowRelative(win, next, onOutput)
       \/ \E i \in 1..MaxWorkspaces + 1, activate \in BOOLEAN : MoveFocusedTo(win, i, activate)
       \/ \E j \in DOMAIN layout.mons, activate \in BOOLEAN : MoveWindowToOutput(win, j, activate)
       \/ \E sticky \in BOOLEAN : SetStickyWindow(win, sticky)
  \/ \E win \in {NoWindow} \cup ToSet(layout.padWins), focus \in {NoWindow} \cup Focusable :
       ShowScratchpadWindow(win, focus)
  \/ \E ident \in Identities :
       \/ EnsureSwayWorkspace(ident)
       \/ \E auto \in BOOLEAN : WorkspaceCommand(ident, auto)
  \/ WorkspaceBackAndForth
  \/ \E next, onOutput \in BOOLEAN : WorkspaceRelative(next, onOutput)
  \/ \E i \in 1..MaxWorkspaces : SwitchTo(i)
  \/ \E j \in DOMAIN layout.mons : FocusOutputTo(j) \/ AnimationDone(j)
  \/ \E w \in AllWorkspaces(layout) :
       \/ \E given \in BOOLEAN, j \in DOMAIN layout.mons : MoveWorkspaceToOutput(w.id, given, j)
       \/ \E ident \in Identities : RenameWorkspace(w.id, ident)
       \/ \E name \in Names : NameWorkspace(w.id, name)
       \/ UnnameWorkspace(w.id)
  \/ \E up \in BOOLEAN : MoveWorkspaceNext(up)
  \/ \E p \in Places(layout), to \in 1..MaxWorkspaces : MoveWorkspaceToIndex(p, to)
  \/ \E names \in SUBSET Declarable : ReloadConfig(names)

Spec == Init /\ [][Next]_vars

-----------------------------------------------------------------------------
(* Properties.                                                             *)

(* What Layout::verify_invariants and verify_workspace_lifecycle assert,   *)
(* after every step: the indices are in range, ids are unique, the order   *)
(* reported to clients lists every workspace once, an output that is not   *)
(* in the middle of a switch has no inactive workspace without windows and *)
(* identity, without outputs every workspace has a reason to be kept, and  *)
(* no assert! of consider_destroy_workspace has fired.                     *)
VerifyInvariants ==
  LET mons == layout.mons
      all == FoldLeft(LAMBDA acc, m : acc \o Ids(m.wss), Ids(layout.homeless), mons)
  IN /\ IF mons = <<>> THEN layout.active = 0
        ELSE layout.active \in DOMAIN mons /\ layout.homeless = <<>>
     /\ IsInjective(all)
     /\ \A i \in DOMAIN layout.homeless : MustBeKept(layout.homeless[i])
     /\ \A j \in DOMAIN mons :
          /\ ~mons[j].aborted
          /\ mons[j].active \in DOMAIN mons[j].wss
          /\ IsInjective(mons[j].order)
          /\ ToSet(mons[j].order) = ToSet(Ids(mons[j].wss))
          /\ mons[j].switching \/
             \A w \in Inactive(mons[j]) : MustBeKept(w) \/ HasIdentity(w)

(* No two workspaces, on any output or on none, have the same name or      *)
(* number, however they were created, renamed, declared or brought back.   *)
NamesUnique ==
  \A v, w \in AllWorkspaces(layout) : v.ident = w.ident /\ HasIdentity(v) => v = w

(* After any sequence of hotplugs and moves a workspace whose own output   *)
(* is connected is on that output, and an output other than the primary    *)
(* shows nobody else's workspaces.                                         *)
AtHome ==
  \A j \in DOMAIN layout.mons : \A w \in ToSet(layout.mons[j].wss) :
    /\ w.orig \in Connected => w.orig = layout.mons[j].out
    /\ j # 1 => w.orig = layout.mons[j].out

(* Hotplug, moves, the scratchpad, renames and reloads neither lose a      *)
(* window nor show it twice: every mapped window is on exactly one         *)
(* workspace or hidden once, and nothing else is anywhere.                 *)
WindowsKept ==
  LET ws == AllWorkspaces(layout)
      hidden == [k \in DOMAIN layout.pad |-> layout.pad[k].win]
  IN /\ UNION {w.wins : w \in ws} \cup ToSet(hidden) = open
     /\ IsInjective(hidden)
     /\ \A w \in ws : /\ w.sticky \subseteq w.wins
                      /\ w.wins \cap ToSet(hidden) = {}
                      /\ \A v \in ws \ {w} : v.wins \cap w.wins = {}

=============================================================================
