CONSTANTS
  Windows = {w1, w2, w3}
  MaxSplits = 2
  MaxSize = 5
  MaxTreeDepth = 2
  Layouts = {"splith", "splitv", "tabbed"}
  WorkspaceLayout = "default"
  FocusWrapping = "yes"
  None = None

SPECIFICATION Spec
SYMMETRY Symmetry
CHECK_DEADLOCK FALSE
INVARIANT
  CheckInvariants
  LayoutKeepsOrder
  LayoutKeepsFullscreen
  DepthBound
  FocusFollowsMove
PROPERTY
  ImplementsWindowList
