CONSTANTS
  A = A
  B = B
  Outputs = {A, B}
  Windows = {w1, w2}
  Names = {"p"}
  Numbers = {1}
  Declarable = {"p"}
  OpenOn <- MCOpenOn
  NoOutput = NoOutput
  NoWindow = NoWindow
  MaxWorkspaces = 3
  MaxNumber = 2
  MaxSize = 4

SPECIFICATION Spec
SYMMETRY Symmetry
CHECK_DEADLOCK FALSE
INVARIANT
  VerifyInvariants
  NamesUnique
  AtHome
  WindowsKept
