CONSTANTS
  Conns = {c1, c2}
  Names = {n1, n2}
  Objects = {o1, o2, o3}
  Handles = {h1, h2}
  Nil = Nil
  Forms <- MCForms
  MaxRequests = 4
SPECIFICATION Spec
INVARIANTS TablesAgree PathsFollow ExclusiveCreate
PROPERTIES ReadOnlyUnchanged NoLostFile
SYMMETRY Symmetry
CHECK_DEADLOCK FALSE
