\* Every short expression in every place, and scripts that are written wrong.
SPECIFICATION Spec
CONSTANTS
  Component <- MCComponent
  Scripts <- MCScripts
INVARIANTS
  MeaningKept
  GraphWellFormed
  TypesFit
  AcceptedIsScoped
  ColumnsAreInputs
\* The compilation ends.
CHECK_DEADLOCK FALSE
