SPECIFICATION Spec
CONSTANTS
  MaxRows = 4
  RowHeight = 2
  Heights = {1, 2, 5}
  Sortable = {0, 2}
INVARIANTS
  ViewIsExact
  EditedIsSelected
PROPERTIES
  SelectionStaysOnView
  MissesOnlyUndrawn
