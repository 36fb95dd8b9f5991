CONSTANTS
  Extractors = {e1, e2}
  Files = {m1, m2}
  Absent = Absent
  Empty = Empty
  Foreign = Foreign
  NoStaging = NoStaging
  MaxOthers = 3
SPECIFICATION ExtractSpec
SYMMETRY Symmetry
INVARIANTS NothingStaged
PROPERTIES PlacesAtomically
