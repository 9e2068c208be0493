SPECIFICATION Spec
CONSTANTS
  Slots = 3
  Viewers <- OneViewer
  Actors <- TwoOthers
  i1 = i1
  i2 = i2
  i3 = i3
  i4 = i4
  Index <- FourIndices
  Looks = {"T", "CT"}
  MaxSpawns = 6
SYMMETRY Interchangeable
INVARIANTS
  HiddenAreFiltered
  ClonesAreTheViewers
