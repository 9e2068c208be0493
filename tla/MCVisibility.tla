---------------------------- MODULE MCVisibility ----------------------------
EXTENDS Visibility, TLC

CONSTANTS i1, i2, i3, i4

OneViewer == {0}
TwoOthers == {1, 2}
FourIndices == {i1, i2, i3, i4}
Interchangeable == Permutations(FourIndices)

=============================================================================
