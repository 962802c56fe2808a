-------------------------------- MODULE MCCPU ---------------------------------
EXTENDS CPU
ThreeCores == {0, 1, 2}
TwoFrequencies == {1400, 3600}
=============================================================================
