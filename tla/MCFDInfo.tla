------------------------------- MODULE MCFDInfo -------------------------------
EXTENDS FDInfo
CONSTANTS c1, c2, c3
TwoFds == {4, 5}
TwoClients == {c1, c2}
ThreeClients == {c1, c2, c3}
=============================================================================
