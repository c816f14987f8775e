---------------------------- MODULE MCCryptoLane ----------------------------
EXTENDS CryptoLane

CONSTANTS p1, p2
=============================================================================
