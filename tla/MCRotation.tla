----------------------------- MODULE MCRotation -----------------------------
EXTENDS Rotation

TwoLegs == << 2, 1 >>
OneEach == << 1, 1 >>
=============================================================================
