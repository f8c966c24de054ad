----------------------------- MODULE MCReadGate -----------------------------
EXTENDS ReadGate

CONSTANTS r1, r2, r3, r4, r5
=============================================================================
