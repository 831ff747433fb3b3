----------------------------- MODULE MCAtomicWrite -----------------------------
EXTENDS AtomicWrite, TLC
CONSTANTS v, w
MCLength == (v :> 3) @@ (w :> 1)
================================================================================
