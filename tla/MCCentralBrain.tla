--------------------------- MODULE MCCentralBrain ---------------------------
\* CentralBrain on small instances.
EXTENDS CentralBrain, TLC

\* Device 1 is the only parent of every other device.
Star == [d \in Devices |-> Devices \cap (IF d = 1 THEN {} ELSE {1})]

ThreadSymmetry == Permutations(Threads)
=============================================================================
