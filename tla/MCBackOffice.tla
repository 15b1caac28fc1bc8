------------------------------- MODULE MCBackOffice -------------------------------
\* Instances of the parts of BackOffice for TLC.
EXTENDS BackOffice, TLC

CONSTANTS r1, r2, c1, c2

MCFileSlots == [Slots -> SlotKinds]

\* The handlers and the calls of every part are the same two model values.
Symmetry == Permutations({r1, r2}) \cup Permutations({c1, c2})
=============================================================================
