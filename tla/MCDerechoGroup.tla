--------------------------- MODULE MCDerechoGroup ---------------------------
(* Instantiates DerechoGroup for TLC.                                      *)
EXTENDS DerechoGroup

\* Two members, each reserving up to MaxMsgs messages; a ring of four units
\* with window 2 lets a message of 2 units fill the ring exactly.
MCN == 2
MCBufferSize == 4
MCMsgSizes == {2}
=============================================================================
