----------------------------- MODULE MCFloppy -----------------------------
(* Values of Floppy's constants for TLC.                                   *)
EXTENDS FloppyData

\* The driver chooses between two sectors, one of which is number 0.
MCSectors == {Write("SECTOR", 0), Write("SECTOR", 1)}
MCSector1 == {Write("SECTOR", 1)}
MCRegs    == {Write("SECTOR", 1), Write("TRACK", 1)}
=============================================================================
