--------------------------- MODULE MCMemorySystem ---------------------------
(***************************************************************************)
(* Small instances of MemorySystem.  All lines share one row, so every      *)
(* change of line evicts; "r" is the line that the reset value names.       *)
(***************************************************************************)
EXTENDS MemorySystem

MCSets == {"s0"}
MCSetOf == [l \in Lines |-> "s0"]
MCResetLine == [s \in MCSets |-> "r"]

(* All addresses below 1 MB; or one above it, which the cut moves.           *)
MCWhole == [l \in DataLines |-> l]
MCCut == [l \in DataLines |-> IF l = "top" THEN "d1" ELSE l]

MCInitRam == [l \in Lines |-> [w \in Word |-> "v0"]]
=============================================================================
