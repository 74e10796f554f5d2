------------------------------ MODULE RegFile -------------------------------
(***************************************************************************)
(* RegFile.sv: eight globals, a ring of overlapping register windows, the   *)
(* current window pointer, icc and Y.  Writes happen at the rising edge,    *)
(* through the window that is current before it; reads at the falling edge, *)
(* through the window that is current after it.  A register is told by what *)
(* wrote it last, so contents are elements of Stamps.                       *)
(***************************************************************************)
EXTENDS Instructions

CONSTANTS
    Stamps,     \* contents of a register
    Reset       \* the contents after a reset

VARIABLES
    globals,    \* GlobalGeneralRegister
    windowed,   \* GeneralRegister
    cwp,        \* PSR_CWP
    icc, y      \* PSR_icc, Y

Window == 0 .. Windows - 1
Cell == 0 .. 2 * Half * Windows - 1

RegTypeOK ==
    /\ globals \in [0 .. Globals - 1 -> Stamps]
    /\ windowed \in [Cell -> Stamps]
    /\ cwp \in Window
    /\ icc \in Stamps
    /\ y \in Stamps

RegInit ==
    /\ globals = [r \in 0 .. Globals - 1 |-> Reset]
    /\ windowed = [c \in Cell |-> Reset]
    /\ cwp = 1 % Windows
    /\ icc = Reset
    /\ y = Reset

(* Where register r of window w is kept: the outs of a window are the ins of *)
(* the window below it.                                                      *)
CellOf(r, w) == ((r - Globals) + 2 * Half * w) % (2 * Half * Windows)

Content(g, ws, r, w) == IF r < Globals THEN g[r] ELSE ws[CellOf(r, w)]

(* The falling edge. *)
Read(r) == Content(globals, windowed, r, cwp)

(* The rising edge: an instruction stamped s writes the registers in dsts    *)
(* (r0 is hard-wired).                                                       *)
WriteGlobals(g, dsts, s) ==
    [r \in DOMAIN g |-> IF r \in dsts \ {0} THEN s ELSE g[r]]

WriteWindow(ws, dsts, s, w) ==
    [c \in DOMAIN ws |->
        IF \E r \in dsts : r >= Globals /\ c = CellOf(r, w) THEN s ELSE ws[c]]

(* Faulty variant: cwp_inc without the wrap of the five-bit counter. *)
TurnedPastTheTop(w, turn) == CASE turn = "save"    -> (w + Windows - 1) % Windows
                               [] turn = "restore" -> w + 1
                               [] OTHER            -> w

(* cwp_dec and cwp_inc. *)
Turned(w, turn) == CASE turn = "save"    -> (w + Windows - 1) % Windows
                     [] turn = "restore" -> (w + 1) % Windows
                     [] OTHER            -> w

Write(dsts, s, setIcc, setY, turn) ==
    /\ globals' = WriteGlobals(globals, dsts, s)
    /\ windowed' = WriteWindow(windowed, dsts, s, cwp)
    /\ icc' = IF setIcc THEN s ELSE icc
    /\ y' = IF setY THEN s ELSE y
    /\ cwp' = Turned(cwp, turn)
=============================================================================
