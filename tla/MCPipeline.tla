----------------------------- MODULE MCPipeline -----------------------------
(***************************************************************************)
(* Small instances of Pipeline.  Two globals (r0, r1), two outs (r2, r3),   *)
(* two locals and two ins; CALL writes r3, a trap reads r1 to r3 and writes *)
(* r2.  A run starts with any program of a family, so one run checks        *)
(* thousands of programs with every timing of the caches.                   *)
(***************************************************************************)
EXTENDS Progress

MCTrapArgs == {1, 2, 3}
MCStamps == 0 .. 5
MCAddresses == 1 .. 5

Inst(op, rs1, rs2, rd) ==
    [op |-> op, rs1 |-> rs1, rs2 |-> rs2, rd |-> rd,
     annul |-> FALSE, target |-> 0, zero |-> FALSE]

Jump(op, annul, target) ==
    [Inst(op, 0, 0, 0) EXCEPT !.annul = annul, !.target = target]

Nop == Inst("nop", 0, 0, 0)
Alu == Inst("alu", 2, 1, 1)
CmpEqual == [Inst("cmp", 1, 2, 0) EXCEPT !.zero = TRUE]
CmpUnequal == Inst("cmp", 1, 2, 0)
Load == Inst("ld", 1, 0, 2)
Store == Inst("st", 1, 0, 2)

Family(letters, n) == {p \in [1 .. n -> letters] : Supported(p)}

(* Dependences through registers, pairs, icc and Y; system calls. *)
DataPrograms ==
    Family({Alu, Inst("alu", 3, 0, 4), Inst("ld", 4, 0, 3), Inst("ldd", 1, 0, 2),
            Inst("st", 1, 0, 2), Inst("std", 4, 0, 2)}, 4)
    \cup Family({Alu, Inst("ldd", 1, 0, 2), Inst("umul", 2, 1, 2), Inst("wry", 2, 0, 0),
                 Inst("rdy", 0, 0, 1), Inst("trap", 0, 0, 0), CmpEqual}, 4)

(* Branches with and without the annul bit, forwards and backwards; the call *)
(* leaves the program.                                                       *)
ControlPrograms ==
    Family({Nop, Alu, CmpEqual, CmpUnequal, Load, Jump("call", FALSE, 5),
            [Inst("jmpl", 1, 0, 2) EXCEPT !.target = 3]}
           \cup {Jump(op, annul, target) :
                    op \in {"ba", "be"}, annul \in BOOLEAN, target \in {1, 4}}, 4)

(* Register windows, with loads and stores as near as they may be. *)
WindowPrograms ==
    Family({Inst("save", 2, 0, 3), Inst("restore", 6, 2, 1), Inst("alu", 3, 4, 7),
            Load, Inst("alu", 6, 7, 2)}, 4)

(* One of each kind together: windows turned before, after and between       *)
(* branches, Y and icc across them.                                          *)
MixedPrograms ==
    Family({Inst("save", 2, 0, 3), Load, CmpEqual, Nop, Jump("be", TRUE, 1),
            Jump("be", TRUE, 4), Jump("ba", FALSE, 4),
            Inst("wry", 2, 0, 0), Inst("rdy", 0, 0, 1)}, 4)

MCPrograms == DataPrograms \cup ControlPrograms \cup WindowPrograms \cup MixedPrograms

(* Fewer programs for the run with fairness: loops, stalls and annulment.    *)
MCLivePrograms ==
    Family({Alu, CmpUnequal, Load, Jump("be", TRUE, 1), Jump("ba", FALSE, 4),
            Inst("save", 2, 0, 3)}, 4)

(* Programs for the runs that show what is not supported. *)
MCAnnulPrograms ==
    {<<Load, Jump("ba", TRUE, 4), Alu, Alu>>, <<Store, Jump("be", TRUE, 4), Alu, Alu>>}
MCTurnPrograms ==
    {<<Load, Inst("save", 2, 0, 3), Alu, Alu>>,
     <<Store, Inst("alu", 3, 4, 7), Inst("save", 2, 0, 3), Inst("alu", 6, 7, 2)>>}
=============================================================================
