----------------------------- MODULE Sequential -----------------------------
(***************************************************************************)
(* What a program means: one instruction at a time, each with the operands  *)
(* its predecessors left, with delayed control transfer.  Instructions that *)
(* change nothing (nops) are not steps of their own.                        *)
(***************************************************************************)
EXTENDS RegFile

CONSTANTS
    Addresses,  \* where instructions can be
    Programs,   \* programs: functions from addresses to instructions
    Spare       \* more than a program has nops in a row

ASSUME ProgramAssumption ==
    /\ Addresses \subseteq Nat \ {0}
    /\ Spare \in Nat
    /\ Addresses \subseteq Stamps
    /\ Reset \in Stamps \ Addresses
    /\ \A p \in Programs :
           /\ DOMAIN p \subseteq Addresses
           /\ \A k \in DOMAIN p :
                  /\ p[k] \in Instruction
                  /\ \E j \in 0 .. Spare - 1 : k + j \in DOMAIN p => p[k + j].op # "nop"

VARIABLES
    prog,
    next,       \* [pc, npc]: the instruction to come, and its successor
    last        \* the last instruction: its address and its operands

seqVars == <<prog, next, last, globals, windowed, cwp, icc, y>>

InProgram(pc) == pc \in DOMAIN prog

(* z of the icc set by the instruction at address s. *)
Zero(s) == s \in DOMAIN prog /\ prog[s].zero

(* An instruction without effect leaves pc to npc, and npc to the next one. *)
Pass(n) == [pc |-> n.npc, npc |-> n.npc + 1]

(* Past the nops at n. *)
Settled(n) ==
    LET after[k \in 0 .. Spare] ==
            IF k = 0 THEN n
            ELSE IF InProgram(after[k - 1].pc) /\ prog[after[k - 1].pc].op = "nop"
                 THEN Pass(after[k - 1]) ELSE after[k - 1]
    IN after[Spare]

(* What follows instruction i at n, given z of the icc it sees: the delay    *)
(* slot, then the target or the next instruction; an annulled delay slot is  *)
(* passed.                                                                   *)
Follow(n, i, z) ==
    LET m == [pc |-> n.npc, npc |-> IF Taken(i, z) THEN i.target ELSE n.npc + 1]
    IN Settled(IF Annuls(i, z) THEN Pass(m) ELSE m)

(* The operands of i, by who wrote them. *)
Operands(i) ==
    [regs |-> [r \in Sources(i) |-> Read(r)],
     icc  |-> IF i.op = "be" THEN icc ELSE Reset,
     y    |-> IF i.op = "rdy" THEN y ELSE Reset]

(* The registers it writes. *)
Dests(i) == IF WritesReg(i)
            THEN {Dest(i)} \cup (IF WritesPair(i) THEN {Dest(i) + 1} ELSE {})
            ELSE {}

Turn(i) == IF i.op \in {"save", "restore"} THEN i.op ELSE "none"

SeqInit ==
    /\ prog \in Programs
    /\ next = Settled([pc |-> 1, npc |-> 2])
    /\ last = [pc |-> 0]
    /\ RegInit

(* SAVE and RESTORE write their result in the new window, all others in the  *)
(* current one.                                                              *)
SeqNext ==
    LET i == prog[next.pc]
        w == Turned(cwp, Turn(i))
    IN /\ InProgram(next.pc)
       /\ next' = Follow(next, i, Zero(icc))
       /\ last' = [pc |-> next.pc, operands |-> Operands(i)]
       /\ globals' = WriteGlobals(globals, Dests(i), next.pc)
       /\ windowed' = WriteWindow(windowed, Dests(i), next.pc, w)
       /\ icc' = IF WritesIcc(i) THEN next.pc ELSE icc
       /\ y' = IF WritesY(i) THEN next.pc ELSE y
       /\ cwp' = w
       /\ UNCHANGED prog

SeqSpec == SeqInit /\ [][SeqNext]_seqVars
=============================================================================
