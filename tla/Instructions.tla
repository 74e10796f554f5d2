---------------------------- MODULE Instructions ----------------------------
(***************************************************************************)
(* The instructions of the core, reduced to what the pipeline control can   *)
(* tell apart: their class, the registers they name and, for a control      *)
(* transfer, the annul bit and the target.  A class stands for all opcodes  *)
(* that InstructionDecode.sv, Execute.sv and Mem.sv treat alike.            *)
(***************************************************************************)
EXTENDS Naturals

CONSTANTS
    Globals,    \* global registers: 8, r0 to r7
    Half,       \* outs, locals and ins of a window: 8 of each
    Windows,    \* register windows: 32, or 2 (RegFile.sv:7)
    CallReg,    \* the register CALL writes: r15
    TrapReg,    \* the register a system call writes: r8
    TrapArgs    \* the registers it reads: r1 and r8 to r13

ASSUME RegisterAssumption ==
    /\ Globals \in Nat \ {0}
    /\ Half \in Nat \ {0}
    /\ Windows \in Nat \ {0, 1}

Reg == 0 .. Globals + 3 * Half - 1

ASSUME CallingConvention ==
    /\ CallReg \in Reg
    /\ TrapReg \in Reg
    /\ TrapArgs \subseteq Reg

(* nop is 0x01000000, the SETHI of %g0 that execute takes for a bubble; cmp  *)
(* stands for the instructions that only set icc, ba and be for the branches *)
(* that do not and do look at it.  FLUSH and STBAR, SWAP, LDSTUB, MULScc and *)
(* the divisions are in none of these classes.                               *)
Op == {"nop", "alu", "cmp", "ld", "ldd", "st", "std", "ba", "be", "call",
       "jmpl", "save", "restore", "umul", "rdy", "wry", "trap"}

(* rd is the destination, or what is stored; doubles use rd and rd + 1.      *)
Instruction ==
    {i \in [op : Op, rs1 : Reg, rs2 : Reg, rd : Reg,
            annul : BOOLEAN, target : Nat, zero : BOOLEAN] :
        i.op \in {"ldd", "std"} => i.rd + 1 \in Reg}

Branch(i)      == i.op \in {"ba", "be"}
Transfers(i)   == i.op \in {"ba", "be", "call", "jmpl"}
MemoryOp(i)    == i.op \in {"ld", "ldd", "st", "std"}

(* reg_write, reg_write_double, cc_write, Y_write of the decoder. *)
WritesReg(i)   == i.op \notin {"nop", "st", "std", "ba", "be", "wry"}
WritesPair(i)  == i.op = "ldd"
WritesIcc(i)   == i.op = "cmp"
WritesY(i)     == i.op \in {"umul", "wry"}

(* The destination decode passes on: CALL and traps name theirs implicitly.  *)
Dest(i) == CASE i.op = "call" -> CallReg
             [] i.op = "trap" -> TrapReg
             [] OTHER         -> i.rd

(* Registers whose contents the instruction depends on. *)
Sources(i) ==
    CASE i.op \in {"alu", "cmp", "umul", "restore"}   -> {i.rs1, i.rs2}
      [] i.op \in {"ld", "ldd", "jmpl", "save", "wry"} -> {i.rs1}
      [] i.op = "st"   -> {i.rs1, i.rd}
      [] i.op = "std"  -> {i.rs1, i.rd, i.rd + 1}
      [] i.op = "trap" -> TrapArgs
      [] OTHER         -> {}

(* Whether a transfer is taken and whether it annuls its delay slot (SPARC:  *)
(* the annul bit of a conditional branch counts when it is not taken).       *)
Taken(i, z) == i.op \in {"ba", "call", "jmpl"} \/ (i.op = "be" /\ z)
Annuls(i, z) == Branch(i) /\ i.annul /\ (i.op = "be" => ~z)
=============================================================================
