--------------------------- MODULE PipelineProofs ---------------------------
(***************************************************************************)
(* Proofs about Pipeline for every program, supported or not, every size of *)
(* the register file and every timing of the caches: the hand-over from     *)
(* fetch to decode, the hand-over from decode to execute, and what becomes  *)
(* of a pipeline in which annul_in has frozen ex_ready.                     *)
(***************************************************************************)
EXTENDS Pipeline, Induction, TLAPS

(* Registers that are records. *)
FormInv ==
    /\ fetch = [st |-> fetch.st, pc |-> fetch.pc, item |-> fetch.item,
                branch |-> fetch.branch, seen |-> fetch.seen]
    /\ fetch.st \in {"A", "B", "C", "S"}
    /\ fetch.seen \in BOOLEAN
    /\ decode.st \in {"A", "B", "S"}
    /\ ex.st \in {"A", "B"}

(* IFIDReg is empty while decode is busy: it is filled only in STATEA, from  *)
(* a fetch that has nothing to show in the next cycle, and decode takes it   *)
(* at once.                                                                  *)
BusyInv == decode.st # "A" => ifid = None

(* An instruction in IFIDReg has just been shown by fetch, which is now in   *)
(* STATEA without an instruction, or has begun the next request.             *)
GivenInv ==
    ifid # None =>
        \/ fetch.st = "A" /\ fetch.item = None
        \/ fetch.st = "B" /\ ~fetch.seen

(* An instruction that fetch shows, or is about to show after a branch, has  *)
(* an idle decode before it.                                                 *)
ShowInv ==
    fetch.st \in {"A", "S"} /\ fetch.item # None => decode.st = "A" /\ ifid = None

HandOver == FormInv /\ BusyInv /\ GivenInv /\ ShowInv

LEMMA HandOverInit == PipeInit => HandOver
BY DEF PipeInit, HandOver, FormInv, BusyInv, GivenInv, ShowInv

(* decode goes to STATEA with nothing in IFIDReg, or passes on what it had.  *)
LEMMA DecodeNext ==
    ASSUME HandOver, NEW yBit \in BOOLEAN, DecodeStep(yBit)
    PROVE  /\ decode'.st \in {"A", "B", "S"}
           /\ Decoded = None => decode'.st = "A"
           /\ Passes(yBit) => decode'.st = "A"
<1>1. ~(Passes(yBit) /\ Stalls(yBit))
  BY DEF Passes
<1>2. Passes(yBit) => Decoded # None
  BY DEF Passes
<1>3. Stalls(yBit) => Decoded # None
  BY DEF Stalls
<1> QED BY <1>1, <1>2, <1>3 DEF DecodeStep

LEMMA FetchNext ==
    ASSUME HandOver, NEW ack \in BOOLEAN, FetchStep(ack), ack => fetch.st = "B" /\ fetch.seen
    PROVE  /\ fetch' = [st |-> fetch'.st, pc |-> fetch'.pc, item |-> fetch'.item,
                        branch |-> fetch'.branch, seen |-> fetch'.seen]
           /\ fetch'.st \in {"A", "B", "C", "S"}
           /\ fetch'.seen \in BOOLEAN
           /\ fetch.st = "A" => \/ fetch'.st = "A" /\ fetch'.item = None
                                \/ fetch'.st = "B" /\ ~fetch'.seen
           /\ fetch.st = "B" /\ fetch'.st \in {"A", "S"} => IdReady /\ fetch.seen
           /\ fetch.st = "C" /\ fetch'.st \in {"A", "S"} => IdReady
           /\ fetch.st = "S" => fetch'.st = "A" /\ fetch'.item = fetch.item
<1> USE DEF HandOver, FormInv
<1>1. CASE fetch.st = "A" /\ npc = fetch.pc
  BY <1>1 DEF FetchStep
<1>2. CASE fetch.st = "A" /\ npc # fetch.pc
  BY <1>2 DEF FetchStep
<1>3. CASE fetch.st = "B" /\ ~ack
  BY <1>3 DEF FetchStep
<1>4. CASE fetch.st = "B" /\ ack /\ IdReady
  BY <1>4 DEF FetchStep, Home
<1>5. CASE fetch.st = "B" /\ ack /\ ~IdReady
  BY <1>5 DEF FetchStep
<1>6. CASE fetch.st = "C" /\ IdReady
  BY <1>6 DEF FetchStep, Home
<1>7. CASE fetch.st = "C" /\ ~IdReady
  BY <1>7 DEF FetchStep
<1>8. CASE fetch.st = "S"
  BY <1>8 DEF FetchStep
<1> QED BY <1>1, <1>2, <1>3, <1>4, <1>5, <1>6, <1>7, <1>8

LEMMA HandOverStep == HandOver /\ [Tick]_vars => HandOver'
<1> SUFFICES ASSUME HandOver, [Tick]_vars PROVE HandOver'
  OBVIOUS
<1>1. CASE UNCHANGED vars
  BY <1>1 DEF vars, pipeVars, HandOver, FormInv, BusyInv, GivenInv, ShowInv
<1>2. CASE Tick
  <2>1. PICK iAck \in BOOLEAN, dAck \in BOOLEAN, yBit \in BOOLEAN : Cycle(iAck, dAck, yBit)
    BY <1>2 DEF Tick
  <2> USE DEF IdReady, IfReady
  <2>2. iAck => fetch.st = "B" /\ fetch.seen
    BY <2>1 DEF Cycle, InstructionAnswer
  <2>3. FetchStep(iAck) /\ DecodeStep(yBit) /\ ExStep /\ IfIdStep
    BY <2>1 DEF Cycle
  <2>4. /\ decode'.st \in {"A", "B", "S"}
        /\ Decoded = None => decode'.st = "A"
        /\ Passes(yBit) => decode'.st = "A"
    BY <2>3, DecodeNext
  <2>5. /\ fetch' = [st |-> fetch'.st, pc |-> fetch'.pc, item |-> fetch'.item,
                     branch |-> fetch'.branch, seen |-> fetch'.seen]
        /\ fetch'.st \in {"A", "B", "C", "S"}
        /\ fetch'.seen \in BOOLEAN
        /\ fetch.st = "A" => \/ fetch'.st = "A" /\ fetch'.item = None
                             \/ fetch'.st = "B" /\ ~fetch'.seen
        /\ fetch.st = "B" /\ fetch'.st \in {"A", "S"} => decode.st = "A" /\ fetch.seen
        /\ fetch.st = "C" /\ fetch'.st \in {"A", "S"} => decode.st = "A"
        /\ fetch.st = "S" => fetch'.st = "A" /\ fetch'.item = fetch.item
    BY <2>2, <2>3, FetchNext
  <2>6. ifid' = IF decode.st # "A" THEN ifid
                ELSE IF fetch.st = "A" THEN fetch.item ELSE None
    BY <2>3 DEF IfIdStep
  <2>7. decode.st = "A" => Decoded = ifid
    BY DEF Decoded
  <2>8. FormInv'
    BY <2>3, <2>4, <2>5 DEF FormInv, ExStep
  <2>9. BusyInv'
    BY <2>4, <2>6, <2>7 DEF HandOver, BusyInv, GivenInv
  <2>10. GivenInv'
    BY <2>5, <2>6 DEF HandOver, BusyInv, GivenInv
  <2>11. ShowInv'
    <3> SUFFICES ASSUME fetch'.st \in {"A", "S"}, fetch'.item # None
                 PROVE  decode'.st = "A" /\ ifid' = None
      BY DEF ShowInv
    <3>1. decode.st = "A" /\ ifid = None /\ fetch.st # "A"
      BY <2>5 DEF HandOver, FormInv, GivenInv, ShowInv
    <3> QED BY <3>1, <2>4, <2>6, <2>7
  <2> QED BY <2>8, <2>9, <2>10, <2>11 DEF HandOver
<1> QED BY <1>1, <1>2

THEOREM HandOverAlways == Spec => []HandOver
BY HandOverInit, HandOverStep, PTL DEF Spec

(* What fetch shows, decode takes: InstructionFetch.sv presents an           *)
(* instruction for one cycle and never again, having looked at id_ready      *)
(* before (ShownWhenTaken).                                                  *)
THEOREM NothingDropped == Spec => []ShownWhenTaken
<1>1. HandOver => ShownWhenTaken
  BY DEF HandOver, ShowInv, ShownWhenTaken, IdReady
<1> QED BY <1>1, HandOverAlways, PTL

-----------------------------------------------------------------------------
(* annul_in rises only from STATEA of execute, or when the memory stage is   *)
(* ready and execute goes back there.                                        *)
AnnulInv == ex.annul => ex.st = "A"

(* An instruction in IDEXReg is the only one that decode and IFIDReg had;    *)
(* when execute is not ready, waiting or frozen, there is none.              *)
BehindInv ==
    /\ idex # Bubble => decode.st = "A" /\ ifid = None
    /\ ex.annul /\ ~ex.ready => idex = Bubble
    /\ NothingBehindWaiting

LEMMA AnnulStep == [Tick]_vars /\ AnnulInv => AnnulInv'
<1> SUFFICES ASSUME [Tick]_vars, AnnulInv PROVE AnnulInv'
  OBVIOUS
<1>1. CASE UNCHANGED vars
  BY <1>1 DEF vars, pipeVars, AnnulInv
<1>2. CASE Tick
  <2>1. ExStep
    BY <1>2 DEF Tick, Cycle
  <2>2. /\ ex'.st = IF Working # Bubble /\ ~MemReady THEN "B" ELSE "A"
        /\ ex'.annul = AnnulOut
    BY <2>1 DEF ExStep
  <2>3. AnnulOut => Working = Bubble \/ MemReady
    BY DEF AnnulOut
  <2> QED BY <2>2, <2>3 DEF AnnulInv
<1> QED BY <1>1, <1>2

THEOREM AnnulAlways == Spec => []AnnulInv
<1>1. PipeInit => AnnulInv
  BY DEF PipeInit, AnnulInv
<1> QED BY <1>1, AnnulStep, PTL DEF Spec

LEMMA BehindStep ==
    HandOver /\ AnnulInv /\ BehindInv /\ [Tick]_vars => BehindInv'
<1> SUFFICES ASSUME HandOver, AnnulInv, BehindInv, [Tick]_vars PROVE BehindInv'
  OBVIOUS
<1> USE DEF NothingBehindWaiting
<1>1. CASE UNCHANGED vars
  BY <1>1 DEF vars, pipeVars, BehindInv
<1>2. CASE Tick
  <2>1. PICK iAck \in BOOLEAN, dAck \in BOOLEAN, yBit \in BOOLEAN : Cycle(iAck, dAck, yBit)
    BY <1>2 DEF Tick
  <2>2. DecodeStep(yBit) /\ ExStep /\ IfIdStep
    BY <2>1 DEF Cycle
  <2>3. ~ExReady => (ex.annul /\ ~ex.ready) \/ ex.st = "B"
    BY DEF ExReady, HandOver, FormInv
  <2>4. idex' = CASE ~ExReady     -> idex
                  [] Passes(yBit) -> [pc |-> Decoded, operands |-> Operands(prog[Decoded])]
                  [] OTHER        -> Bubble
    BY <2>2 DEF DecodeStep
  <2>5. Passes(yBit) => ExReady /\ Decoded # None /\ decode'.st = "A"
    BY <2>2, DecodeNext DEF Passes
  <2>6. ~ExReady => idex' = idex /\ idex = Bubble
    <3>1. ~ExReady => idex' = idex
      BY <2>4 DEF Passes
    <3>2. ~ExReady => idex = Bubble
      BY <2>3 DEF BehindInv
    <3> QED BY <3>1, <3>2
  <2>7. ExReady /\ ~Passes(yBit) => idex' = Bubble
    BY <2>4
  <2>8. idex' # Bubble => Passes(yBit)
    BY <2>6, <2>7
  <2>9. ifid' = IF decode.st # "A" THEN ifid
                ELSE IF fetch.st = "A" THEN fetch.item ELSE None
    BY <2>2 DEF IfIdStep, IdReady, IfReady
  <2>10. decode.st = "A" => Decoded = ifid
    BY DEF Decoded, IdReady
  <2>11. Passes(yBit) => decode'.st = "A" /\ ifid' = None
    BY <2>5, <2>9, <2>10 DEF HandOver, BusyInv, GivenInv
  <2>12. ex'.st = IF Working # Bubble /\ ~MemReady THEN "B" ELSE "A"
    BY <2>2 DEF ExStep
  <2>13. ex'.st = "B" => idex' = Bubble
    <3>0. ex.st = "B" => ~ExReady
      BY DEF ExReady, AnnulInv
    <3> SUFFICES ASSUME ex'.st = "B", ex.st = "A" PROVE ~Passes(yBit)
      BY <2>6, <2>8, <3>0 DEF HandOver, FormInv
    <3>1. idex # Bubble
      BY <2>12 DEF Working
    <3>2. Decoded = None
      BY <3>1, <2>10 DEF BehindInv
    <3> QED BY <3>2, <2>5
  <2>14. ex'.annul /\ ~ex'.ready => idex' = Bubble
    BY <2>2, <2>6 DEF ExStep
  <2> QED BY <2>8, <2>11, <2>13, <2>14 DEF BehindInv
<1> QED BY <1>1, <1>2

(* IDEXReg is taken over by every new output of decode: while an instruction *)
(* waits in execute for the memory stage there is none in it that could be   *)
(* lost (NothingBehindWaiting), annulling branches included.                 *)
THEOREM NothingReplaced == Spec => []NothingBehindWaiting
<1>1. PipeInit => BehindInv
  BY DEF PipeInit, BehindInv, NothingBehindWaiting
<1>2. BehindInv => NothingBehindWaiting
  BY DEF BehindInv
<1> QED BY <1>1, <1>2, BehindStep, HandOverAlways, AnnulAlways, PTL DEF Spec

-----------------------------------------------------------------------------
(* annul_in is up, the latch holds ex_ready low, and there is no instruction *)
(* in execute that could take annul_in down again.                           *)
Frozen == ex.annul /\ ~ex.ready /\ ex.st = "A" /\ idex = Bubble

LEMMA FrozenStep == Frozen /\ [Tick]_vars => Frozen'
<1> SUFFICES ASSUME Frozen, [Tick]_vars PROVE Frozen'
  OBVIOUS
<1>1. CASE UNCHANGED vars
  BY <1>1 DEF vars, pipeVars, Frozen
<1>2. CASE Tick
  <2>1. PICK yBit \in BOOLEAN : DecodeStep(yBit) /\ ExStep
    BY <1>2 DEF Tick, Cycle
  <2>2. ~ExReady /\ Working = Bubble /\ AnnulOut
    BY DEF Frozen, ExReady, Working, AnnulOut
  <2>3. idex' = Bubble
    <3>1. idex' = CASE ~ExReady     -> idex
                    [] Passes(yBit) -> [pc |-> Decoded, operands |-> Operands(prog[Decoded])]
                    [] OTHER        -> Bubble
      BY <2>1 DEF DecodeStep
    <3>2. idex' = idex
      BY <3>1, <2>2 DEF Passes
    <3> QED BY <3>2 DEF Frozen
  <2>4. ex'.annul = AnnulOut /\ ex'.ready = ExReady /\ ex'.st = "A"
    BY <2>1, <2>2 DEF ExStep
  <2> QED BY <2>2, <2>3, <2>4 DEF Frozen
<1> QED BY <1>1, <1>2

(* What NeverFrozen rules out is for ever: nothing but a reset lets decode   *)
(* pass an instruction to execute again.                                     *)
THEOREM FrozenForEver == Spec => [](Frozen => []Frozen)
BY FrozenStep, PTL DEF Spec

-----------------------------------------------------------------------------
(* Types. *)

Point == [pc : Nat, npc : Nat]

(* Nops are passed. *)
LEMMA SettledPoint ==
    ASSUME NEW n \in Point
    PROVE  Settled(n) \in Point
<1> DEFINE Nop(m) == InProgram(m.pc) /\ prog[m.pc].op = "nop"
           g == [p \in Nat \X Point |-> IF Nop(p[2]) THEN Pass(p[2]) ELSE p[2]]
           Good(f) == f = [k \in 0 .. Spare |->
                              IF k = 0 THEN n
                              ELSE IF InProgram(f[k - 1].pc) /\ prog[f[k - 1].pc].op = "nop"
                                   THEN Pass(f[k - 1]) ELSE f[k - 1]]
           after == CHOOSE f : Good(f)
<1>1. Spare \in Nat
  BY ProgramAssumption
<1>2. \A m \in Point : Pass(m) \in Point
  BY DEF Pass, Point
<1>3. IsRule(g, Point)
  BY <1>2 DEF IsRule
<1>4. \A i \in Nat, m \in Point : g[<<i, m>>] = IF Nop(m) THEN Pass(m) ELSE m
  OBVIOUS
<1>5. Settled(n) = after[Spare]
  BY DEF Settled
<1> HIDE DEF g, after
<1>6. PICK f : RecursesUpTo(f, Spare, Point, n, g)
  BY <1>1, <1>3, RecursionUpTo
<1>7. \A k \in 0 .. Spare :
          f[k] = IF k = 0 THEN n
                 ELSE IF InProgram(f[k - 1].pc) /\ prog[f[k - 1].pc].op = "nop"
                      THEN Pass(f[k - 1]) ELSE f[k - 1]
  <2> TAKE k \in 0 .. Spare
  <2>1. f[k] = IF k = 0 THEN n ELSE g[<<k - 1, f[k - 1]>>]
    BY <1>6 DEF RecursesUpTo
  <2>2. CASE k = 0
    BY <2>1, <2>2
  <2>3. CASE k # 0
    <3>1. k - 1 \in Nat /\ f[k - 1] \in Point
      <4>1. k - 1 \in Nat /\ k - 1 \in 0 .. Spare
        BY <1>1, <2>3
      <4>2. f \in [0 .. Spare -> Point]
        BY <1>6 DEF RecursesUpTo
      <4> QED BY <4>1, <4>2
    <3>2. g[<<k - 1, f[k - 1]>>] = IF Nop(f[k - 1]) THEN Pass(f[k - 1]) ELSE f[k - 1]
      BY <1>4, <3>1
    <3> QED BY <2>1, <2>3, <3>2
  <2> QED BY <2>2, <2>3
<1>8. Good(f)
  BY <1>6, <1>7 DEF RecursesUpTo
<1>9. Good(after)
  BY <1>8 DEF after
<1>10. \A k \in 0 .. Spare :
          after[k] = IF k = 0 THEN n
                     ELSE IF Nop(after[k - 1]) THEN Pass(after[k - 1]) ELSE after[k - 1]
  BY <1>9
<1> DEFINE S == {k \in Nat : k <= Spare => after[k] \in Point}
<1>11. S \in SUBSET Nat /\ 0 \in S
  BY <1>1, <1>10
<1>12. ASSUME NEW k \in S PROVE k + 1 \in S
  <2>1. k \in Nat /\ (k <= Spare => after[k] \in Point)
    OBVIOUS
  <2>2. SUFFICES ASSUME k + 1 <= Spare PROVE after[k + 1] \in Point
    BY <2>1
  <2>3. k + 1 \in 0 .. Spare /\ k + 1 # 0 /\ (k + 1) - 1 = k /\ after[k] \in Point
    BY <1>1, <2>1, <2>2
  <2>4. after[k + 1] = IF Nop(after[k]) THEN Pass(after[k]) ELSE after[k]
    BY <1>10, <2>3
  <2> QED BY <1>2, <2>3, <2>4
<1> HIDE DEF S
<1>13. S = Nat
  BY <1>11, <1>12, Induction
<1> QED BY <1>1, <1>5, <1>13 DEF S

(* Programs hold instructions, and their addresses are stamps.               *)
LEMMA InstructionAt ==
    ASSUME TypeOK, NEW a, InProgram(a)
    PROVE  a \in Nat \ {0} /\ a \in Stamps /\ prog[a] \in Instruction
BY ProgramAssumption DEF TypeOK, InProgram

LEMMA SlotAt ==
    ASSUME TypeOK, NEW s, IsSlot(s), s # Bubble
    PROVE  /\ InProgram(s.pc)
           /\ s.pc \in Stamps /\ At(s) \in Instruction
           /\ s.operands.icc \in Stamps
BY InstructionAt DEF IsSlot, At

LEMMA CellInRange ==
    ASSUME NEW r \in Nat, r >= Globals, NEW w \in Window
    PROVE  CellOf(r, w) \in Cell
<1> DEFINE size == 2 * Half * Windows
           k == (r - Globals) + 2 * Half * w
<1>1. Half \in Nat \ {0} /\ Windows \in Nat \ {0} /\ w \in Nat
  BY RegisterAssumption DEF Window
<1>2. size \in Nat /\ size > 0
  <2>1. Half * Windows \in Nat /\ Half * Windows > 0
    BY <1>1
  <2> QED BY <1>1, <2>1
<1>3. k \in Nat
  <2>1. 2 * Half * w \in Nat
    BY <1>1
  <2>2. r - Globals \in Nat
    BY RegisterAssumption
  <2> QED BY <2>1, <2>2
<1>4. CellOf(r, w) = k % size /\ Cell = 0 .. size - 1
  BY DEF CellOf, Cell
<1> HIDE DEF k, size
<1>5. k % size \in 0 .. size - 1
  BY <1>2, <1>3
<1> QED BY <1>4, <1>5

LEMMA SourcesAreRegisters ==
    ASSUME NEW i \in Instruction
    PROVE  Sources(i) \subseteq Reg
<1>1. i.rs1 \in Reg /\ i.rs2 \in Reg /\ i.rd \in Reg /\ (i.op = "std" => i.rd + 1 \in Reg)
  BY DEF Instruction
<1>2. TrapArgs \subseteq Reg
  BY CallingConvention
<1> HIDE DEF Reg
<1> QED BY <1>1, <1>2 DEF Sources

(* What an instruction reads are stamps. *)
LEMMA OperandTypes ==
    ASSUME RegTypeOK, Reset \in Stamps, NEW i \in Instruction
    PROVE  Operands(i) \in [regs : [Sources(i) -> Stamps], icc : Stamps, y : Stamps]
<1>1. ASSUME NEW r \in Sources(i) PROVE Read(r) \in Stamps
  <2>1. r \in Nat
    BY SourcesAreRegisters DEF Reg
  <2>2. CASE r < Globals
    <3>1. r \in 0 .. Globals - 1
      BY <2>1, <2>2, RegisterAssumption
    <3> QED BY <2>2, <3>1 DEF Read, Content, RegTypeOK
  <2>3. CASE ~(r < Globals)
    <3>1. r >= Globals
      BY <2>1, <2>3, RegisterAssumption
    <3>2. CellOf(r, cwp) \in Cell
      BY <2>1, <3>1, CellInRange DEF RegTypeOK
    <3> QED BY <2>3, <3>2 DEF Read, Content, RegTypeOK
  <2> QED BY <2>2, <2>3
<1>2. [r \in Sources(i) |-> Read(r)] \in [Sources(i) -> Stamps]
  BY <1>1
<1>3. icc \in Stamps /\ y \in Stamps
  BY DEF RegTypeOK
<1> QED BY <1>2, <1>3 DEF Operands

LEMMA TurnInRange ==
    ASSUME NEW w \in Window, NEW turn
    PROVE  Turned(w, turn) \in Window
<1>1. Windows \in Nat \ {0} /\ w \in Nat /\ w < Windows
  BY RegisterAssumption DEF Window
<1>2. (w + Windows - 1) % Windows \in 0 .. Windows - 1
  <2> DEFINE k == w + Windows - 1
  <2>1. k \in Nat
    BY <1>1
  <2> HIDE DEF k
  <2>2. k % Windows \in 0 .. Windows - 1
    BY <1>1, <2>1
  <2> QED BY <2>2 DEF k
<1>3. (w + 1) % Windows \in 0 .. Windows - 1
  <2> DEFINE k == w + 1
  <2>1. k \in Nat
    BY <1>1
  <2> HIDE DEF k
  <2>2. k % Windows \in 0 .. Windows - 1
    BY <1>1, <2>1
  <2> QED BY <2>2 DEF k
<1> QED BY <1>2, <1>3 DEF Turned, Window

(* The register file keeps its types whatever is written.                    *)
LEMMA WriteTypes ==
    ASSUME RegTypeOK, NEW dsts, NEW s \in Stamps, NEW setIcc, NEW setY, NEW turn,
           Write(dsts, s, setIcc, setY, turn)
    PROVE  RegTypeOK'
<1>1. globals' \in [0 .. Globals - 1 -> Stamps]
  BY DEF RegTypeOK, Write, WriteGlobals
<1>2. windowed' \in [Cell -> Stamps]
  BY DEF RegTypeOK, Write, WriteWindow
<1>3. icc' \in Stamps /\ y' \in Stamps
  BY DEF RegTypeOK, Write
<1>4. cwp' \in Window
  BY TurnInRange DEF RegTypeOK, Write
<1> QED BY <1>1, <1>2, <1>3, <1>4 DEF RegTypeOK

LEMMA TypeInit == PipeInit => TypeOK
<1> SUFFICES ASSUME PipeInit PROVE TypeOK
  OBVIOUS
<1>1. Reset \in Stamps
  BY ProgramAssumption
<1>2. 1 % Windows \in Window
  BY RegisterAssumption DEF Window
<1>3. RegTypeOK
  BY <1>1, <1>2 DEF PipeInit, RegInit, RegTypeOK
<1>4. next \in [pc : Nat, npc : Nat]
  BY SettledPoint DEF PipeInit, Point
<1>5. acwp \in Window
  BY <1>3 DEF PipeInit, RegTypeOK
<1>6. IsSlot(Bubble) /\ last = Bubble /\ IsItem(None)
  BY DEF PipeInit, IsSlot, IsItem, Bubble
<1> HIDE DEF Bubble
<1> QED BY <1>3, <1>4, <1>5, <1>6 DEF PipeInit, TypeOK, None

(* TypeOK by stages, to be prevented from being split at once.               *)
FetchType ==
    /\ fetch \in [st : {"A", "B", "C", "S"}, pc : Nat, item : Nat, branch : BOOLEAN, seen : BOOLEAN]
    /\ IsItem(fetch.item)
    /\ npc \in Nat
    /\ IsItem(ifid)

DecodeType ==
    /\ decode \in [st : {"A", "B", "S"}, item : Nat] /\ IsItem(decode.item)
    /\ IsSlot(idex)

ExecuteType ==
    /\ ex = [st |-> ex.st, slot |-> ex.slot, annul |-> ex.annul, ready |-> ex.ready]
    /\ ex.st \in {"A", "B"} /\ IsSlot(ex.slot)
    /\ ex.annul \in BOOLEAN /\ ex.ready \in BOOLEAN
    /\ IsSlot(exmem)

MemoryType ==
    /\ mem = [st |-> mem.st, slot |-> mem.slot, seen |-> mem.seen]
    /\ mem.st \in {"A", "B"} /\ IsSlot(mem.slot) /\ mem.seen \in BOOLEAN
    /\ memwb = [slot |-> memwb.slot, pair |-> memwb.pair]
    /\ IsSlot(memwb.slot) /\ memwb.pair \in BOOLEAN

RetireType ==
    /\ RegTypeOK
    /\ next \in [pc : Nat, npc : Nat]
    /\ IsSlot(last)
    /\ acwp \in Window

LEMMA TypeParts ==
    TypeOK <=> /\ prog \in Programs
               /\ FetchType /\ DecodeType /\ ExecuteType /\ MemoryType /\ RetireType
BY Zenon DEF TypeOK, FetchType, DecodeType, ExecuteType, MemoryType, RetireType

LEMMA FetchTypeStep ==
    ASSUME TypeOK, prog' = prog, NEW ack \in BOOLEAN, ack => InstructionAnswer,
           FetchStep(ack), NpcStep, IfIdStep
    PROVE  FetchType'
<1>1. FetchType /\ ExecuteType /\ DecodeType
  BY TypeParts
<1>2. \A a : IsItem(a) => a \in Nat /\ (a = None \/ a \in DOMAIN prog)
  BY InstructionAt DEF IsItem, InProgram, None
<1>3. /\ fetch \in [st : {"A", "B", "C", "S"}, pc : Nat, item : Nat, branch : BOOLEAN, seen : BOOLEAN]
      /\ IsItem(fetch.item) /\ npc \in Nat /\ IsItem(ifid)
  BY <1>1 DEF FetchType
<1>4. ack => IsItem(Fetched) /\ Fetched \in Nat /\ fetch.st = "B"
  BY <1>3 DEF InstructionAnswer, IsItem, Fetched, None
<1>5. \A a : Branchy(a) \in BOOLEAN
  BY DEF Branchy
<1>6. ASSUME NEW a \in Nat, IsItem(a)
      PROVE  /\ Home(a) \in [st : {"A", "B", "C", "S"}, pc : Nat, item : Nat,
                             branch : BOOLEAN, seen : BOOLEAN]
             /\ Home(a).item = a
  BY <1>3, <1>5, <1>6 DEF Home
<1>7. /\ fetch' \in [st : {"A", "B", "C", "S"}, pc : Nat, item : Nat, branch : BOOLEAN, seen : BOOLEAN]
      /\ IsItem(fetch'.item)
  <2>0. IsItem(None) /\ None \in Nat
    BY DEF IsItem, None
  <2> HIDE DEF None
  <2>1. CASE fetch.st = "A" /\ npc = fetch.pc
    BY <1>3, <2>0, <2>1 DEF FetchStep
  <2>2. CASE fetch.st = "A" /\ npc # fetch.pc
    BY <1>3, <2>2 DEF FetchStep
  <2>3. CASE fetch.st = "B" /\ ~ack
    BY <1>3, <2>3 DEF FetchStep
  <2>4. CASE fetch.st = "B" /\ ack /\ IdReady
    <3>1. fetch' = Home(Fetched)
      BY <2>4 DEF FetchStep
    <3> QED BY <1>4, <1>6, <2>4, <3>1
  <2>5. CASE fetch.st = "B" /\ ack /\ ~IdReady
    <3>1. fetch' = [fetch EXCEPT !.st = "C", !.item = Fetched]
      BY <2>5 DEF FetchStep
    <3> QED BY <1>3, <1>4, <2>5, <3>1
  <2>6. CASE fetch.st = "C" /\ IdReady
    <3>1. fetch' = Home(fetch.item)
      BY <2>6 DEF FetchStep
    <3> QED BY <1>3, <1>6, <3>1
  <2>7. CASE fetch.st = "C" /\ ~IdReady
    BY <1>3, <2>7 DEF FetchStep
  <2>8. CASE fetch.st = "S"
    BY <1>3, <2>8 DEF FetchStep
  <2> QED BY <1>3, <2>1, <2>2, <2>3, <2>4, <2>5, <2>6, <2>7, <2>8
<1>8. IsItem(ifid')
  <2>1. ifid' \in {ifid, fetch.item, None}
    BY DEF IfIdStep
  <2> QED BY <1>3, <2>1 DEF IsItem
<1>9. npc' \in Nat
  <2>1. CASE MuxSel
    <3>1. npc' = At(ExOut).target
      BY <2>1 DEF NpcStep
    <3>2. ExOut # Bubble
      BY <2>1 DEF MuxSel
    <3>3. ExOut = Working /\ IsSlot(Working)
      BY <1>1, <3>2 DEF ExOut, Working, ExecuteType, DecodeType
    <3>4. At(ExOut) \in Instruction
      BY <3>2, <3>3, SlotAt
    <3> QED BY <3>1, <3>4 DEF Instruction
  <2>2. CASE ~MuxSel
    BY <1>3, <2>2 DEF NpcStep
  <2> QED BY <2>1, <2>2
<1> QED BY <1>7, <1>8, <1>9 DEF FetchType, IsItem, InProgram

LEMMA DecodeTypeStep ==
    ASSUME TypeOK, prog' = prog, NEW yBit \in BOOLEAN, DecodeStep(yBit)
    PROVE  DecodeType'
<1>1. FetchType /\ DecodeType /\ RetireType
  BY TypeParts
<1>2. IsItem(Decoded)
  BY <1>1 DEF Decoded, FetchType, DecodeType
<1>3. Decoded \in Nat
  BY <1>2, InstructionAt DEF IsItem, None
<1>4. decode'.st \in {"A", "B", "S"} /\ decode'.item = Decoded
      /\ decode' = [st |-> decode'.st, item |-> decode'.item]
  <2>1. ~(Passes(yBit) /\ Stalls(yBit)) /\ (Passes(yBit) => Decoded # None)
        /\ (Stalls(yBit) => Decoded # None)
    BY DEF Passes, Stalls
  <2> QED BY <2>1 DEF DecodeStep
<1>5. idex' = CASE ~ExReady     -> idex
                [] Passes(yBit) -> [pc |-> Decoded, operands |-> Operands(prog[Decoded])]
                [] OTHER        -> Bubble
  BY DEF DecodeStep
<1>6. Passes(yBit) => ExReady /\ Decoded # None
  BY DEF Passes
<1>7. IsSlot(idex')
  <2>1. CASE ~ExReady
    <3>1. idex' = idex
      BY <1>5, <1>6, <2>1
    <3> QED BY <1>1, <3>1 DEF DecodeType
  <2>2. CASE Passes(yBit)
    <3>1. idex' = [pc |-> Decoded, operands |-> Operands(prog[Decoded])]
      BY <1>5, <1>6, <2>2
    <3>2. InProgram(Decoded)
      BY <1>2, <1>6, <2>2 DEF IsItem
    <3>3. Operands(prog[Decoded]) \in
              [regs : [Sources(prog[Decoded]) -> Stamps], icc : Stamps, y : Stamps]
      BY <1>1, <3>2, InstructionAt, OperandTypes, ProgramAssumption DEF RetireType
    <3> HIDE DEF Operands
    <3> QED BY <3>1, <3>2, <3>3 DEF IsSlot
  <2>3. CASE ExReady /\ ~Passes(yBit)
    <3>1. idex' = Bubble
      BY <1>5, <2>3
    <3> QED BY <3>1 DEF IsSlot
  <2> QED BY <2>1, <2>2, <2>3
<1>8. IsItem(decode'.item) /\ decode'.item \in Nat
  BY <1>2, <1>3, <1>4
<1> QED BY <1>4, <1>7, <1>8 DEF DecodeType, IsItem, IsSlot, InProgram

LEMMA ExecuteTypeStep ==
    ASSUME TypeOK, prog' = prog, ExStep
    PROVE  ExecuteType'
<1>1. DecodeType /\ ExecuteType
  BY TypeParts
<1>2. IsSlot(Working) /\ IsSlot(Bubble)
  BY <1>1 DEF Working, DecodeType, ExecuteType, IsSlot
<1>3. IsSlot(ExOut)
  BY <1>2 DEF ExOut
<1>4. AnnulOut \in BOOLEAN /\ ExReady \in BOOLEAN
  <2>1. AnnulOut \in BOOLEAN
    BY <1>1 DEF AnnulOut, MemReady, ExecuteType
  <2>2. ExReady \in BOOLEAN
    BY <1>1 DEF ExReady, ExecuteType
  <2> QED BY <2>1, <2>2
<1>5. /\ ex' = [st |-> ex'.st, slot |-> ex'.slot, annul |-> ex'.annul, ready |-> ex'.ready]
      /\ ex'.st \in {"A", "B"} /\ IsSlot(ex'.slot)
      /\ ex'.annul \in BOOLEAN /\ ex'.ready \in BOOLEAN
  BY <1>2, <1>4 DEF ExStep
<1>6. IsSlot(exmem')
  <2>1. exmem' \in {ExOut, exmem}
    BY DEF ExStep
  <2> QED BY <1>1, <1>3, <2>1 DEF ExecuteType
<1> QED BY <1>5, <1>6 DEF ExecuteType, IsSlot, InProgram

LEMMA MemoryTypeStep ==
    ASSUME TypeOK, prog' = prog, NEW ack \in BOOLEAN, MemStep(ack)
    PROVE  MemoryType'
<1>1. ExecuteType /\ MemoryType
  BY TypeParts
<1>2. IsSlot(exmem) /\ IsSlot(mem.slot) /\ IsSlot(Bubble)
  BY <1>1 DEF ExecuteType, MemoryType, IsSlot
<1>3. \A s : Pair(s) \in BOOLEAN
  BY DEF Pair
<1>4. /\ mem' = [st |-> mem'.st, slot |-> mem'.slot, seen |-> mem'.seen]
      /\ mem'.st \in {"A", "B"} /\ IsSlot(mem'.slot) /\ mem'.seen \in BOOLEAN
  <2>1. mem = [st |-> mem.st, slot |-> mem.slot, seen |-> mem.seen] /\ mem.st \in {"A", "B"}
        /\ mem.seen \in BOOLEAN
    BY <1>1 DEF MemoryType
  <2> HIDE DEF IsSlot, Bubble
  <2>2. \/ mem' = mem
        \/ mem' = [st |-> "B", slot |-> exmem, seen |-> FALSE]
        \/ mem' = [st |-> "A", slot |-> Bubble, seen |-> FALSE]
        \/ mem' = [mem EXCEPT !.seen = TRUE]
    BY DEF MemStep
  <2>3. CASE mem' = mem
    BY <1>2, <2>1, <2>3
  <2>4. CASE mem' = [st |-> "B", slot |-> exmem, seen |-> FALSE]
    BY <1>2, <2>4
  <2>5. CASE mem' = [st |-> "A", slot |-> Bubble, seen |-> FALSE]
    BY <1>2, <2>5
  <2>6. CASE mem' = [mem EXCEPT !.seen = TRUE]
    <3>1. mem' = [st |-> mem.st, slot |-> mem.slot, seen |-> TRUE]
      BY <2>1, <2>6
    <3> QED BY <1>2, <2>1, <3>1
  <2> QED BY <2>2, <2>3, <2>4, <2>5, <2>6
<1>5. /\ memwb' = [slot |-> memwb'.slot, pair |-> memwb'.pair]
      /\ IsSlot(memwb'.slot) /\ memwb'.pair \in BOOLEAN
  <2> HIDE DEF IsSlot, Bubble
  <2> QED BY <1>2, <1>3 DEF MemStep
<1> QED BY <1>4, <1>5 DEF MemoryType, IsSlot, InProgram

LEMMA RetireTypeStep ==
    ASSUME TypeOK, prog' = prog, NEW turn, Retire(turn)
    PROVE  RetireType'
<1>1. MemoryType /\ RetireType
  BY TypeParts
<1>2. IsSlot(memwb.slot)
  BY <1>1 DEF MemoryType
<1>3. CASE memwb.slot = Bubble
  <2>1. Write({}, Reset, FALSE, FALSE, turn) /\ UNCHANGED <<next, last, acwp>>
    BY <1>3 DEF Retire
  <2>2. RegTypeOK'
    BY <1>1, <2>1, WriteTypes, ProgramAssumption DEF RetireType
  <2> QED BY <1>1, <2>1, <2>2 DEF RetireType, IsSlot, InProgram
<1>4. CASE memwb.slot # Bubble
  <2> DEFINE s == memwb.slot
  <2>1. /\ Write(Dests(At(s)), s.pc, WritesIcc(At(s)), WritesY(At(s)), turn)
        /\ next' = Follow(next, At(s), Zed(s))
        /\ last' = s
        /\ acwp' = Turned(acwp, Turn(At(s)))
    BY <1>4 DEF Retire
  <2>2. At(s) \in Instruction /\ s.pc \in Stamps
    BY <1>2, <1>4, SlotAt
  <2>3. RegTypeOK'
    BY <1>1, <2>1, <2>2, WriteTypes DEF RetireType
  <2>4. acwp' \in Window
    BY <1>1, <2>1, TurnInRange DEF RetireType
  <2>5. next' \in [pc : Nat, npc : Nat]
    <3>1. next \in Point /\ At(s).target \in Nat
      BY <1>1, <2>2 DEF RetireType, Point, Instruction
    <3> DEFINE m == [pc |-> next.npc,
                     npc |-> IF Taken(At(s), Zed(s)) THEN At(s).target ELSE next.npc + 1]
    <3>2. m \in Point
      BY <3>1 DEF Point
    <3>3. Pass(m) \in Point
      BY <3>2 DEF Pass, Point
    <3>4. next' = Settled(IF Annuls(At(s), Zed(s)) THEN Pass(m) ELSE m)
      BY <2>1 DEF Follow
    <3> HIDE DEF m
    <3>5. (IF Annuls(At(s), Zed(s)) THEN Pass(m) ELSE m) \in Point
      BY <3>2, <3>3
    <3>6. next' \in Point
      BY <3>4, <3>5, SettledPoint
    <3> QED BY <3>6 DEF Point
  <2> QED BY <1>2, <2>1, <2>3, <2>4, <2>5 DEF RetireType, IsSlot, InProgram
<1> QED BY <1>3, <1>4

(* Every register of the pipeline holds what its declaration says (TypeOK),  *)
(* for every program, supported or not, every size of the register file and  *)
(* every timing of the caches.                                               *)
THEOREM TypeCorrect == Spec => []TypeOK
<1>1. TypeOK /\ [Tick]_vars => TypeOK'
  <2> SUFFICES ASSUME TypeOK, [Tick]_vars PROVE TypeOK'
    OBVIOUS
  <2>1. CASE UNCHANGED vars
    BY <2>1 DEF vars, seqVars, pipeVars, TypeOK, RegTypeOK, IsSlot, IsItem, InProgram
  <2>2. CASE Tick
    <3>1. PICK iAck \in BOOLEAN, dAck \in BOOLEAN, yBit \in BOOLEAN : Cycle(iAck, dAck, yBit)
      BY <2>2 DEF Tick
    <3>2. /\ iAck => InstructionAnswer
          /\ FetchStep(iAck) /\ NpcStep /\ IfIdStep /\ DecodeStep(yBit) /\ ExStep
          /\ MemStep(dAck) /\ Retire(TurnOut(yBit)) /\ prog' = prog
      BY <3>1 DEF Cycle
    <3>3. FetchType' /\ DecodeType' /\ ExecuteType' /\ MemoryType' /\ RetireType'
      BY <3>2, FetchTypeStep, DecodeTypeStep, ExecuteTypeStep, MemoryTypeStep, RetireTypeStep
    <3>4. prog' \in Programs
      BY <3>2 DEF TypeOK
    <3> QED
        BY <3>3, <3>4, Zenon
        DEF TypeOK, FetchType, DecodeType, ExecuteType, MemoryType, RetireType
  <2> QED BY <2>1, <2>2
<1> QED BY <1>1, TypeInit, PTL DEF Spec
=============================================================================
