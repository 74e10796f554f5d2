------------------------------ MODULE Pipeline ------------------------------
(***************************************************************************)
(* The pipeline of Core.sv: fetch, decode, execute, memory and write-back   *)
(* with the registers between them.  A step is a clock cycle; what varies   *)
(* is when the caches answer.  An instruction in flight is a slot: its      *)
(* address and the operands it read in decode.  The module extends          *)
(* Sequential, whose variables globals, windowed, icc and y are the         *)
(* register file itself, and next, last and acwp (the window in program     *)
(* order) record what has left the pipeline.                                *)
(***************************************************************************)
EXTENDS Sequential

VARIABLES
    fetch,      \* [st, pc, item, branch, seen]: p_state, p_pc, p_inst, p_b
    npc,        \* nPC_current
    ifid,       \* inst_decode
    decode,     \* [st, item]: p_state, p_inst
    idex,       \* the slot in IDEXReg
    ex,         \* [st, slot, annul, ready]: p_state, p_*, annul_in, ex_ready
    exmem,      \* the slot in EXMemReg
    mem,        \* [st, slot, seen]: p_state, p_*
    memwb,      \* [slot, pair]: MemWBReg, and its regWriteDouble as it stands
    acwp

pipeVars == <<fetch, npc, ifid, decode, idex, ex, exmem, mem, memwb, acwp>>
vars == <<seqVars, pipeVars>>

(* The bubble 0x01000000, which a nop of the program is too, has address 0.  *)
None == 0
Bubble == [pc |-> None]
At(slot) == prog[slot.pc]
Zed(slot) == Zero(slot.operands.icc)

PipeInit ==
    /\ prog \in Programs
    /\ next = Settled([pc |-> 1, npc |-> 2])
    /\ last = [pc |-> None]
    /\ RegInit
    /\ acwp = cwp
    /\ fetch = [st |-> "A", pc |-> None, item |-> None, branch |-> FALSE, seen |-> FALSE]
    /\ npc = 1
    /\ ifid = None
    /\ decode = [st |-> "A", item |-> None]
    /\ idex = Bubble
    /\ ex = [st |-> "A", slot |-> Bubble, annul |-> FALSE, ready |-> TRUE]
    /\ exmem = Bubble
    /\ mem = [st |-> "A", slot |-> Bubble, seen |-> FALSE]
    /\ memwb = [slot |-> Bubble, pair |-> FALSE]

(*************************** Memory, write-back ****************************)

MemReady == mem.st = "A"
Accesses(slot) == slot # Bubble /\ MemoryOp(At(slot))
Pair(slot) == slot # Bubble /\ WritesPair(At(slot))

(* Faulty variant: regWriteDouble stays up when nothing follows. *)
MemStepStalePair(ack) ==
    IF mem.st = "A" THEN
        IF Accesses(exmem)
        THEN /\ mem' = [st |-> "B", slot |-> exmem, seen |-> FALSE]
             /\ memwb' = [slot |-> Bubble, pair |-> Pair(exmem)]
        ELSE /\ mem' = mem
             /\ memwb' = [slot |-> exmem,
                          pair |-> IF exmem = Bubble THEN memwb.pair ELSE Pair(exmem)]
    ELSE /\ mem' = IF ack THEN [st |-> "A", slot |-> Bubble, seen |-> FALSE]
                          ELSE [mem EXCEPT !.seen = TRUE]
         /\ memwb' = [slot |-> IF ack THEN mem.slot ELSE Bubble, pair |-> Pair(mem.slot)]

MemStep(ack) ==
    IF mem.st = "A" THEN
        IF Accesses(exmem)
        THEN /\ mem' = [st |-> "B", slot |-> exmem, seen |-> FALSE]
             /\ memwb' = [slot |-> Bubble, pair |-> Pair(exmem)]
        ELSE /\ mem' = mem
             /\ memwb' = [slot |-> exmem, pair |-> Pair(exmem)]
    ELSE /\ mem' = IF ack THEN [st |-> "A", slot |-> Bubble, seen |-> FALSE]
                          ELSE [mem EXCEPT !.seen = TRUE]
         /\ memwb' = [slot |-> IF ack THEN mem.slot ELSE Bubble, pair |-> Pair(mem.slot)]

(* Write-back, with the window that decode turns in the same cycle.          *)
Retire(turn) ==
    LET s == memwb.slot
    IN IF s = Bubble
       THEN /\ Write({}, Reset, FALSE, FALSE, turn)
            /\ UNCHANGED <<next, last, acwp>>
       ELSE /\ Write(Dests(At(s)), s.pc, WritesIcc(At(s)), WritesY(At(s)), turn)
            /\ next' = Follow(next, At(s), Zed(s))
            /\ last' = s
            /\ acwp' = Turned(acwp, Turn(At(s)))

(******************************** Execute **********************************)

Working == IF ex.st = "A" THEN idex ELSE ex.slot

(* Faulty variants: execute takes instructions while it waits for the memory *)
(* stage; execute takes none while annul_in is up.                           *)
ExReadyWhileWaiting == IF ex.annul THEN ex.ready ELSE TRUE
ExNotReadyInAnnul == IF ex.annul THEN FALSE ELSE ex.st = "A"

(* ex_ready is not assigned while annul_in is up: a latch holds it. *)
ExReady == IF ex.annul THEN ex.ready ELSE ex.st = "A"

ExOut == IF ex.annul THEN Bubble ELSE Working

MuxSel == ExOut # Bubble /\ Taken(At(ExOut), Zed(ExOut))

(* Faulty variant: STATEB takes the branch decision for the annul bit.       *)
AnnulOutOfTaken ==
    IF Working = Bubble THEN ex.st = "A" /\ ex.annul
    ELSE /\ MemReady
         /\ IF ex.st = "A" THEN Annuls(At(Working), Zed(Working))
                           ELSE Taken(At(Working), Zed(Working))

(* annul_out: STATEA asks the ALU, STATEB takes the annul bit as it is.      *)
AnnulOut ==
    IF Working = Bubble THEN ex.st = "A" /\ ex.annul
    ELSE /\ MemReady
         /\ IF ex.st = "A" THEN Annuls(At(Working), Zed(Working))
                           ELSE Branch(At(Working)) /\ At(Working).annul

ExStep ==
    LET waits == Working # Bubble /\ ~MemReady
    IN /\ ex' = [st    |-> IF waits THEN "B" ELSE "A",
                 slot  |-> IF waits THEN Working ELSE Bubble,
                 annul |-> AnnulOut,
                 ready |-> ExReady]
       /\ exmem' = IF MemReady THEN ExOut ELSE exmem

(********************************* Decode **********************************)

(* What decode is told an older instruction is going to write. *)
Harmless == [reg |-> FALSE, rd |-> 0, pair |-> FALSE, icc |-> FALSE, y |-> FALSE]

Writer(slot) ==
    IF slot = Bubble THEN Harmless
    ELSE LET i == At(slot)
         IN [reg |-> WritesReg(i), rd |-> Dest(i), pair |-> WritesPair(i),
             icc |-> WritesIcc(i), y |-> WritesY(i)]

InExecute == Writer(ExOut)

(* In STATEB Mem.sv gives the low bit of Y for Mem_p_yWrite_out. *)
InMemory(yBit) == IF mem.st = "A" THEN Writer(exmem)
                                  ELSE [Writer(mem.slot) EXCEPT !.y = yBit]

(* Faulty variant: decode is not told what is in write-back.                 *)
InWriteBackUnseen == Harmless

(* The regWriteDouble of write-back is not masked by a bubble, and its       *)
(* Y_write is not connected.                                                 *)
InWriteBack == [Writer(memwb.slot) EXCEPT !.pair = memwb.pair, !.y = FALSE]

InstructionDep(i, w) ==
    \/ w.reg /\ w.rd # 0 /\ w.rd \in {i.rs1, i.rs2}
    \/ w.pair /\ w.rd + 1 \in {i.rs1, i.rs2}

StoreDep(i, w) ==
    LET stored == CASE i.op = "st"  -> {i.rd}
                    [] i.op = "std" -> {i.rd, i.rd + 1}
                    [] OTHER        -> {}
    IN \/ w.reg /\ w.rd \in stored
       \/ w.pair /\ w.rd + 1 \in stored

TrapDep(i, w) == i.op = "trap" /\ w.reg /\ w.rd \in TrapArgs
CcDep(i, w) == i.op \in {"ba", "be", "trap", "cmp"} /\ w.icc
YDep(i, w) == i.op = "rdy" /\ w.y

Depends(i, yBit) ==
    \E w \in {InExecute, InMemory(yBit), InWriteBack} :
        InstructionDep(i, w) \/ StoreDep(i, w) \/ TrapDep(i, w) \/ CcDep(i, w) \/ YDep(i, w)

IdReady == decode.st = "A"
Decoded == IF IdReady THEN ifid ELSE decode.item

(* STATEB does not look for dependences again. *)
Stalls(yBit) == Decoded # None /\ decode.st # "B" /\ Depends(prog[Decoded], yBit)

Passes(yBit) == Decoded # None /\ ~Stalls(yBit) /\ ExReady

DecodeStep(yBit) ==
    /\ decode' = [st   |-> CASE Decoded = None -> "A"
                             [] Stalls(yBit)   -> "S"
                             [] Passes(yBit)   -> "A"
                             [] OTHER          -> "B",
                  item |-> Decoded]
    /\ idex' = CASE ~ExReady     -> idex
                 [] Passes(yBit) -> [pc |-> Decoded, operands |-> Operands(prog[Decoded])]
                 [] OTHER        -> Bubble

(* Faulty variant: the window turns while SAVE or RESTORE still stalls.      *)
TurnOutStalled(yBit) == IF Decoded # None /\ ExReady THEN Turn(prog[Decoded]) ELSE "none"

TurnOut(yBit) == IF Passes(yBit) THEN Turn(prog[Decoded]) ELSE "none"

(********************************** Fetch **********************************)

IfReady == fetch.st = "A"
Fetched == IF prog[fetch.pc].op = "nop" THEN None ELSE fetch.pc
Branchy(pc) == pc # None /\ Transfers(prog[pc])

(* On the way back to STATEA: after the delay slot of a branch, through S.   *)
Home(item) == [fetch EXCEPT !.st = IF fetch.branch THEN "S" ELSE "A",
                            !.branch = Branchy(fetch.item),
                            !.item = item]

(* Faulty variant: fetch goes on without a look at id_ready.                 *)
FetchStepUnchecked(ack) ==
    fetch' =
      CASE fetch.st = "A" /\ npc = fetch.pc ->
               [fetch EXCEPT !.item = None]
        [] fetch.st = "A" /\ npc # fetch.pc ->
               [fetch EXCEPT !.st = "B", !.pc = npc, !.seen = FALSE]
        [] fetch.st = "B" /\ ~ack ->
               [fetch EXCEPT !.seen = TRUE]
        [] fetch.st = "B" /\ ack ->
               Home(Fetched)
        [] fetch.st = "C" ->
               IF IdReady THEN Home(fetch.item) ELSE fetch
        [] fetch.st = "S" ->
               [fetch EXCEPT !.st = "A"]

FetchStep(ack) ==
    fetch' =
      CASE fetch.st = "A" /\ npc = fetch.pc ->
               [fetch EXCEPT !.item = None]
        [] fetch.st = "A" /\ npc # fetch.pc ->
               [fetch EXCEPT !.st = "B", !.pc = npc, !.seen = FALSE]
        [] fetch.st = "B" /\ ~ack ->
               [fetch EXCEPT !.seen = TRUE]
        [] fetch.st = "B" /\ ack /\ IdReady ->
               Home(Fetched)
        [] fetch.st = "B" /\ ack /\ ~IdReady ->
               [fetch EXCEPT !.st = "C", !.item = Fetched]
        [] fetch.st = "C" ->
               IF IdReady THEN Home(fetch.item) ELSE fetch
        [] fetch.st = "S" ->
               [fetch EXCEPT !.st = "A"]

NpcStep == npc' = CASE MuxSel  -> At(ExOut).target
                    [] ~MuxSel -> IF IfReady THEN npc + 1 ELSE npc

(* IFIDReg takes the instruction that fetch presents in STATEA. *)
IfIdStep == ifid' = IF ~IdReady THEN ifid ELSE IF IfReady THEN fetch.item ELSE None

(******************************* The machine *******************************)

(* The caches answer a request from its second cycle on.  Past the end of    *)
(* the program nothing is fetched.                                           *)
InstructionAnswer == fetch.st = "B" /\ fetch.seen /\ InProgram(fetch.pc)
DataAnswer == mem.st = "B" /\ mem.seen

Cycle(iAck, dAck, yBit) ==
    /\ iAck => InstructionAnswer
    /\ dAck => DataAnswer
    /\ FetchStep(iAck)
    /\ NpcStep
    /\ IfIdStep
    /\ DecodeStep(yBit)
    /\ ExStep
    /\ MemStep(dAck)
    /\ Retire(TurnOut(yBit))
    /\ UNCHANGED prog

Tick == \E iAck, dAck, yBit \in BOOLEAN : Cycle(iAck, dAck, yBit)

(* The clock runs, and the caches answer every request in the end. *)
Fairness ==
    /\ WF_vars(Tick)
    /\ WF_vars(\E dAck, yBit \in BOOLEAN : Cycle(TRUE, dAck, yBit))
    /\ WF_vars(\E iAck, yBit \in BOOLEAN : Cycle(iAck, TRUE, yBit))

Spec == PipeInit /\ [][Tick]_vars
FairSpec == Spec /\ Fairness

(********************** Programs the core can run ***********************)

(* Addresses that may follow k; for a delay slot also the target.            *)
Successors(p, k) ==
    {k + 1}
    \cup (IF k - 1 \in DOMAIN p /\ Transfers(p[k - 1]) THEN {p[k - 1].target} ELSE {})
    \cup (IF p[k].annul THEN {k + 2, p[k].target} ELSE {})

Near(p, k) == Successors(p, k) \cap DOMAIN p

(* The instructions next after k that are not nops. *)
Following(p, k) ==
    LET reach[n \in 0 .. Spare] ==
            IF n = 0 THEN Near(p, k)
            ELSE reach[n - 1] \cup UNION {Near(p, j) : j \in {x \in reach[n - 1] : p[x].op = "nop"}}
    IN {j \in reach[Spare] : p[j].op # "nop"}

Nearby(p, k) == Following(p, k) \cup UNION {Following(p, j) : j \in Following(p, k)}

(* The pipeline gets the following wrong; see PROJECT.json, findings and     *)
(* hazards.  No program of the runs that hold contains it:                   *)
(*   a transfer in a delay slot, or to its own delay slot;                   *)
(*   a nop, SAVE or RESTORE in a delay slot that may be annulled;            *)
(*   an annulling branch next after a load or store;                         *)
(*   SAVE or RESTORE as the first or second instruction after one;           *)
(*   a read of Y next after an instruction that writes it (nops apart);      *)
(*   a trap next after LDD of which it reads only the second register.       *)
Supported(p) ==
    \A k \in DOMAIN p :
        /\ Transfers(p[k]) => /\ k + 1 \in DOMAIN p
                              /\ ~Transfers(p[k + 1])
                              /\ p[k].target # k + 1
        /\ p[k].annul => p[k + 1].op # "nop" /\ Turn(p[k + 1]) = "none"
        /\ MemoryOp(p[k]) => /\ \A j \in Following(p, k) : ~p[j].annul
                             /\ \A j \in Nearby(p, k) : Turn(p[j]) = "none"
        /\ WritesY(p[k]) => \A j \in Following(p, k) : p[j].op # "rdy"
        /\ WritesPair(p[k]) /\ p[k].rd + 1 \in TrapArgs /\ p[k].rd \notin TrapArgs =>
               \A j \in Following(p, k) : p[j].op # "trap"

(******************************* Properties ********************************)

IsSlot(s) ==
    s # Bubble =>
        /\ s = [pc |-> s.pc, operands |-> s.operands]
        /\ InProgram(s.pc)
        /\ s.operands \in [regs : [Sources(prog[s.pc]) -> Stamps], icc : Stamps, y : Stamps]

IsItem(a) == a = None \/ InProgram(a)

(* Every register of the pipeline holds what its declaration says.           *)
TypeOK ==
    /\ RegTypeOK
    /\ prog \in Programs
    /\ next \in [pc : Nat, npc : Nat]
    /\ IsSlot(last)
    /\ acwp \in Window
    /\ fetch \in [st : {"A", "B", "C", "S"}, pc : Nat, item : Nat, branch : BOOLEAN, seen : BOOLEAN]
    /\ IsItem(fetch.item)
    /\ npc \in Nat
    /\ IsItem(ifid)
    /\ decode \in [st : {"A", "B", "S"}, item : Nat] /\ IsItem(decode.item)
    /\ IsSlot(idex)
    /\ ex = [st |-> ex.st, slot |-> ex.slot, annul |-> ex.annul, ready |-> ex.ready]
    /\ ex.st \in {"A", "B"} /\ IsSlot(ex.slot)
    /\ ex.annul \in BOOLEAN /\ ex.ready \in BOOLEAN
    /\ IsSlot(exmem)
    /\ mem = [st |-> mem.st, slot |-> mem.slot, seen |-> mem.seen]
    /\ mem.st \in {"A", "B"} /\ IsSlot(mem.slot) /\ mem.seen \in BOOLEAN
    /\ memwb = [slot |-> memwb.slot, pair |-> memwb.pair]
    /\ IsSlot(memwb.slot) /\ memwb.pair \in BOOLEAN

(* Fetch shows an instruction for one cycle and then forgets it: decode is   *)
(* in STATEA in that cycle, although fetch looked at id_ready a cycle        *)
(* earlier (InstructionFetch.sv:72, IFIDReg.sv:27).                          *)
ShownWhenTaken == fetch.st = "A" /\ fetch.item # None => IdReady

(* While an instruction waits in execute for the memory stage, IDEXReg holds *)
(* nothing that its output could replace (Execute.sv:131, 311).              *)
NothingBehindWaiting == ex.st = "B" => idex = Bubble

(* When an annulling branch leaves execute, ex_ready is not held low: decode *)
(* goes on, and the delay slot comes to be annulled (Execute.sv:13-15, 253). *)
NeverFrozen == ex.annul => ex.ready

(* An instruction is written back through the window that it has in program  *)
(* order, although decode has turned the window for younger ones             *)
(* (RegFile.sv:83, InstructionDecode.sv:177).                                *)
WindowInOrder ==
    memwb.slot # Bubble => cwp = Turned(acwp, Turn(At(memwb.slot)))

(* The pipeline executes programs as if one instruction at a time: what      *)
(* leaves write-back, with the operands it read in decode, is the next       *)
(* instruction of the program with the operands its predecessors left;       *)
(* nothing is lost, repeated, or executed in a slot that is annulled.        *)
Meaning == INSTANCE Sequential WITH cwp <- acwp
ImplementsSequential == Meaning!SeqSpec

(* Every instruction of the program order leaves the pipeline in the end.    *)
NeverStuck ==
    \A a \in Addresses : next.pc = a /\ InProgram(a) ~> next.pc # a
=============================================================================
