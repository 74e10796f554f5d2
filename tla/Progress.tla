------------------------------ MODULE Progress ------------------------------
(***************************************************************************)
(* How far an instruction of Pipeline has still to go: which place of the   *)
(* program order the front end has reached, what is older than execute, and *)
(* from these the cycles until the next instruction is in write-back.       *)
(***************************************************************************)
EXTENDS Pipeline

(* At most one instruction is older than the one in execute. *)
Older == IF memwb.slot # Bubble THEN memwb.slot
         ELSE IF mem.st = "B" THEN mem.slot ELSE exmem

(* The next instruction to reach execute is in an annulled delay slot.       *)
Pending == IF ex.annul THEN Working = Bubble
                       ELSE Working # Bubble /\ Annuls(At(Working), Zed(Working))

-----------------------------------------------------------------------------
(* The place that the front end has reached. *)

(* Fetch has requested an address, or holds an instruction to show.          *)
Holding == fetch.st # "A" \/ fetch.item # None

(* Where nPC goes when fetch does not move it on. *)
Tgt == At(ExOut).target
Wanted == IF MuxSel THEN Tgt ELSE npc

(* The next address for decode, behind what it has, and the one after it.    *)
FetchPc == IF Holding THEN fetch.pc
           ELSE IF npc = fetch.pc THEN fetch.pc + 1 ELSE npc

FetchNpc == IF Holding THEN IF Wanted = fetch.pc THEN fetch.pc + 1 ELSE Wanted
            ELSE IF MuxSel /\ npc # Tgt THEN Tgt ELSE FetchPc + 1

Front == IF Decoded = None THEN [pc |-> FetchPc, npc |-> FetchNpc]
                           ELSE [pc |-> Decoded, npc |-> FetchPc]

-----------------------------------------------------------------------------
(* Nops are fetched and dropped: those from address a on, one after another. *)
NopAt(p, a) == a \in DOMAIN p /\ p[a].op = "nop"
AtNop(p, n) == NopAt(p, n.pc)

NopsFrom(p, a) ==
    CHOOSE j \in 0 .. Spare : ~NopAt(p, a + j) /\ \A i \in 0 .. j - 1 : NopAt(p, a + i)

Lag(p, n) == IF AtNop(p, n) THEN 1 + NopsFrom(p, n.npc) ELSE 0

(* What fetch has to fetch and drop before decode gets an instruction that   *)
(* counts: nops, and the delay slot that is going to be annulled.            *)
Dropping == IF Pending THEN 1 + Lag(prog, Pass(Front)) ELSE Lag(prog, Front)

(* Each of them takes fetch less than this many cycles. *)
Round == 8

(* Cycles until decode hands on the instruction that the front end works on. *)
Handing ==
    IF Decoded # None THEN 1
    ELSE CASE fetch.st = "A" /\ fetch.item # None                    -> 2
           [] fetch.st = "S"                                         -> 3
           [] fetch.st = "C"                                         -> 4
           [] fetch.st = "B" /\ fetch.seen                           -> 5
           [] fetch.st = "B" /\ ~fetch.seen                          -> 6
           [] fetch.st = "A" /\ fetch.item = None /\ npc # fetch.pc   -> 7
           [] fetch.st = "A" /\ fetch.item = None /\ npc = fetch.pc   -> 8

(* No less than the cycles until an instruction is in write-back, those not  *)
(* counted in which a cache keeps the pipeline waiting.                      *)
Distance ==
    IF memwb.slot # Bubble THEN 0
    ELSE IF mem.st = "B"   THEN IF mem.seen THEN 1 ELSE 2
    ELSE IF exmem # Bubble THEN 3
    ELSE IF ExOut # Bubble THEN 4
    ELSE 4 + Handing + Round * Dropping

(* What keeps the pipeline waiting, and may end in the very cycle: the data  *)
(* cache, or the instruction cache when decode and all behind it are empty.  *)
Waiting ==
    \/ DataAnswer
    \/ InstructionAnswer /\ Decoded = None /\ ExOut = Bubble /\ Older = Bubble

(* Whatever the stages hold, no cycle is lost and none undoes what another   *)
(* did: while the program has an instruction to retire and write-back has    *)
(* none, every cycle brings one nearer to write-back, except that it stays   *)
(* where it is while a cache that may answer does not.  No stall, handshake, *)
(* bubble, nop or annulled slot makes the pipeline run in a circle           *)
(* (Execute.sv:131, InstructionDecode.sv:92, InstructionFetch.sv:52).        *)
Advances ==
    [][InProgram(next.pc) /\ memwb.slot = Bubble =>
           Distance' \in 0 .. Distance - 1 \/ (Distance' = Distance /\ Waiting)]_vars
=============================================================================
