------------------------------- MODULE DCache -------------------------------
(***************************************************************************)
(* DCacheDirectMap.sv with its dcache_SRAM.sv arrays: the direct-mapped,   *)
(* write-back, write-allocate data cache.  A miss on a dirty row first     *)
(* writes the row back: the address, then one beat per acknowledged cycle. *)
(* Loads and stores are of whole 64-bit words (LDD and STD); the byte lanes *)
(* of narrower ones are not modelled here.                                 *)
(***************************************************************************)
EXTENDS Naturals

CONSTANTS
    Lines,      \* line addresses, {proc_line_addr, 6'b0}
    Sets,       \* rows of the SRAM arrays, proc_line_addr[3:0]
    SetOf,      \* the row of each line
    ResetLine,  \* the line each row claims to hold after reset
    NoLine,     \* an address that is no line
    Values,     \* contents of a 64-bit beat
    NoValue,    \* what the reset leaves in the data array
    Beats       \* beats of a line: 8 in the code

VARIABLES
    regs,       \* the p_* registers
    rows,       \* tagSRAM, dirtySRAM and dataSRAM
    out         \* their registered read port

vars == <<regs, rows, out>>

Word == 0 .. Beats - 1
Counter == 0 .. Beats + 1

RowType == [tag   : Lines \cup {NoLine},
            dirty : BOOLEAN,
            data  : [Word -> Values \cup {NoValue}]]

RegsType ==
    [state   : {"A", "B", "C", "D", "E"},
     counter : Counter,
     reqcyc  : BOOLEAN,
     req     : Lines \cup {NoLine} \cup Values \cup {NoValue},
     reqtag  : {"none", "DRead", "DWrite"},
     ack     : BOOLEAN,
     respack : BOOLEAN,
     dataOut : Values \cup {NoValue}]

TypeOK ==
    /\ regs \in RegsType
    /\ rows \in [Sets -> RowType]
    /\ out \in RowType

(* dcache_SRAM.sv resets every row of every array to 32'h0000000f, so the   *)
(* tag reads 15 and the dirty bit reads 1.                                  *)
ResetRow(s) == [tag |-> ResetLine[s], dirty |-> TRUE,
                data |-> [w \in Word |-> NoValue]]

Init ==
    /\ regs = [state |-> "A", counter |-> 0, reqcyc |-> FALSE, req |-> NoLine,
               reqtag |-> "none", ack |-> FALSE, respack |-> FALSE,
               dataOut |-> NoValue]
    /\ rows = [s \in Sets |-> ResetRow(s)]
    /\ out = [tag |-> NoLine, dirty |-> FALSE, data |-> [w \in Word |-> NoValue]]

(* The defaults at the head of always_comb, which every state starts from. *)
Defaults == [regs EXCEPT !.reqcyc = FALSE, !.req = NoLine, !.ack = FALSE,
                         !.respack = FALSE]

(* dcache_SRAM.sv latches the old contents of the addressed row.            *)
ReadPort(line) == out' = rows[SetOf[line]]

(* No request: the address wires carry an unrelated address and the read    *)
(* port is left alone, since Lookup latches it again before it is used.     *)
Idle ==
    /\ regs.state = "A"
    /\ regs' = Defaults
    /\ UNCHANGED <<rows, out>>

Lookup(op) ==
    /\ regs.state = "A"
    /\ regs' = [Defaults EXCEPT !.state = "B"]
    /\ UNCHANGED rows
    /\ ReadPort(op.line)

(* Faulty variant: a store hit leaves the row clean.                        *)
HitStaysClean(op) ==
    /\ regs.state = "B"
    /\ out.tag = op.line
    /\ regs' = [Defaults EXCEPT !.state = "A", !.ack = TRUE,
                                !.dataOut = out.data[op.word]]
    /\ rows' = IF op.store
               THEN [rows EXCEPT ![SetOf[op.line]].data[op.word] = op.value]
               ELSE rows
    /\ ReadPort(op.line)

(* A store hit writes its word through n_data_write and sets the dirty bit; *)
(* the old word still goes to proc_data_out.                                *)
Hit(op) ==
    /\ regs.state = "B"
    /\ out.tag = op.line
    /\ regs' = [Defaults EXCEPT !.state = "A", !.ack = TRUE,
                                !.dataOut = out.data[op.word]]
    /\ rows' = IF op.store
               THEN [rows EXCEPT ![SetOf[op.line]].data[op.word] = op.value,
                                 ![SetOf[op.line]].dirty = TRUE]
               ELSE rows
    /\ ReadPort(op.line)

(* Faulty variant: the counter of the refill before it is not reset.        *)
MissKeepsCounter(op) ==
    /\ regs.state = "B"
    /\ out.tag # op.line
    /\ regs' = [Defaults EXCEPT !.state = IF out.dirty THEN "C" ELSE "D"]
    /\ UNCHANGED rows
    /\ ReadPort(op.line)

Miss(op) ==
    /\ regs.state = "B"
    /\ out.tag # op.line
    /\ regs' = IF out.dirty
               THEN [Defaults EXCEPT !.state = "C", !.counter = 0]
               ELSE [Defaults EXCEPT !.state = "D"]
    /\ UNCHANGED rows
    /\ ReadPort(op.line)

(* STATEC: the victim's address, which needs no acknowledgement to go up... *)
EvictAddress(op) ==
    /\ regs.state = "C"
    /\ regs.counter = 0
    /\ regs' = [Defaults EXCEPT !.reqcyc = TRUE, !.req = out.tag,
                                !.reqtag = "DWrite", !.counter = 1]
    /\ UNCHANGED rows
    /\ ReadPort(op.line)

(* ... then the next word on each acknowledgement ...                       *)
EvictBeat(op, busAck) ==
    /\ regs.state = "C"
    /\ regs.counter \in 1 .. Beats
    /\ busAck
    /\ regs' = [Defaults EXCEPT !.reqcyc = TRUE, !.counter = @ + 1,
                                !.req = out.data[regs.counter - 1]]
    /\ UNCHANGED rows
    /\ ReadPort(op.line)

(* ... and after the last one the request line drops.                       *)
EvictDone(op, busAck) ==
    /\ regs.state = "C"
    /\ regs.counter > Beats
    /\ busAck
    /\ regs' = [Defaults EXCEPT !.state = "D"]
    /\ UNCHANGED rows
    /\ ReadPort(op.line)

(* Without an acknowledgement the request is held.                          *)
EvictHold(op, busAck) ==
    /\ regs.state = "C"
    /\ regs.counter # 0
    /\ ~busAck
    /\ regs' = [Defaults EXCEPT !.reqcyc = TRUE, !.req = regs.req]
    /\ UNCHANGED rows
    /\ ReadPort(op.line)

(* STATED without reqack: the tag is replaced, the row becomes clean and    *)
(* the read request is up.                                                  *)
Request(op, busAck) ==
    /\ regs.state = "D"
    /\ ~busAck
    /\ regs' = [Defaults EXCEPT !.reqcyc = TRUE, !.req = op.line, !.reqtag = "DRead"]
    /\ rows' = [rows EXCEPT ![SetOf[op.line]].tag = op.line,
                            ![SetOf[op.line]].dirty = FALSE]
    /\ ReadPort(op.line)

(* Faulty variants: the counter starts where the last refill or write-back  *)
(* left it; the tag, which is new already, is compared before the refill.   *)
GrantedKeepsCounter(op, busAck) ==
    /\ regs.state = "D"
    /\ busAck
    /\ regs' = [Defaults EXCEPT !.state = "E"]
    /\ UNCHANGED rows
    /\ ReadPort(op.line)

GrantedWithoutWaiting(op, busAck) ==
    /\ regs.state = "D"
    /\ busAck
    /\ regs' = [Defaults EXCEPT !.state = "B", !.counter = 0]
    /\ UNCHANGED rows
    /\ ReadPort(op.line)

Granted(op, busAck) ==
    /\ regs.state = "D"
    /\ busAck
    /\ regs' = [Defaults EXCEPT !.state = "E", !.counter = 0]
    /\ UNCHANGED rows
    /\ ReadPort(op.line)

(* Faulty variant: the tag is compared at once after the last beat, before  *)
(* the read port has seen it (the bound of src/hw2/DirectMap.sv:186).       *)
BeatEndsEarly(op, busResp) ==
    /\ regs.state = "E"
    /\ busResp.cyc /\ busResp.tag = regs.reqtag
    /\ regs' = IF regs.counter < Beats - 1
               THEN [Defaults EXCEPT !.counter = @ + 1, !.respack = TRUE]
               ELSE [Defaults EXCEPT !.counter = @ + 1, !.respack = TRUE,
                                     !.state = "B", !.reqtag = "none"]
    /\ rows' = IF regs.counter \in Word
               THEN [rows EXCEPT ![SetOf[op.line]].data[regs.counter] = busResp.data]
               ELSE rows
    /\ ReadPort(op.line)

(* STATEE with a beat of ours on the bus.  The write enable is shifted out  *)
(* of the row once the counter is past the last beat.                       *)
Beat(op, busResp) ==
    /\ regs.state = "E"
    /\ busResp.cyc /\ busResp.tag = regs.reqtag
    /\ regs' = IF regs.counter < Beats
               THEN [Defaults EXCEPT !.counter = @ + 1, !.respack = TRUE]
               ELSE [Defaults EXCEPT !.counter = @ + 1, !.respack = TRUE,
                                     !.state = "B", !.reqtag = "none"]
    /\ rows' = IF regs.counter \in Word
               THEN [rows EXCEPT ![SetOf[op.line]].data[regs.counter] = busResp.data]
               ELSE rows
    /\ ReadPort(op.line)

(* STATEE without one: after the last beat one more cycle lets the read     *)
(* port see it, then the tag is compared again.                             *)
Wait(op, busResp) ==
    /\ regs.state = "E"
    /\ ~(busResp.cyc /\ busResp.tag = regs.reqtag)
    /\ regs' = IF regs.counter = Beats THEN [Defaults EXCEPT !.state = "B"]
                                       ELSE Defaults
    /\ UNCHANGED rows
    /\ ReadPort(op.line)

(* One rising edge, with the inputs as they were just before it. *)
Step(procReq, op, busAck, busResp) ==
    \/ ~procReq /\ Idle
    \/ procReq /\ Lookup(op)
    \/ Hit(op)
    \/ Miss(op)
    \/ EvictAddress(op)
    \/ EvictBeat(op, busAck)
    \/ EvictDone(op, busAck)
    \/ EvictHold(op, busAck)
    \/ Request(op, busAck)
    \/ Granted(op, busAck)
    \/ Beat(op, busResp)
    \/ Wait(op, busResp)
=============================================================================
