------------------------------- MODULE ICache -------------------------------
(***************************************************************************)
(* ICacheDirectMap.sv with its SRAM.sv arrays: the direct-mapped,          *)
(* read-only instruction cache.  A word is one 64-bit bus beat; the half   *)
(* of it that proc_word_select[0] picks is not modelled.                   *)
(***************************************************************************)
EXTENDS Naturals

CONSTANTS
    Lines,      \* line addresses, {proc_line_addr, 6'b0}
    Sets,       \* rows of the SRAM arrays, proc_line_addr[3:0]
    SetOf,      \* the row of each line
    NoLine,     \* a tag or address that is no line
    Values,     \* contents of a 64-bit beat
    NoValue,    \* contents of an SRAM row that no refill has written
    Beats       \* beats of a line: 8 in the code

VARIABLES
    regs,       \* the p_* registers
    rows,       \* tagSRAM and dataSRAM
    out         \* their registered read port (readData of SRAM.sv)

vars == <<regs, rows, out>>

Word == 0 .. Beats - 1
Counter == 0 .. Beats + 1

RowType == [tag : Lines \cup {NoLine}, data : [Word -> Values \cup {NoValue}]]

RegsType ==
    [state   : {"A", "B", "D", "E"},
     counter : Counter,
     reqcyc  : BOOLEAN,
     req     : Lines \cup {NoLine},
     reqtag  : {"none", "IRead"},
     ack     : BOOLEAN,
     respack : BOOLEAN,
     dataOut : Values \cup {NoValue}]

TypeOK ==
    /\ regs \in RegsType
    /\ rows \in [Sets -> RowType]
    /\ out \in RowType

(* After reset.  SRAM.sv fills the arrays with ones: no fetch address has   *)
(* that tag.                                                                *)
ResetRow == [tag |-> NoLine, data |-> [w \in Word |-> NoValue]]

Init ==
    /\ regs = [state |-> "A", counter |-> 0, reqcyc |-> FALSE, req |-> NoLine,
               reqtag |-> "none", ack |-> FALSE, respack |-> FALSE,
               dataOut |-> NoValue]
    /\ rows = [s \in Sets |-> ResetRow]
    /\ out = ResetRow

(* The defaults at the head of always_comb, which every state starts from. *)
Defaults == [regs EXCEPT !.reqcyc = FALSE, !.req = NoLine, !.ack = FALSE,
                         !.respack = FALSE]

(* SRAM.sv latches the old contents of the addressed row at every edge.     *)
ReadPort(line) == out' = rows[SetOf[line]]

(* No request: the address wires carry an unrelated address and the read    *)
(* port is left alone, since Lookup latches it again before it is used.     *)
Idle ==
    /\ regs.state = "A"
    /\ regs' = Defaults
    /\ UNCHANGED <<rows, out>>

Lookup(line) ==
    /\ regs.state = "A"
    /\ regs' = [Defaults EXCEPT !.state = "B"]
    /\ UNCHANGED rows
    /\ ReadPort(line)

Hit(line, word) ==
    /\ regs.state = "B"
    /\ out.tag = line
    /\ regs' = [Defaults EXCEPT !.state = "A", !.ack = TRUE,
                                !.dataOut = out.data[word]]
    /\ UNCHANGED rows
    /\ ReadPort(line)

Miss(line) ==
    /\ regs.state = "B"
    /\ out.tag # line
    /\ regs' = [Defaults EXCEPT !.state = "D"]
    /\ UNCHANGED rows
    /\ ReadPort(line)

(* STATED without reqack: the tag is replaced and the read request is up. *)
Request(line, busAck) ==
    /\ regs.state = "D"
    /\ ~busAck
    /\ regs' = [Defaults EXCEPT !.reqcyc = TRUE, !.req = line, !.reqtag = "IRead"]
    /\ rows' = [rows EXCEPT ![SetOf[line]].tag = line]
    /\ ReadPort(line)

Granted(line, busAck) ==
    /\ regs.state = "D"
    /\ busAck
    /\ regs' = [Defaults EXCEPT !.state = "E", !.counter = 0]
    /\ UNCHANGED rows
    /\ ReadPort(line)

(* STATEE with a beat of ours on the bus.  The write enable is shifted out  *)
(* of the row once the counter is past the last beat.                       *)
Beat(line, busResp) ==
    /\ regs.state = "E"
    /\ busResp.cyc /\ busResp.tag = regs.reqtag
    /\ regs' = IF regs.counter < Beats
               THEN [Defaults EXCEPT !.counter = @ + 1, !.respack = TRUE]
               ELSE [Defaults EXCEPT !.counter = @ + 1, !.respack = TRUE,
                                     !.state = "B", !.reqtag = "none"]
    /\ rows' = IF regs.counter \in Word
               THEN [rows EXCEPT ![SetOf[line]].data[regs.counter] = busResp.data]
               ELSE rows
    /\ ReadPort(line)

(* Faulty variant: STATEE waits for one beat more than a line has.          *)
WaitPastLine(line, busResp) ==
    /\ regs.state = "E"
    /\ ~(busResp.cyc /\ busResp.tag = regs.reqtag)
    /\ regs' = IF regs.counter = Beats + 1 THEN [Defaults EXCEPT !.state = "B"]
                                           ELSE Defaults
    /\ UNCHANGED rows
    /\ ReadPort(line)

(* STATEE without one: after the last beat one more cycle lets the SRAM     *)
(* read port see it, then the tag is compared again.                        *)
Wait(line, busResp) ==
    /\ regs.state = "E"
    /\ ~(busResp.cyc /\ busResp.tag = regs.reqtag)
    /\ regs' = IF regs.counter = Beats THEN [Defaults EXCEPT !.state = "B"]
                                       ELSE Defaults
    /\ UNCHANGED rows
    /\ ReadPort(line)

(* One rising edge, with the inputs as they were just before it. *)
Step(procReq, line, word, busAck, busResp) ==
    \/ ~procReq /\ Idle
    \/ procReq /\ Lookup(line)
    \/ Hit(line, word)
    \/ Miss(line)
    \/ Request(line, busAck)
    \/ Granted(line, busAck)
    \/ Beat(line, busResp)
    \/ Wait(line, busResp)
=============================================================================
