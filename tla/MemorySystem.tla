---------------------------- MODULE MemorySystem ----------------------------
(***************************************************************************)
(* The memory side of the core, cycle by cycle: the two caches, the arbiter *)
(* and the memory controller of the simulator, clocked by the TICK macro of *)
(* main.cpp.  A cycle is three steps: the rising edge, at which every       *)
(* register of the design latches at once; tick(1); and the falling edge    *)
(* with tick(0).  The fetch unit and the memory stage are the requesters:   *)
(* here they may ask for any line at any time their FSMs can.               *)
(***************************************************************************)
EXTENDS Naturals, Sequences, FiniteSets

CONSTANTS
    FetchLines, \* lines the program fetches instructions from
    DataLines,  \* lines it loads from and stores to
    dc_line_addr,   \* the line that Mem.sv makes of one of these
    PortWords,  \* the words of a line that the program uses
    Sets,       \* cache rows: 16 in both caches
    SetOf,      \* the row of a line
    ResetLine,  \* the line each D-cache row claims to hold after reset
    NoLine,
    Values,     \* contents of a 64-bit beat
    NoValue,
    Beats,      \* beats of a line: 8 in the code
    InitRam,    \* the loaded program image
    QueueDepth, \* depth of the DRAM transaction queue: 32
    Console     \* whether the keyboard is polled

(* Every line the memory system can see. *)
Lines == FetchLines \cup DataLines \cup {ResetLine[s] : s \in Sets}

Word == 0 .. Beats - 1
Data == Values \cup {NoValue}

ASSUME SizesAssumption ==
    /\ Beats \in Nat \ {0}
    /\ QueueDepth \in Nat
    /\ Console \in BOOLEAN

ASSUME LinesAssumption ==
    /\ SetOf \in [Lines -> Sets]
    /\ \A s \in Sets : SetOf[ResetLine[s]] = s
    /\ NoLine \notin Lines
    /\ PortWords \subseteq Word

ASSUME ValuesAssumption ==
    /\ NoValue \notin Values
    /\ Lines \cap Data = {}
    /\ NoLine \notin Data
    /\ InitRam \in [Lines -> [Word -> Values]]

VARIABLES
    phase,          \* the half-cycle to happen next
    fetch, access,  \* the requests of InstructionFetch.sv and Mem.sv
    owner,          \* arbiter
    icRegs, icRows, icOut,
    dcRegs, dcRows, dcOut,
    ram, rx_count, xfer_addr, addr_to_tag, tx_queue, reqack, resp, kbd,
    transq, aborted

portVars == <<fetch, access>>
cacheVars == <<owner, icRegs, icRows, icOut, dcRegs, dcRows, dcOut>>
busVars == <<ram, rx_count, xfer_addr, addr_to_tag, tx_queue, reqack, resp, kbd,
             transq, aborted>>
vars == <<phase, portVars, cacheVars, busVars>>

Arb == INSTANCE Arbiter
IC  == INSTANCE ICache WITH regs <- icRegs, rows <- icRows, out <- icOut
DC  == INSTANCE DCache WITH regs <- dcRegs, rows <- dcRows, out <- dcOut
Bus == INSTANCE SystemBus

-----------------------------------------------------------------------------
(* Requests.  A fetch names a line and a word; an access also says whether   *)
(* it stores and what.  alures is the line of the address that the program   *)
(* computed; line, what Mem.sv puts on its port: it keeps 20 bits of the     *)
(* address, which are the whole of it below 1 MB only.                       *)
FetchOp == [up : BOOLEAN, line : FetchLines \cup {NoLine}, word : Word]

AccessOp == [up : BOOLEAN, alures : DataLines \cup {NoLine}, line : DataLines \cup {NoLine},
             word : Word, store : BOOLEAN, value : Data]

NoFetch  == [up |-> FALSE, line |-> NoLine, word |-> 0]
NoAccess == [up |-> FALSE, alures |-> NoLine, line |-> NoLine, word |-> 0,
             store |-> FALSE, value |-> NoValue]

Fetches == [up : {TRUE}, line : FetchLines, word : PortWords]

Presented(accesses) == {a \in accesses : a.line = dc_line_addr[a.alures]}

Loads  == Presented([up : {TRUE}, alures : DataLines, line : DataLines, word : PortWords,
                     store : {FALSE}, value : {NoValue}])
Stores == Presented([up : {TRUE}, alures : DataLines, line : DataLines, word : PortWords,
                     store : {TRUE}, value : Values])

(* Wires between the parts, functions of the registers. *)
dcReq       == access.up /\ ~dcRegs.ack     \* dc_req drops as dc_ack arrives
bus_reqcyc  == Arb!Driver(icRegs.reqcyc, dcRegs.reqcyc) # "none"
bus_req     == IF Arb!Driver(icRegs.reqcyc, dcRegs.reqcyc) = "ic"
               THEN icRegs.req ELSE dcRegs.req
bus_reqtag  == IF Arb!Driver(icRegs.reqcyc, dcRegs.reqcyc) = "ic"
               THEN icRegs.reqtag ELSE dcRegs.reqtag
bus_respack == icRegs.respack \/ dcRegs.respack
ic_reqack   == Arb!IcReqack(icRegs.reqcyc, reqack)
dc_reqack   == Arb!DcReqack(icRegs.reqcyc, dcRegs.reqcyc, reqack)

-----------------------------------------------------------------------------
Init ==
    /\ phase = "edge"
    /\ fetch = NoFetch
    /\ access = NoAccess
    /\ Arb!Init
    /\ IC!Init
    /\ DC!Init
    /\ Bus!Init

(* Mem.sv in STATEA presents the request of the instruction that reached it; *)
(* in STATEB it holds the request until the edge after dc_ack, at which the  *)
(* next instruction can already be a load or a store.                        *)
MemStage ==
    IF access.up /\ ~dcRegs.ack
    THEN UNCHANGED access
    ELSE access' \in Loads \cup Stores \cup {NoAccess}

(* The rising edge: all registers latch from the wires before it.            *)
RisingEdge ==
    /\ phase = "edge"
    /\ phase' = "high"
    /\ Arb!Step(icRegs.reqcyc, dcRegs.reqcyc)
    /\ IC!Step(fetch.up, fetch.line, fetch.word, ic_reqack, resp)
    /\ DC!Step(dcReq, access, dc_reqack, resp)
    /\ MemStage
    /\ UNCHANGED <<fetch, busVars>>

(* tick(1), with what the DRAM and the keyboard do in it.                    *)
High(key, sched, done) ==
    /\ phase = "high"
    /\ phase' = "low"
    /\ Bus!TickHigh(key, sched, done, bus_reqcyc, bus_req, bus_reqtag, bus_respack)
    /\ UNCHANGED <<portVars, cacheVars>>

TickHigh == \E key, sched \in BOOLEAN, done \in Lines \cup {NoLine} :
                High(key, sched, done)

(* InstructionFetch.sv clocks p_ic_req on the falling edge too: ic_ack       *)
(* clears it, and a fetch unit in STATEA may raise it.                       *)
FetchUnit ==
    IF fetch.up
    THEN fetch' = IF icRegs.ack THEN NoFetch ELSE fetch
    ELSE fetch' \in Fetches \cup {NoFetch}

(* The falling edge and tick(0).                                             *)
FallingEdge ==
    /\ phase = "low"
    /\ phase' = "edge"
    /\ FetchUnit
    /\ Bus!TickLow(bus_reqcyc)
    /\ UNCHANGED <<access, cacheVars>>

(* A failed assert ends the simulation. *)
Next == ~aborted /\ (RisingEdge \/ TickHigh \/ FallingEdge)

Spec == Init /\ [][Next]_vars

(* The clock never stops; a transaction that waits in the DRAM is scheduled  *)
(* and a read in flight completes: DRAMSim2 serves every transaction.        *)
DramSchedules    == \E key \in BOOLEAN, done \in Lines \cup {NoLine} :
                        ~aborted /\ High(key, TRUE, done)
DramCompletes(l) == \E key, sched \in BOOLEAN : ~aborted /\ High(key, sched, l)

Fairness ==
    /\ WF_vars(Next)
    /\ SF_vars(DramSchedules)
    /\ \A l \in Lines : SF_vars(DramCompletes(l))

FairSpec == Spec /\ Fairness

-----------------------------------------------------------------------------
(* Every variable has its type (the registers of all four parts).           *)
TypeOK ==
    /\ phase \in {"edge", "high", "low"}
    /\ fetch \in FetchOp
    /\ access \in AccessOp
    /\ Arb!TypeOK
    /\ IC!TypeOK
    /\ DC!TypeOK
    /\ Bus!TypeOK

(* No assert of System::tick fails (system.cpp:94, 168 and 172): no data     *)
(* beat is taken for an address, no write meets a full DRAM queue.           *)
NoAssertFails == ~aborted

(* The counters of the two ends of a write burst agree: while tick expects   *)
(* beats (it would drop the rest of the line if the request line fell, see   *)
(* system.cpp:194), the D-cache is driving the bus, the line is the victim   *)
(* and the word on the bus is the one that belongs where rx_count stands.    *)
BurstAligned ==
    phase = "high" /\ rx_count > 0 =>
        /\ Arb!Driver(icRegs.reqcyc, dcRegs.reqcyc) = "dc"
        /\ xfer_addr = dcOut.tag
        /\ bus_req = dcOut.data[Beats - rx_count]

(* Every reply has exactly one taker and comes exactly once: the beats of a  *)
(* tag that wait in tx_queue are those the cache that waits in STATEE has    *)
(* not yet taken (the last one it took is popped at the next tick(1)); there *)
(* are none while its read is outstanding, and none when it does not wait.   *)
BeatsQueued(tag) == Cardinality({i \in DOMAIN tx_queue : tx_queue[i].tag = tag})

Unpopped(regs) == IF phase = "high" /\ regs.respack THEN 1 ELSE 0

RepliesMatch(regs, line, tag) ==
    BeatsQueued(tag) =
        IF regs.state = "E" /\ addr_to_tag[line] # tag
        THEN Beats - regs.counter + Unpopped(regs)
        ELSE Unpopped(regs)

RepliesAccounted ==
    /\ RepliesMatch(icRegs, fetch.line, "IRead")
    /\ RepliesMatch(dcRegs, access.line, "DRead")

(* A clean row can be discarded (hw2/README:94-95): outside the window in    *)
(* which a refill is replacing it, a row that is not dirty equals its line   *)
(* in ram; and the part of a refill already done is already right.           *)
Refilling(s) == dcRegs.state \in {"D", "E"} /\ SetOf[access.line] = s

Fetched(s) == IF Refilling(s)
              THEN {w \in Word : dcRegs.state = "E" /\ w < dcRegs.counter}
              ELSE Word

CleanRowsMatchRam ==
    \A s \in Sets : LET row == dcRows[s] IN
        ~row.dirty => \A w \in Fetched(s) : row.data[w] = ram[row.tag][w]

(* A dirty row gives up its line only when all of it is in ram: STATED        *)
(* replaces the tag (DCacheDirectMap.sv:222) after the last beat of STATEC.  *)
DirtyRowsReachRam ==
    [][\A s \in Sets : LET row == dcRows[s] IN
          row.dirty /\ dcRows'[s].tag # row.tag => ram[row.tag] = row.data]_vars

(* At most three transactions (a fetch's read, a write-back and the read     *)
(* after it) wait in the DRAM, so its queue of 32 never refuses one.          *)
DramQueueBounded == Len(transq) <= 3

(* The caches and the bus implement one memory: the value of a word is in    *)
(* the D-cache row while the row is dirty and in ram otherwise, and every    *)
(* fetch and access is answered from it (hw2/README:54-57 asks the testbench *)
(* for this check).  An access is answered at the line presented for it,     *)
(* which is the one the program means if its address is below 1 MB.          *)
LogicalMemory ==
    [l \in FetchLines \cup DataLines |-> [w \in Word |->
        LET row == dcRows[SetOf[l]]
        IN  IF row.tag = l /\ row.dirty THEN row.data[w] ELSE ram[l][w]]]

Answered(regs) == [done  |-> regs.ack,
                   value |-> IF regs.ack THEN regs.dataOut ELSE NoValue]

Serial == INSTANCE SerialMemory WITH
    Lines <- FetchLines \cup DataLines,
    InitMem <- [l \in FetchLines \cup DataLines |-> InitRam[l]],
    mem <- LogicalMemory,
    fetchAnswer <- Answered(icRegs),
    accessAnswer <- Answered(dcRegs)

ImplementsSerialMemory == Serial!Spec

(* A load never returns what the reset left in the data array: the program   *)
(* has stored nothing of the kind (hw2/README:54-57).                        *)
NoResetDataLoaded == access.up /\ dcRegs.ack => dcRegs.dataOut \in Values

(* A system call is carried out by the host, which finds the memory of the    *)
(* program in ram (g2h, syscall.c:98-104); when it is made (ALU.sv:461) and   *)
(* no access is under way, ram should hold what the program has stored, as    *)
(* it does for a kernel on a sparc-linux machine (proj/README:93-96).         *)
RamCurrentForCalls ==
    ~access.up =>
        \A l \in DataLines, w \in Word : ram[l][w] = LogicalMemory[l][w]

(* Every fetch and every access is eventually acknowledged.                  *)
FetchServed  == fetch.up  ~> icRegs.ack
AccessServed == access.up ~> dcRegs.ack
=============================================================================
