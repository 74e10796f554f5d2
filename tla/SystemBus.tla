----------------------------- MODULE SystemBus -----------------------------
(***************************************************************************)
(* System::tick and System::dram_read_complete of system.cpp: the memory   *)
(* side of the split-transaction bus.  The simulator calls tick(1) after    *)
(* each rising edge and tick(0) after each falling edge.  The DRAM behind   *)
(* it (libdramsim.so) is known only by how tick uses it: a queue of at most *)
(* QueueDepth transactions that leave it in order, one per update, and      *)
(* reads that complete some time after they left it, in any order.          *)
(***************************************************************************)
EXTENDS Naturals, Sequences

CONSTANTS
    Lines,      \* line addresses
    NoLine,     \* no line
    Values,     \* contents of a 64-bit beat
    NoValue,    \* what a cache row holds after reset
    Beats,      \* beats of a line: 8 in the code
    InitRam,    \* the loaded program image
    QueueDepth, \* TRANS_QUEUE_DEPTH of dramsim2/system.ini: 32
    Console     \* SHOWCONSOLE: getch() can return a key

VARIABLES
    ram,         \* the memory image
    rx_count,    \* beats of the current write still to come
    xfer_addr,   \* line of the last new request
    addr_to_tag, \* outstanding reads; "none" where there is none
    tx_queue,    \* response beats still to be delivered
    reqack,      \* top->bus_reqack
    resp,        \* top->bus_respcyc, bus_resptag and bus_resp
    kbd,         \* the IRQ_KBD bit of interrupts
    transq,      \* DRAM: transactions not yet scheduled
    aborted      \* an assert of tick failed

vars == <<ram, rx_count, xfer_addr, addr_to_tag, tx_queue, reqack, resp, kbd,
          transq, aborted>>

Word == 0 .. Beats - 1
Data == Values \cup {NoValue}
Tags == {"none", "IRead", "DRead", "DWrite", "Irq"}
BeatType == [tag : Tags, data : Data]
Transaction == [write : BOOLEAN, line : Lines]

TypeOK ==
    /\ ram \in [Lines -> [Word -> Data]]
    /\ rx_count \in 0 .. Beats
    /\ xfer_addr \in Lines \cup {NoLine}
    /\ addr_to_tag \in [Lines -> {"none", "IRead", "DRead"}]
    /\ tx_queue \in Seq(BeatType)
    /\ reqack \in BOOLEAN
    /\ resp \in [cyc : BOOLEAN, tag : Tags, data : Data]
    /\ kbd \in BOOLEAN
    /\ transq \in Seq(Transaction)
    /\ aborted \in BOOLEAN

Quiet == [cyc |-> FALSE, tag |-> "none", data |-> NoValue]

(* The constructor leaves interrupts uninitialised: its bit can be either    *)
(* (it is only looked at when a key arrives).                                *)
Init ==
    /\ ram = InitRam
    /\ rx_count = 0
    /\ xfer_addr = NoLine
    /\ addr_to_tag = [l \in Lines |-> "none"]
    /\ tx_queue = <<>>
    /\ reqack = FALSE
    /\ resp = Quiet
    /\ kbd \in {FALSE, Console}
    /\ transq = <<>>
    /\ aborted = FALSE

-----------------------------------------------------------------------------
(* willAcceptTransaction and addTransaction. *)
HasRoom(q) == Len(q) < QueueDepth

(* Reads that have left the transaction queue and can complete. *)
InFlight == {l \in Lines : /\ addr_to_tag[l] # "none"
                           /\ \A i \in DOMAIN transq :
                                 transq[i] # [write |-> FALSE, line |-> l]}

(* What dramsim->update() may do: schedule the oldest transaction and       *)
(* complete one read (NoLine: none).                                        *)
MaySchedule(sched) == sched => transq # <<>>
MayComplete(done)  == done \in InFlight \cup {NoLine}

QueueAfter(sched) == IF sched THEN Tail(transq) ELSE transq

MapAfter(done) == [l \in Lines |-> IF l = done THEN "none" ELSE addr_to_tag[l]]

(* dram_read_complete: the whole line, read from ram at this moment.        *)
Reply(done) ==
    IF done = NoLine THEN <<>>
    ELSE [i \in 1 .. Beats |-> [tag |-> addr_to_tag[done], data |-> ram[done][i - 1]]]

(* The key press, the completed read, the pop of an acknowledged beat and   *)
(* the beat that is then driven on the bus, in the order of tick.           *)
MayPress(key) == key => Console /\ ~kbd

Arrived(key, done) ==
    (IF key THEN Append(tx_queue, [tag |-> "Irq", data |-> NoValue]) ELSE tx_queue)
        \o Reply(done)

(* Faulty variant: a beat leaves the queue whether it was taken or not.     *)
DeliveredUnacked(q, respack) == IF q # <<>> THEN Tail(q) ELSE q

Delivered(q, respack) == IF q # <<>> /\ respack THEN Tail(q) ELSE q

Respond(key, done, respack) ==
    /\ tx_queue' = Delivered(Arrived(key, done), respack)
    /\ resp' = IF tx_queue' = <<>> THEN Quiet
               ELSE [cyc |-> TRUE, tag |-> Head(tx_queue').tag,
                     data |-> Head(tx_queue').data]
    /\ kbd' = (kbd \/ key)

(* Faulty variant: the acknowledgement outlives the request.                *)
NoRequestKeepsAck(sched, done) ==
    /\ rx_count' = 0
    /\ addr_to_tag' = MapAfter(done)
    /\ transq' = QueueAfter(sched)
    /\ UNCHANGED <<ram, xfer_addr, reqack, aborted>>

(* tick(1) with bus_reqcyc low. *)
NoRequest(sched, done) ==
    /\ reqack' = FALSE
    /\ rx_count' = 0
    /\ addr_to_tag' = MapAfter(done)
    /\ transq' = QueueAfter(sched)
    /\ UNCHANGED <<ram, xfer_addr, aborted>>

(* Faulty variant: the beat goes to the word after its own.                 *)
WriteBeatNextWord(sched, done, data) ==
    /\ rx_count > 0
    /\ ram' = [ram EXCEPT ![xfer_addr][(Beats - rx_count + 1) % Beats] = data]
    /\ rx_count' = rx_count - 1
    /\ addr_to_tag' = MapAfter(done)
    /\ transq' = QueueAfter(sched)
    /\ UNCHANGED <<xfer_addr, reqack, aborted>>

(* tick(1) in the middle of a write: the beat is stored in its word.        *)
WriteBeat(sched, done, data) ==
    /\ rx_count > 0
    /\ ram' = [ram EXCEPT ![xfer_addr][Beats - rx_count] = data]
    /\ rx_count' = rx_count - 1
    /\ addr_to_tag' = MapAfter(done)
    /\ transq' = QueueAfter(sched)
    /\ UNCHANGED <<xfer_addr, reqack, aborted>>

(* tick(1) with a new request.  bus_reqack is raised only at tick(0), so a  *)
(* request that is not acknowledged at once is taken again.  The asserts    *)
(* are on the alignment of the address (a data beat taken for an address)   *)
(* and on the room in the DRAM queue.                                       *)
NewRequest(sched, done, addr, tag) ==
    /\ rx_count = 0
    /\ IF addr \notin Lines \/ tag = "none"
          \/ (MapAfter(done)[addr] = "none" /\ ~HasRoom(QueueAfter(sched)))
       THEN /\ aborted' = TRUE
            /\ UNCHANGED <<ram, rx_count, xfer_addr, addr_to_tag, transq, reqack>>
       ELSE /\ rx_count' = IF tag = "DWrite" THEN Beats ELSE 0
            /\ xfer_addr' = addr
            /\ IF MapAfter(done)[addr] # "none"
               THEN \* "already outstanding. Ignoring..."
                    /\ transq' = QueueAfter(sched)
                    /\ addr_to_tag' = MapAfter(done)
               ELSE /\ transq' = Append(QueueAfter(sched),
                                        [write |-> tag = "DWrite", line |-> addr])
                    /\ addr_to_tag' = IF tag = "DWrite" THEN MapAfter(done)
                                      ELSE [MapAfter(done) EXCEPT ![addr] = tag]
            /\ UNCHANGED <<ram, reqack, aborted>>

TickHigh(key, sched, done, reqcyc, req, reqtag, respack) ==
    /\ MayPress(key) /\ MaySchedule(sched) /\ MayComplete(done)
    /\ Respond(key, done, respack)
    /\ \/ ~reqcyc /\ NoRequest(sched, done)
       \/ reqcyc /\ WriteBeat(sched, done, req)
       \/ reqcyc /\ NewRequest(sched, done, req, reqtag)

(* tick(0): the acknowledgement, which a write in progress relies on.       *)
TickLow(reqcyc) ==
    /\ reqack' = IF reqcyc THEN HasRoom(transq) ELSE reqack
    /\ aborted' = (aborted \/ (reqcyc /\ rx_count # 0 /\ ~HasRoom(transq)))
    /\ UNCHANGED <<ram, rx_count, xfer_addr, addr_to_tag, tx_queue, resp, kbd, transq>>
=============================================================================
