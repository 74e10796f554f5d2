------------------------- MODULE MemorySystemProofs -------------------------
(***************************************************************************)
(* Proofs about MemorySystem for every line, row and value, every length of *)
(* a line and every depth of the DRAM queue.                                *)
(***************************************************************************)
EXTENDS MemorySystem, TLAPS

(* What the two requesters and the cache FSMs agree on: a cache that has     *)
(* left STATEA serves a request that is still up, and its read port shows    *)
(* the addressed row when it compares the tag or writes the row back.        *)
FetchInv ==
    /\ fetch.up => fetch \in Fetches
    /\ icRegs.ack => icRegs.state = "A"
    /\ icRegs.state # "A" => fetch.up
    /\ icRegs.state = "E" => icRegs.counter <= Beats

AccessInv ==
    /\ access.up => access \in Loads \cup Stores
    /\ dcRegs.ack => dcRegs.state = "A"
    /\ dcRegs.state # "A" => access.up
    /\ dcRegs.state = "E" => dcRegs.counter <= Beats
    /\ dcRegs.state \in {"B", "C"} => dcOut = dcRows[SetOf[access.line]]

(* What the D-cache drives: in STATEC the victim's address and then its      *)
(* words, in STATED the read of the new line, otherwise nothing.             *)
EvictInv ==
    /\ dcRegs.reqcyc => dcRegs.state \in {"C", "D"}
    /\ dcRegs.reqcyc /\ dcRegs.state = "D" => dcRegs.reqtag = "DRead"
    /\ dcRegs.state = "C" =>
         /\ dcRegs.counter = 0 => ~dcRegs.reqcyc
         /\ dcRegs.counter # 0 => dcRegs.reqcyc /\ dcRegs.reqtag = "DWrite"
         /\ dcRegs.counter = 1 => dcRegs.req = dcOut.tag
         /\ dcRegs.counter > 1 => dcRegs.req = dcOut.data[dcRegs.counter - 2]

Driver == Arb!Driver(icRegs.reqcyc, dcRegs.reqcyc)

(* The bus side of it: after an edge the D-cache is one beat ahead of        *)
(* rx_count, and tick(1) catches up.  Only a last beat that the DRAM queue   *)
(* refuses can leave the two apart (the next tick(1) then aborts).           *)
BurstInv ==
    ~aborted =>
        /\ rx_count > 0 => dcRegs.state = "C" /\ Driver = "dc" /\ xfer_addr = dcOut.tag
        /\ rx_count > 0 /\ phase = "edge" => reqack
        /\ dcRegs.state = "C" =>
             /\ dcRegs.counter > 1 => Driver = "dc" /\ dcOut.tag \in Lines
             /\ phase # "high" /\ Driver = "dc" =>
                   rx_count = Beats + 1 - dcRegs.counter /\ dcOut.tag \in Lines
             /\ phase = "high" /\ dcRegs.counter <= 1 => rx_count = 0
             /\ phase = "high" /\ dcRegs.counter > 1 =>
                   \/ rx_count = Beats + 2 - dcRegs.counter
                   \/ rx_count = 0 /\ dcRegs.counter = Beats + 1

(* What has been written back so far: the words before the one that rx_count *)
(* stands for; and, once STATED is reached with a dirty row, all of them.    *)
VictimInv ==
    ~aborted =>
        /\ dcRegs.state = "C" /\ dcRegs.counter > 1 =>
             \A w \in Word : w < Beats - rx_count =>
                 ram[dcOut.tag][w] = dcOut.data[w]
        /\ LET row == dcRows[SetOf[access.line]] IN
           dcRegs.state = "D" /\ row.dirty =>
             row.tag \in Lines /\ \A w \in Word : ram[row.tag][w] = row.data[w]

IInv == TypeOK /\ FetchInv /\ AccessInv /\ EvictInv /\ BurstInv /\ VictimInv

USE SizesAssumption, LinesAssumption, ValuesAssumption

-----------------------------------------------------------------------------
(* Updating one place of a function with a value of its range keeps its type. *)
LEMMA Update ==
    ASSUME NEW S, NEW T, NEW f \in [S -> T], NEW s, NEW v \in T
    PROVE  [f EXCEPT ![s] = v] \in [S -> T]
OBVIOUS

(* The two updates of an I-cache row keep its type.                          *)
LEMMA ICacheRowType ==
    ASSUME NEW row \in IC!RowType, NEW line \in Lines, NEW w, NEW v \in Data
    PROVE  /\ [row EXCEPT !.tag = line] \in IC!RowType
           /\ [row EXCEPT !.data[w] = v] \in IC!RowType
  BY DEF IC!RowType, Data

(* The I-cache keeps its types at an edge, if its address is a line.         *)
LEMMA ICacheType ==
    ASSUME IC!TypeOK, NEW procReq \in BOOLEAN, NEW line, NEW word, NEW ack \in BOOLEAN,
           word \in Word, 
           procReq \/ icRegs.state # "A" => line \in Lines,
           icRegs.state = "E" => icRegs.counter <= Beats,
           resp \in [cyc : BOOLEAN, tag : Bus!Tags, data : Data],
           IC!Step(procReq, line, word, ack, resp)
    PROVE  IC!TypeOK'
<1> DEFINE set == SetOf[line]
           row == icRows[set]
<1>a. /\ 0 \in IC!Counter
      /\ icRegs.state = "E" => icRegs.counter + 1 \in IC!Counter
  BY DEF IC!Counter, IC!TypeOK, IC!RegsType
<1>b. IC!Defaults \in IC!RegsType
  BY DEF IC!Defaults, IC!TypeOK, IC!RegsType
<1>c. IC!Defaults.state = icRegs.state /\ IC!Defaults.counter = icRegs.counter
  BY DEF IC!Defaults, IC!TypeOK, IC!RegsType
<1>d. IC!Idle \/ (line \in Lines /\ set \in Sets /\ row \in IC!RowType)
  BY DEF IC!Step, IC!Lookup, IC!Hit, IC!Miss, IC!Request, IC!Granted, IC!Beat, IC!Wait, IC!TypeOK
<1>1. icRegs' \in IC!RegsType
  <2> USE <1>a, <1>b, <1>c, <1>d DEF IC!RegsType
  <2>1. CASE IC!Idle
    BY <2>1 DEF IC!Idle
  <2>2. CASE procReq /\ IC!Lookup(line)
    BY <2>2 DEF IC!Lookup
  <2>3. CASE IC!Hit(line, word)
    BY <2>3 DEF IC!Hit, IC!TypeOK, IC!RowType, IC!Word, Word
  <2>4. CASE IC!Miss(line)
    BY <2>4 DEF IC!Miss
  <2>5. CASE IC!Request(line, ack)
    BY <2>5 DEF IC!Request
  <2>6. CASE IC!Granted(line, ack)
    BY <2>6 DEF IC!Granted
  <2>7. CASE IC!Beat(line, resp)
    BY <2>7 DEF IC!Beat
  <2>8. CASE IC!Wait(line, resp)
    BY <2>8 DEF IC!Wait
  <2> QED
    BY <2>1, <2>2, <2>3, <2>4, <2>5, <2>6, <2>7, <2>8 DEF IC!Step
<1>2. icRows' \in [Sets -> IC!RowType]
  <2>1. CASE IC!Request(line, ack)
    <3>1. icRows' = [icRows EXCEPT ![set] = [row EXCEPT !.tag = line]]
      BY <2>1 DEF IC!Request
    <3> QED
      BY <3>1, <1>d, <2>1, ICacheRowType, Update DEF IC!Request, IC!Idle, IC!TypeOK
  <2>2. CASE IC!Beat(line, resp) /\ icRegs.counter \in IC!Word
    <3>1. icRows' = [icRows EXCEPT ![set] =
                       [row EXCEPT !.data[icRegs.counter] = resp.data]]
      BY <2>2 DEF IC!Beat
    <3> QED
      BY <3>1, <1>d, <2>2, ICacheRowType, Update DEF IC!Beat, IC!Idle, IC!TypeOK
  <2> QED
    BY <2>1, <2>2 DEF IC!Step, IC!Idle, IC!Lookup, IC!Hit, IC!Miss, IC!Granted,
                      IC!Beat, IC!Wait, IC!TypeOK
<1>3. icOut' \in IC!RowType
  BY <1>d DEF IC!Step, IC!Idle, IC!Lookup, IC!Hit, IC!Miss, IC!Request, IC!Granted,
              IC!Beat, IC!Wait, IC!ReadPort, IC!TypeOK
<1> QED
  BY <1>1, <1>2, <1>3 DEF IC!TypeOK

-----------------------------------------------------------------------------
(* The updates of a D-cache row keep its type.                               *)
LEMMA DCacheRowType ==
    ASSUME NEW row \in DC!RowType, NEW line \in Lines, NEW w, NEW v \in Data,
           NEW d \in BOOLEAN
    PROVE  /\ [row EXCEPT !.tag = line] \in DC!RowType
           /\ [row EXCEPT !.dirty = d] \in DC!RowType
           /\ [row EXCEPT !.data[w] = v] \in DC!RowType
  BY DEF DC!RowType, Data

LEMMA DCacheRowsType ==
    ASSUME NEW rows \in [Sets -> DC!RowType], NEW s \in Sets, NEW line \in Lines,
           NEW w, NEW v \in Data, NEW d \in BOOLEAN
    PROVE  /\ [rows EXCEPT ![s].tag = line, ![s].dirty = d] \in [Sets -> DC!RowType]
           /\ [rows EXCEPT ![s].data[w] = v, ![s].dirty = d] \in [Sets -> DC!RowType]
           /\ [rows EXCEPT ![s].data[w] = v] \in [Sets -> DC!RowType]
<1>1. rows[s] \in DC!RowType
  OBVIOUS
<1>2. DEFINE tagged == [rows EXCEPT ![s].tag = line]
             stored == [rows EXCEPT ![s].data[w] = v]
<1>3. tagged \in [Sets -> DC!RowType]
  BY <1>1, DCacheRowType, Update
<1>4. stored \in [Sets -> DC!RowType]
  BY <1>1, DCacheRowType, Update
<1>5. tagged[s] \in DC!RowType /\ stored[s] \in DC!RowType
  BY <1>3, <1>4
<1>6. [tagged EXCEPT ![s].dirty = d] \in [Sets -> DC!RowType]
  <2> HIDE DEF tagged
  <2> QED
    BY <1>3, <1>5, DCacheRowType, Update
<1>7. [stored EXCEPT ![s].dirty = d] \in [Sets -> DC!RowType]
  <2> HIDE DEF stored
  <2> QED
    BY <1>4, <1>5, DCacheRowType, Update
<1> QED
  BY <1>4, <1>6, <1>7

(* The D-cache keeps its types at an edge, if its request is a real one.     *)
LEMMA DCacheType ==
    ASSUME DC!TypeOK, NEW procReq \in BOOLEAN, NEW op, NEW ack \in BOOLEAN,
           procReq \/ dcRegs.state # "A" => op \in Loads \cup Stores,
           dcRegs.state = "E" => dcRegs.counter <= Beats,
           resp \in [cyc : BOOLEAN, tag : Bus!Tags, data : Data],
           DC!Step(procReq, op, ack, resp)
    PROVE  DC!TypeOK'
<1> DEFINE set == SetOf[op.line]
           row == dcRows[set]
<1>a. /\ 0 \in DC!Counter /\ 1 \in DC!Counter
      /\ dcRegs.state = "E" => dcRegs.counter + 1 \in DC!Counter
      /\ dcRegs.counter \in 1 .. Beats =>
            dcRegs.counter + 1 \in DC!Counter /\ dcRegs.counter - 1 \in Word
  BY DEF DC!Counter, DC!TypeOK, DC!RegsType, Word
<1>b. DC!Defaults \in DC!RegsType
  BY DEF DC!Defaults, DC!TypeOK, DC!RegsType
<1>c. DC!Defaults.state = dcRegs.state /\ DC!Defaults.counter = dcRegs.counter
  BY DEF DC!Defaults, DC!TypeOK, DC!RegsType
<1>d. \/ DC!Idle
      \/ /\ op.line \in Lines /\ op.word \in Word
         /\ op.store => op.value \in Data
         /\ set \in Sets /\ row \in DC!RowType
  <2>1. op \in Loads \cup Stores => /\ op.line \in Lines /\ op.word \in Word
                                    /\ op.store => op.value \in Data
    BY DEF Loads, Stores, Presented, Lines, Data
  <2> QED
    BY <2>1 DEF DC!Step, DC!Lookup, DC!Hit, DC!Miss, DC!EvictAddress, DC!EvictBeat,
                DC!EvictDone, DC!EvictHold, DC!Request, DC!Granted, DC!Beat,
                DC!Wait, DC!TypeOK
<1>e. /\ dcOut.tag \in Lines \cup {NoLine}
      /\ \A w \in Word : dcOut.data[w] \in Data
  BY DEF DC!TypeOK, DC!RowType, DC!Word, Word, Data
<1>1. dcRegs' \in DC!RegsType
  <2> USE <1>a, <1>b, <1>c, <1>d DEF DC!RegsType
  <2>1. CASE DC!Idle
    BY <2>1 DEF DC!Idle
  <2>2. CASE procReq /\ DC!Lookup(op)
    BY <2>2 DEF DC!Lookup
  <2>3. CASE DC!Hit(op)
    BY <2>3, <1>e DEF DC!Hit, DC!Idle, Data
  <2>4. CASE DC!Miss(op)
    BY <2>4 DEF DC!Miss
  <2>5. CASE DC!EvictAddress(op)
    BY <2>5, <1>e DEF DC!EvictAddress
  <2>6. CASE DC!EvictBeat(op, ack)
    BY <2>6, <1>e DEF DC!EvictBeat, Data
  <2>7. CASE DC!EvictDone(op, ack)
    BY <2>7 DEF DC!EvictDone
  <2>8. CASE DC!EvictHold(op, ack)
    BY <2>8 DEF DC!EvictHold, DC!TypeOK
  <2>9. CASE DC!Request(op, ack)
    BY <2>9 DEF DC!Request, DC!Idle
  <2>10. CASE DC!Granted(op, ack)
    BY <2>10 DEF DC!Granted
  <2>11. CASE DC!Beat(op, resp)
    BY <2>11 DEF DC!Beat
  <2>12. CASE DC!Wait(op, resp)
    BY <2>12 DEF DC!Wait
  <2> QED
    BY <2>1, <2>2, <2>3, <2>4, <2>5, <2>6, <2>7, <2>8, <2>9, <2>10, <2>11, <2>12
       DEF DC!Step
<1>2. dcRows' \in [Sets -> DC!RowType]
  <2>1. CASE DC!Hit(op) /\ op.store
    BY <2>1, <1>d, DCacheRowsType DEF DC!Hit, DC!Idle, DC!TypeOK
  <2>2. CASE DC!Request(op, ack)
    BY <2>2, <1>d, DCacheRowsType DEF DC!Request, DC!Idle, DC!TypeOK
  <2>3. CASE DC!Beat(op, resp) /\ dcRegs.counter \in DC!Word
    BY <2>3, <1>d, DCacheRowsType DEF DC!Beat, DC!Idle, DC!TypeOK
  <2> QED
    BY <2>1, <2>2, <2>3
       DEF DC!Step, DC!Idle, DC!Lookup, DC!Hit, DC!Miss, DC!EvictAddress, DC!EvictBeat,
           DC!EvictDone, DC!EvictHold, DC!Granted, DC!Beat, DC!Wait, DC!TypeOK
<1>3. dcOut' \in DC!RowType
  BY <1>d DEF DC!Step, DC!Idle, DC!Lookup, DC!Hit, DC!Miss, DC!EvictAddress,
              DC!EvictBeat, DC!EvictDone, DC!EvictHold, DC!Request, DC!Granted,
              DC!Beat, DC!Wait, DC!ReadPort, DC!TypeOK
<1> QED
  BY <1>1, <1>2, <1>3 DEF DC!TypeOK

-----------------------------------------------------------------------------
(* The moves of the D-cache, register by register: outside STATEC, into it,  *)
(* within it and out of it.                                                  *)
Down == ~dcRegs'.reqcyc /\ ~dcRegs'.ack

Elsewhere(procReq, op) ==
    \/ /\ dcRegs.state = "A" /\ dcRegs'.state = "A" /\ Down /\ dcRows' = dcRows
    \/ /\ dcRegs.state = "A" /\ procReq /\ dcRegs'.state = "B" /\ Down
       /\ dcRows' = dcRows /\ dcOut' = dcRows[SetOf[op.line]]
    \/ /\ dcRegs.state = "B" /\ dcRegs'.state = "A" /\ ~dcRegs'.reqcyc
       /\ \A s \in Sets : dcRows'[s].tag = dcRows[s].tag
    \/ /\ dcRegs.state = "D" /\ dcRegs'.state = "E" /\ dcRegs'.counter = 0 /\ Down
       /\ dcRows' = dcRows
    \/ /\ dcRegs.state = "E" /\ dcRegs'.state = "E" /\ Down
       /\ dcRegs.counter <= Beats => dcRegs'.counter <= Beats
       /\ \A s \in Sets : dcRows'[s].tag = dcRows[s].tag
    \/ /\ dcRegs.state = "E" /\ dcRegs'.state = "B" /\ Down
       /\ dcRows' = dcRows /\ dcOut' = dcRows[SetOf[op.line]]

DirtyMiss(op) ==
    /\ dcRegs.state = "B" /\ dcRegs'.state = "C" /\ dcRegs'.counter = 0 /\ Down
    /\ dcRows' = dcRows /\ dcOut' = dcRows[SetOf[op.line]]

CleanMiss ==
    /\ dcRegs.state = "B" /\ dcRegs'.state = "D" /\ ~dcOut.dirty /\ Down
    /\ dcRows' = dcRows

InEviction(op) ==
    /\ dcRegs.state = "C" /\ dcRegs'.state = "C" /\ dcRegs'.reqcyc /\ ~dcRegs'.ack
    /\ dcRows' = dcRows /\ dcOut' = dcRows[SetOf[op.line]]

SendAddress(op) ==
    /\ InEviction(op)
    /\ dcRegs.counter = 0 /\ dcRegs'.counter = 1
    /\ dcRegs'.reqtag = "DWrite" /\ dcRegs'.req = dcOut.tag

SendWord(op, ack) ==
    /\ InEviction(op) /\ ack
    /\ dcRegs.counter \in 1 .. Beats /\ dcRegs'.counter = dcRegs.counter + 1
    /\ dcRegs'.reqtag = dcRegs.reqtag
    /\ dcRegs'.req = dcOut.data[dcRegs.counter - 1]

HoldWord(op, ack) ==
    /\ InEviction(op) /\ ~ack
    /\ dcRegs.counter # 0 /\ dcRegs'.counter = dcRegs.counter
    /\ dcRegs'.reqtag = dcRegs.reqtag /\ dcRegs'.req = dcRegs.req

EndEviction(ack) ==
    /\ dcRegs.state = "C" /\ dcRegs'.state = "D" /\ ack /\ dcRegs.counter > Beats
    /\ Down /\ dcRows' = dcRows

AskForLine(op) ==
    /\ dcRegs.state = "D" /\ dcRegs'.state = "D"
    /\ dcRegs'.reqcyc /\ dcRegs'.reqtag = "DRead" /\ ~dcRegs'.ack
    /\ \A s \in Sets : s # SetOf[op.line] => dcRows'[s] = dcRows[s]
    /\ ~dcRows'[SetOf[op.line]].dirty

LEMMA DCacheMoves ==
    ASSUME DC!TypeOK, NEW procReq \in BOOLEAN, NEW op, NEW ack \in BOOLEAN,
           NEW beat,
           procReq \/ dcRegs.state # "A" => op \in Loads \cup Stores,
           DC!Step(procReq, op, ack, beat)
    PROVE
    \/ Elsewhere(procReq, op) \/ DirtyMiss(op) \/ CleanMiss \/ SendAddress(op)
    \/ SendWord(op, ack) \/ HoldWord(op, ack) \/ EndEviction(ack) \/ AskForLine(op)
<1> USE DEF Down, InEviction
<1> USE DEF DC!TypeOK, DC!RegsType, DC!Defaults, DC!ReadPort
<1>s. procReq \/ dcRegs.state # "A" => SetOf[op.line] \in Sets
  BY DEF Loads, Stores, Presented, Lines
<1>1. CASE DC!Idle
  BY <1>1 DEF DC!Idle, Elsewhere
<1>2. CASE procReq /\ DC!Lookup(op)
  BY <1>2 DEF DC!Lookup, Elsewhere
<1>3. CASE DC!Hit(op)
  <2>1. \A s \in Sets : dcRows'[s].tag = dcRows[s].tag
    BY <1>3, <1>s DEF DC!Hit, DC!RowType
  <2> QED
    BY <1>3, <2>1 DEF DC!Hit, Elsewhere
<1>4. CASE DC!Miss(op)
  BY <1>4 DEF DC!Miss, DirtyMiss, CleanMiss
<1>5. CASE DC!EvictAddress(op)
  BY <1>5 DEF DC!EvictAddress, SendAddress
<1>6. CASE DC!EvictBeat(op, ack)
  BY <1>6 DEF DC!EvictBeat, SendWord
<1>7. CASE DC!EvictDone(op, ack)
  BY <1>7 DEF DC!EvictDone, EndEviction
<1>8. CASE DC!EvictHold(op, ack)
  BY <1>8 DEF DC!EvictHold, HoldWord
<1>9. CASE DC!Request(op, ack)
  <2>1. /\ \A s \in Sets : s # SetOf[op.line] => dcRows'[s] = dcRows[s]
        /\ ~dcRows'[SetOf[op.line]].dirty
    BY <1>9, <1>s DEF DC!Request, DC!RowType
  <2> QED
    BY <1>9, <2>1 DEF DC!Request, AskForLine
<1>10. CASE DC!Granted(op, ack)
  BY <1>10 DEF DC!Granted, Elsewhere
<1>11. CASE DC!Beat(op, beat)
  <2>1. \A s \in Sets : dcRows'[s].tag = dcRows[s].tag
    BY <1>11, <1>s DEF DC!Beat, DC!RowType
  <2>2. dcRegs.counter \in Nat
    BY DEF DC!Counter
  <2>3. dcRegs.counter < Beats => dcRegs'.state = "E" /\ dcRegs'.counter <= Beats
    BY <1>11, <2>2 DEF DC!Beat
  <2>4. ~(dcRegs.counter < Beats) => dcRegs'.state = "B" /\ dcRows' = dcRows
    BY <1>11, <2>2 DEF DC!Beat, DC!Word
  <2>5. dcRegs.state = "E" /\ ~dcRegs'.reqcyc /\ ~dcRegs'.ack
        /\ dcOut' = dcRows[SetOf[op.line]]
    BY <1>11 DEF DC!Beat
  <2> QED
    BY <2>1, <2>3, <2>4, <2>5 DEF Elsewhere
<1>12. CASE DC!Wait(op, beat)
  <2>1. dcRows' = dcRows /\ dcRegs'.counter = dcRegs.counter /\ ~dcRegs'.ack
        /\ dcRegs.state = "E" /\ dcRegs'.state \in {"B", "E"} /\ ~dcRegs'.reqcyc
        /\ dcOut' = dcRows[SetOf[op.line]]
    BY <1>12 DEF DC!Wait
  <2> QED
    BY <2>1 DEF Elsewhere
<1> QED
  BY <1>1, <1>2, <1>3, <1>4, <1>5, <1>6, <1>7, <1>8, <1>9, <1>10, <1>11, <1>12
     DEF DC!Step

(* The moves of the I-cache, as far as the requester and the bus see them.   *)
LEMMA ICacheMoves ==
    ASSUME IC!TypeOK, NEW procReq \in BOOLEAN, NEW line, NEW word, NEW ack \in BOOLEAN,
           NEW beat, IC!Step(procReq, line, word, ack, beat)
    PROVE  /\ icRegs'.ack => icRegs'.state = "A"
           /\ icRegs'.state # "A" => icRegs.state # "A" \/ procReq
           /\ icRegs.state = "E" /\ icRegs.counter <= Beats /\ icRegs'.state = "E" =>
                 icRegs'.counter <= Beats
           /\ icRegs.state # "E" /\ icRegs'.state = "E" => icRegs'.counter <= Beats
<1> USE DEF IC!TypeOK, IC!RegsType, IC!Defaults
<1>1. CASE IC!Idle
  BY <1>1 DEF IC!Idle
<1>2. CASE procReq /\ IC!Lookup(line)
  BY <1>2 DEF IC!Lookup
<1>3. CASE IC!Hit(line, word)
  BY <1>3 DEF IC!Hit
<1>4. CASE IC!Miss(line)
  BY <1>4 DEF IC!Miss
<1>5. CASE IC!Request(line, ack)
  BY <1>5 DEF IC!Request
<1>6. CASE IC!Granted(line, ack)
  BY <1>6 DEF IC!Granted
<1>7. CASE IC!Beat(line, beat)
  <2>1. icRegs.counter \in Nat
    BY DEF IC!Counter
  <2> QED
    BY <1>7, <2>1 DEF IC!Beat
<1>8. CASE IC!Wait(line, beat)
  BY <1>8 DEF IC!Wait
<1> QED
  BY <1>1, <1>2, <1>3, <1>4, <1>5, <1>6, <1>7, <1>8 DEF IC!Step

-----------------------------------------------------------------------------
LEMMA InitInv == Init => IInv
<1> SUFFICES ASSUME Init PROVE IInv
  OBVIOUS
<1> USE DEF Init
<1>1. TypeOK
  <2>1. fetch \in FetchOp /\ access \in AccessOp
    BY DEF NoFetch, NoAccess, FetchOp, AccessOp, Word, Data
  <2>2. IC!TypeOK
    BY DEF IC!Init, IC!TypeOK, IC!RegsType, IC!RowType, IC!ResetRow, IC!Counter
  <2>3. DC!TypeOK
    <3>1. \A s \in Sets : ResetLine[s] \in Lines
      BY DEF Lines
    <3>2. \A s \in Sets : DC!ResetRow(s) \in DC!RowType
      BY <3>1 DEF DC!ResetRow, DC!RowType
    <3> QED
      BY <3>2 DEF DC!Init, DC!TypeOK, DC!RegsType, DC!RowType, DC!Counter
  <2>4. Bus!TypeOK
    <3>1. tx_queue \in Seq(Bus!BeatType) /\ transq \in Seq(Bus!Transaction)
      BY DEF Bus!Init
    <3>2. InitRam \in [Lines -> [Bus!Word -> Bus!Data]]
      BY DEF Bus!Word, Word, Bus!Data
    <3>3. kbd \in BOOLEAN
      BY DEF Bus!Init
    <3>4. resp \in [cyc : BOOLEAN, tag : Bus!Tags, data : Bus!Data]
      BY DEF Bus!Init, Bus!Quiet, Bus!Tags, Bus!Data
    <3>5. rx_count \in 0 .. Beats
      BY DEF Bus!Init
    <3>6. addr_to_tag \in [Lines -> {"none", "IRead", "DRead"}]
      BY DEF Bus!Init
    <3> QED
      BY <3>1, <3>2, <3>3, <3>4, <3>5, <3>6 DEF Bus!Init, Bus!TypeOK
  <2> QED
    BY <2>1, <2>2, <2>3, <2>4 DEF TypeOK, Arb!Init, Arb!TypeOK, Arb!States
<1>2. FetchInv /\ AccessInv /\ EvictInv
  BY DEF FetchInv, AccessInv, EvictInv, NoFetch, NoAccess, IC!Init, DC!Init
<1>3. BurstInv /\ VictimInv
  BY DEF BurstInv, VictimInv, DC!Init, Bus!Init
<1> QED
  BY <1>1, <1>2, <1>3 DEF IInv

LEMMA DriverRange == Driver \in {"ic", "dc", "none"}
BY DEF Driver, Arb!Driver

(* The rising edge moves the caches and the memory stage.                    *)
LEMMA EdgeTypes ==
    ASSUME IInv, RisingEdge
    PROVE  TypeOK'
<1> USE DEF IInv, TypeOK
<1>1. Arb!TypeOK'
  BY DriverRange DEF RisingEdge, Arb!Step, Arb!TypeOK, Arb!States, Driver
<1>2. access' \in AccessOp
  <2>1. Loads \subseteq AccessOp /\ Stores \subseteq AccessOp
    BY DEF AccessOp, Loads, Stores, Presented, Data
  <2>2. NoAccess \in AccessOp
    BY DEF AccessOp, NoAccess, Word, Data
  <2> QED
    BY <2>1, <2>2 DEF RisingEdge, MemStage
<1>3. ic_reqack \in BOOLEAN /\ dc_reqack \in BOOLEAN /\ dcReq \in BOOLEAN
  BY DEF ic_reqack, dc_reqack, dcReq, Arb!IcReqack, Arb!DcReqack, AccessOp,
         Bus!TypeOK, DC!TypeOK, DC!RegsType
<1>4. IC!TypeOK'
  <2>1. /\ fetch.up \in BOOLEAN /\ fetch.word \in Word
        /\ fetch.up \/ icRegs.state # "A" => fetch.line \in Lines
    BY DEF FetchOp, FetchInv, Fetches, Lines
  <2> QED
    BY <1>3, <2>1, ICacheType
       DEF RisingEdge, FetchInv, Bus!TypeOK, Bus!Data, Data
<1>5. DC!TypeOK'
  <2>1. dcReq \/ dcRegs.state # "A" => access \in Loads \cup Stores
    BY DEF AccessInv, dcReq
  <2> QED
    BY <1>3, <2>1, DCacheType
       DEF RisingEdge, AccessInv, Bus!TypeOK, Bus!Data, Data
<1>6. Bus!TypeOK'
  BY DEF RisingEdge, busVars, Bus!TypeOK
<1> QED
  BY <1>1, <1>2, <1>4, <1>5, <1>6 DEF RisingEdge

(* The arbiter: an acknowledgement reaches the D-cache exactly while it      *)
(* drives the bus, and a driver that keeps its request up keeps the bus.     *)
LEMMA DcacheGrant ==
    ASSUME TypeOK
    PROVE  /\ Driver = "dc" => dcRegs.reqcyc /\ bus_reqcyc
           /\ Driver = "dc" /\ reqack => dc_reqack
           /\ dc_reqack /\ dcRegs.reqcyc => Driver = "dc" /\ reqack
           /\ Arb!Step(icRegs.reqcyc, dcRegs.reqcyc) /\ Driver = "dc" /\ dcRegs'.reqcyc =>
                 Driver' = "dc"
  BY DEF TypeOK, Arb!TypeOK, Arb!States, IC!TypeOK, IC!RegsType, DC!TypeOK, DC!RegsType,
         Bus!TypeOK, Driver, Arb!Driver, bus_reqcyc, dc_reqack, Arb!DcReqack, Arb!Step

LEMMA EdgeInv ==
    ASSUME IInv, ~aborted, RisingEdge
    PROVE  IInv'
<1> DEFINE set == SetOf[access.line]
<1>1. TypeOK'
  BY EdgeTypes
<1>2. FetchInv'
  <2>1. fetch.up \in BOOLEAN /\ ic_reqack \in BOOLEAN
    BY DEF IInv, TypeOK, FetchOp, ic_reqack, Arb!IcReqack, Bus!TypeOK
  <2> QED
    BY <2>1, ICacheMoves DEF IInv, TypeOK, FetchInv, RisingEdge
<1>m. /\ dcReq \in BOOLEAN /\ dc_reqack \in BOOLEAN
      /\ dcReq \/ dcRegs.state # "A" => access \in Loads \cup Stores
      /\ dcReq => access.up
      /\ dcRegs.state # "A" => set \in Sets
  BY DEF IInv, TypeOK, AccessInv, dcReq, dc_reqack, Arb!DcReqack, AccessOp,
         Bus!TypeOK, DC!TypeOK, DC!RegsType, Loads, Stores, Presented, Lines
<1>p. /\ phase = "edge" /\ phase' = "high" /\ ~aborted'
      /\ rx_count' = rx_count /\ ram' = ram /\ xfer_addr' = xfer_addr
  BY DEF RisingEdge, busVars
<1>c. dcRegs.counter \in Nat /\ dcRegs.counter <= Beats + 1 /\ rx_count \in 0 .. Beats
  BY DEF IInv, TypeOK, DC!TypeOK, DC!RegsType, DC!Counter, Bus!TypeOK
<1>a. dcRegs.state # "A" => access' = access
  BY DEF IInv, AccessInv, RisingEdge, MemStage
<1>b. dcReq => access' = access
  BY DEF dcReq, RisingEdge, MemStage
<1>s. access'.up => access' \in Loads \cup Stores
  BY DEF IInv, AccessInv, RisingEdge, MemStage, NoAccess
<1>d. DC!Step(dcReq, access, dc_reqack, resp) /\ DC!TypeOK
  BY DEF RisingEdge, IInv, TypeOK
<1>g. /\ Driver = "dc" => dcRegs.reqcyc
      /\ Driver = "dc" /\ reqack => dc_reqack
      /\ dc_reqack /\ dcRegs.reqcyc => Driver = "dc" /\ reqack
      /\ Driver = "dc" /\ dcRegs'.reqcyc => Driver' = "dc"
  BY DcacheGrant DEF IInv, RisingEdge
<1>o. /\ AccessInv /\ EvictInv
      /\ rx_count > 0 => dcRegs.state = "C" /\ Driver = "dc" /\ xfer_addr = dcOut.tag
      /\ rx_count > 0 => reqack
      /\ dcRegs.state = "C" /\ dcRegs.counter > 1 => Driver = "dc" /\ dcOut.tag \in Lines
      /\ dcRegs.state = "C" /\ Driver = "dc" =>
            rx_count = Beats + 1 - dcRegs.counter /\ dcOut.tag \in Lines
  BY <1>p DEF IInv, BurstInv
<1>3. CASE Elsewhere(dcReq, access)
  <2>1. dcRegs'.state \notin {"C", "D"} /\ ~dcRegs'.reqcyc /\ rx_count = 0
    BY <1>3, <1>o, <1>c DEF Elsewhere, Down
  <2>2. EvictInv' /\ BurstInv' /\ VictimInv'
    BY <2>1, <1>p DEF EvictInv, BurstInv, VictimInv
  <2>3. AccessInv'
    BY <1>3, <1>o, <1>m, <1>a, <1>b, <1>s DEF AccessInv, Elsewhere, Down
  <2> QED
    BY <1>1, <1>2, <2>2, <2>3 DEF IInv
<1>4. CASE DirtyMiss(access)
  <2>1. AccessInv'
    BY <1>4, <1>o, <1>m, <1>a, <1>s DEF AccessInv, DirtyMiss, Down
  <2>9. EvictInv'
    BY <1>4, <1>o, <1>m, <1>a, <1>s DEF AccessInv, EvictInv, DirtyMiss, Down
  <2>2. BurstInv' /\ VictimInv'
    BY <1>4, <1>o, <1>p, <1>c DEF BurstInv, VictimInv, DirtyMiss, Down
  <2> QED
    BY <1>1, <1>2, <2>1, <2>9, <2>2 DEF IInv
<1>5. CASE CleanMiss
  <2>1. AccessInv'
    BY <1>5, <1>o, <1>m, <1>a, <1>s DEF AccessInv, CleanMiss, Down
  <2>9. EvictInv'
    BY <1>5, <1>o, <1>m, <1>a, <1>s DEF AccessInv, EvictInv, CleanMiss, Down
  <2>2. BurstInv' /\ VictimInv'
    BY <1>5, <1>o, <1>p, <1>c, <1>a DEF AccessInv, BurstInv, VictimInv, CleanMiss, Down
  <2> QED
    BY <1>1, <1>2, <2>1, <2>9, <2>2 DEF IInv
<1>6. CASE SendAddress(access)
  <2>1. AccessInv'
    BY <1>6, <1>o, <1>m, <1>a, <1>s DEF AccessInv, SendAddress, InEviction
  <2>9. EvictInv'
    BY <1>6, <1>o, <1>m, <1>a, <1>s DEF AccessInv, EvictInv, SendAddress, InEviction
  <2>2. BurstInv' /\ VictimInv'
    BY <1>6, <1>o, <1>p, <1>c, <1>g
       DEF EvictInv, BurstInv, VictimInv, SendAddress, InEviction
  <2> QED
    BY <1>1, <1>2, <2>1, <2>9, <2>2 DEF IInv
<1>7. CASE SendWord(access, dc_reqack)
  <2>1. AccessInv'
    BY <1>7, <1>o, <1>m, <1>a, <1>s, <1>c DEF AccessInv, SendWord, InEviction
  <2>9. EvictInv'
    BY <1>7, <1>o, <1>m, <1>a, <1>s, <1>c DEF AccessInv, EvictInv, SendWord, InEviction
  <2>2. Driver = "dc" /\ Driver' = "dc" /\ dcOut' = dcOut
    BY <1>7, <1>o, <1>g DEF AccessInv, EvictInv, SendWord, InEviction
  <2>3. BurstInv'
    BY <1>7, <2>2, <1>o, <1>p, <1>c DEF BurstInv, SendWord, InEviction
  <2>4. VictimInv'
    BY <1>7, <2>2, <1>o, <1>p, <1>c DEF IInv, VictimInv, SendWord, InEviction, Word
  <2> QED
    BY <1>1, <1>2, <2>1, <2>9, <2>3, <2>4 DEF IInv
<1>8. CASE HoldWord(access, dc_reqack)
  <2>1. AccessInv'
    BY <1>8, <1>o, <1>m, <1>a, <1>s, <1>c DEF AccessInv, HoldWord, InEviction
  <2>9. EvictInv'
    BY <1>8, <1>o, <1>m, <1>a, <1>s, <1>c DEF AccessInv, EvictInv, HoldWord, InEviction
  <2>2. dcOut' = dcOut /\ (Driver = "dc" => Driver' = "dc")
    BY <1>8, <1>o, <1>g DEF AccessInv, HoldWord, InEviction
  <2>5. rx_count = 0 /\ (Driver = "dc" => dcRegs.counter = Beats + 1)
    BY <1>8, <1>o, <1>p, <1>c, <1>g DEF HoldWord, InEviction
  <2>6. dcRegs.state = "C" /\ dcRegs'.counter = dcRegs.counter
    BY <1>8 DEF HoldWord, InEviction
  <2>3. BurstInv'
    BY <2>2, <2>5, <2>6, <1>o, <1>p, <1>c DEF BurstInv
  <2>4. VictimInv'
    BY <1>8, <2>2, <1>o, <1>p, <1>c DEF IInv, VictimInv, HoldWord, InEviction
  <2> QED
    BY <1>1, <1>2, <2>1, <2>9, <2>3, <2>4 DEF IInv
<1>9. CASE EndEviction(dc_reqack)
  <2>1. AccessInv'
    BY <1>9, <1>o, <1>m, <1>a, <1>s DEF AccessInv, EndEviction, Down
  <2>9. EvictInv'
    BY <1>9, <1>o, <1>m, <1>a, <1>s DEF AccessInv, EvictInv, EndEviction, Down
  <2>2. Driver = "dc" /\ rx_count = 0 /\ dcOut = dcRows[set] /\ dcOut.tag \in Lines
    BY <1>9, <1>o, <1>g, <1>c DEF AccessInv, EvictInv, EndEviction
  <2>3. \A w \in Word : ram[dcOut.tag][w] = dcOut.data[w]
    BY <1>9, <2>2, <1>c, <1>p DEF IInv, VictimInv, EndEviction, Word
  <2>4. BurstInv' /\ VictimInv'
    BY <1>9, <2>2, <2>3, <1>p, <1>a DEF BurstInv, VictimInv, EndEviction
  <2> QED
    BY <1>1, <1>2, <2>1, <2>9, <2>4 DEF IInv
<1>10. CASE AskForLine(access)
  <2>1. AccessInv'
    BY <1>10, <1>o, <1>m, <1>a, <1>s DEF AccessInv, AskForLine
  <2>9. EvictInv'
    BY <1>10, <1>o, <1>m, <1>a, <1>s DEF AccessInv, EvictInv, AskForLine
  <2>2. BurstInv' /\ VictimInv'
    BY <1>10, <1>o, <1>p, <1>c, <1>a DEF BurstInv, VictimInv, AskForLine
  <2> QED
    BY <1>1, <1>2, <2>1, <2>9, <2>2 DEF IInv
<1> QED
  BY <1>3, <1>4, <1>5, <1>6, <1>7, <1>8, <1>9, <1>10, <1>m, <1>d, DCacheMoves

-----------------------------------------------------------------------------
(* tick(1): what it delivers is well typed, whatever the DRAM does.          *)
LEMMA RespondType ==
    ASSUME Bus!TypeOK, NEW key \in BOOLEAN, NEW done \in Lines \cup {NoLine},
           NEW respack \in BOOLEAN, Bus!Respond(key, done, respack)
    PROVE  /\ tx_queue' \in Seq(Bus!BeatType)
           /\ resp' \in [cyc : BOOLEAN, tag : Bus!Tags, data : Bus!Data]
           /\ kbd' \in BOOLEAN
<1> USE DEF Bus!TypeOK
<1>1. [tag |-> "Irq", data |-> NoValue] \in Bus!BeatType
  BY DEF Bus!BeatType, Bus!Tags, Bus!Data
<1>2. Bus!Reply(done) \in Seq(Bus!BeatType)
  <2>1. CASE done = NoLine
    BY <2>1 DEF Bus!Reply
  <2>2. CASE done # NoLine
    <3>1. addr_to_tag[done] \in Bus!Tags
      BY <2>2 DEF Bus!Tags
    <3>2. \A i \in 1 .. Beats : ram[done][i - 1] \in Bus!Data
      BY <2>2 DEF Bus!Word
    <3>3. \A i \in 1 .. Beats :
            [tag |-> addr_to_tag[done], data |-> ram[done][i - 1]] \in Bus!BeatType
      BY <3>1, <3>2 DEF Bus!BeatType
    <3> QED
      BY <2>2, <3>3 DEF Bus!Reply
  <2> QED
    BY <2>1, <2>2
<1>3. Bus!Arrived(key, done) \in Seq(Bus!BeatType)
  BY <1>1, <1>2 DEF Bus!Arrived
<1>4. tx_queue' \in Seq(Bus!BeatType)
  BY <1>3 DEF Bus!Respond, Bus!Delivered
<1>5. resp' \in [cyc : BOOLEAN, tag : Bus!Tags, data : Bus!Data]
  <2>1. CASE tx_queue' = <<>>
    BY <2>1 DEF Bus!Respond, Bus!Quiet, Bus!Tags, Bus!Data
  <2>2. CASE tx_queue' # <<>>
    <3>1. Head(tx_queue') \in Bus!BeatType
      BY <1>4, <2>2
    <3> QED
      BY <2>2, <3>1 DEF Bus!Respond, Bus!BeatType
  <2> QED
    BY <2>1, <2>2
<1>6. kbd' \in BOOLEAN
  BY DEF Bus!Respond
<1> QED
  BY <1>4, <1>5, <1>6

(* The three outcomes of the request half of tick(1).                        *)
LEMMA RequestType ==
    ASSUME Bus!TypeOK, NEW sched \in BOOLEAN, NEW done \in Lines \cup {NoLine},
           NEW req, NEW tag \in {"none", "IRead", "DRead", "DWrite"},
           rx_count > 0 => req \in Data,
           Bus!MaySchedule(sched),
           \/ Bus!NoRequest(sched, done)
           \/ Bus!WriteBeat(sched, done, req)
           \/ Bus!NewRequest(sched, done, req, tag)
    PROVE  /\ ram' \in [Lines -> [Word -> Data]]
           /\ rx_count' \in 0 .. Beats
           /\ xfer_addr' \in Lines \cup {NoLine}
           /\ addr_to_tag' \in [Lines -> {"none", "IRead", "DRead"}]
           /\ reqack' \in BOOLEAN
           /\ transq' \in Seq(Bus!Transaction)
           /\ aborted' \in BOOLEAN
<1> DEFINE map == Bus!MapAfter(done)
           queue == Bus!QueueAfter(sched)
<1>1. map \in [Lines -> {"none", "IRead", "DRead"}]
  BY DEF Bus!MapAfter, Bus!TypeOK
<1>2. queue \in Seq(Bus!Transaction)
  BY DEF Bus!QueueAfter, Bus!MaySchedule, Bus!TypeOK
<1>3. ram \in [Lines -> [Word -> Data]]
  BY DEF Bus!TypeOK, Bus!Word, Word, Bus!Data, Data
<1> USE DEF Bus!TypeOK
<1>4. CASE Bus!NoRequest(sched, done)
  <2>1. 0 \in 0 .. Beats /\ rx_count' = 0 /\ reqack' = FALSE
    BY <1>4 DEF Bus!NoRequest
  <2>2. ram' = ram /\ addr_to_tag' = map /\ transq' = queue
    BY <1>4 DEF Bus!NoRequest
  <2>3. xfer_addr' = xfer_addr /\ aborted' = aborted
    BY <1>4 DEF Bus!NoRequest
  <2> HIDE DEF map, queue
  <2> QED
    BY <1>1, <1>2, <1>3, <2>1, <2>2, <2>3
<1>5. CASE Bus!WriteBeat(sched, done, req)
  <2>1. req \in Data
    BY <1>5 DEF Bus!WriteBeat
  <2>2. ram' = [ram EXCEPT ![xfer_addr][Beats - rx_count] = req]
    BY <1>5 DEF Bus!WriteBeat
  <2>3. ram' \in [Lines -> [Word -> Data]]
    BY <1>3, <2>1, <2>2
  <2>4. rx_count' \in 0 .. Beats
    BY <1>5 DEF Bus!WriteBeat
  <2> HIDE DEF map, queue
  <2> QED
    BY <1>1, <1>2, <1>5, <2>3, <2>4 DEF Bus!WriteBeat, map, queue
<1>6. CASE Bus!NewRequest(sched, done, req, tag)
  <2>1. /\ ram' = ram /\ reqack' = reqack /\ aborted' \in BOOLEAN
        /\ rx_count' \in {0, Beats, rx_count}
        /\ xfer_addr' \in Lines \cup {NoLine}
    BY <1>6 DEF Bus!NewRequest
  <2>2. rx_count' \in 0 .. Beats
    BY <2>1
  <2>3. transq' \in Seq(Bus!Transaction)
    <3> DEFINE new == [write |-> tag = "DWrite", line |-> req]
    <3>1. req \in Lines => new \in Bus!Transaction
      BY DEF Bus!Transaction
    <3>2. \/ transq' = transq \/ transq' = queue
          \/ req \in Lines /\ transq' = Append(queue, new)
      BY <1>6 DEF Bus!NewRequest
    <3> HIDE DEF new, queue
    <3>3. CASE req \in Lines /\ transq' = Append(queue, new)
      BY <1>2, <3>1, <3>3 DEF Bus!Transaction
    <3>4. CASE transq' = transq \/ transq' = queue
      BY <1>2, <3>4
    <3> QED
      BY <3>2, <3>3, <3>4
  <2>4. addr_to_tag' \in [Lines -> {"none", "IRead", "DRead"}]
    <3>1. \/ addr_to_tag' = addr_to_tag \/ addr_to_tag' = map
          \/ tag \in {"IRead", "DRead"} /\ addr_to_tag' = [map EXCEPT ![req] = tag]
      BY <1>6 DEF Bus!NewRequest
    <3> QED
      BY <1>1, <3>1
  <2> QED
    BY <1>3, <2>1, <2>2, <2>3, <2>4
<1> QED
  BY <1>4, <1>5, <1>6

(* tick(1) moves the bus only; the caches and their wires stand still.       *)
LEMMA HighInv ==
    ASSUME IInv, ~aborted, NEW key \in BOOLEAN, NEW sched \in BOOLEAN,
           NEW done \in Lines \cup {NoLine}, High(key, sched, done)
    PROVE  IInv'
<1>1. /\ phase = "high" /\ phase' = "low"
      /\ fetch' = fetch /\ access' = access /\ owner' = owner
      /\ icRegs' = icRegs /\ icRows' = icRows /\ icOut' = icOut
      /\ dcRegs' = dcRegs /\ dcRows' = dcRows /\ dcOut' = dcOut
  BY DEF High, portVars, cacheVars
<1>2. Driver' = Driver
  BY <1>1 DEF Driver, Arb!Driver
<1>c. /\ dcRegs.counter \in Nat /\ dcRegs.counter <= Beats + 1
      /\ rx_count \in 0 .. Beats
      /\ bus_respack \in BOOLEAN
      /\ bus_reqtag \in {"none", "IRead", "DRead", "DWrite"}
  BY DEF IInv, TypeOK, DC!TypeOK, DC!RegsType, DC!Counter, Bus!TypeOK,
         IC!TypeOK, IC!RegsType, bus_respack, bus_reqtag
(* What BurstInv says before a tick(1).                                      *)
<1>b. /\ rx_count > 0 => /\ dcRegs.state = "C" /\ Driver = "dc"
                         /\ xfer_addr = dcOut.tag /\ dcRegs.counter > 1
                         /\ rx_count = Beats + 2 - dcRegs.counter
      /\ dcRegs.state = "C" /\ dcRegs.counter > 1 =>
            /\ Driver = "dc" /\ dcOut.tag \in Lines
            /\ rx_count = 0 => dcRegs.counter = Beats + 1
  BY <1>1, <1>c DEF IInv, BurstInv
<1>d. /\ Driver = "dc" => dcRegs.reqcyc /\ bus_reqcyc
      /\ Driver = "dc" => bus_req = dcRegs.req /\ bus_reqtag = dcRegs.reqtag
      /\ Driver # "dc" => bus_reqtag # "DWrite" \/ ~bus_reqcyc
  BY DriverRange, DcacheGrant
     DEF IInv, TypeOK, Driver, bus_req, bus_reqtag, bus_reqcyc, IC!TypeOK, IC!RegsType
<1>w. /\ \A w \in Word : dcOut.data[w] \in Data
      /\ dcRegs.counter > 1 => dcRegs.counter - 2 \in Word
  BY <1>c DEF IInv, TypeOK, DC!TypeOK, DC!RowType, DC!Word, Word, Data
<1>e. rx_count > 0 => /\ bus_req = dcOut.data[Beats - rx_count]
                      /\ Beats - rx_count \in Word
                      /\ bus_req \in Data
  <2> SUFFICES ASSUME rx_count > 0
               PROVE  /\ bus_req = dcOut.data[Beats - rx_count]
                      /\ Beats - rx_count \in Word /\ bus_req \in Data
    OBVIOUS
  <2>1. bus_req = dcOut.data[dcRegs.counter - 2]
    BY <1>b, <1>d DEF IInv, EvictInv
  <2>2. dcRegs.counter - 2 = Beats - rx_count
    <3>1. rx_count = Beats + 2 - dcRegs.counter /\ dcRegs.counter > 1
      BY <1>b
    <3>2. Beats \in Nat /\ dcRegs.counter \in Nat
      BY <1>c
    <3> QED
      BY <3>1, <3>2
  <2> QED
    BY <2>1, <2>2, <1>b, <1>w
<1>t. /\ Bus!MaySchedule(sched) /\ Bus!Respond(key, done, bus_respack)
      /\ \/ ~bus_reqcyc /\ Bus!NoRequest(sched, done)
         \/ bus_reqcyc /\ Bus!WriteBeat(sched, done, bus_req)
         \/ bus_reqcyc /\ Bus!NewRequest(sched, done, bus_req, bus_reqtag)
  BY DEF High, Bus!TickHigh
<1>3. TypeOK'
  <2>1. Bus!TypeOK'
    <3>1. /\ tx_queue' \in Seq(Bus!BeatType)
          /\ resp' \in [cyc : BOOLEAN, tag : Bus!Tags, data : Bus!Data]
          /\ kbd' \in BOOLEAN
      BY <1>t, <1>c, RespondType DEF IInv, TypeOK
    <3>2. /\ ram' \in [Lines -> [Word -> Data]]
          /\ rx_count' \in 0 .. Beats
          /\ xfer_addr' \in Lines \cup {NoLine}
          /\ addr_to_tag' \in [Lines -> {"none", "IRead", "DRead"}]
          /\ reqack' \in BOOLEAN
          /\ transq' \in Seq(Bus!Transaction)
          /\ aborted' \in BOOLEAN
      BY <1>t, <1>c, <1>e, RequestType DEF IInv, TypeOK
    <3> QED
      BY <3>1, <3>2 DEF Bus!TypeOK, Bus!Word, Word, Bus!Data, Data
  <2> QED
    BY <1>1, <2>1 DEF IInv, TypeOK, Arb!TypeOK, IC!TypeOK, DC!TypeOK
<1>4. FetchInv' /\ AccessInv' /\ EvictInv'
  BY <1>1 DEF IInv, FetchInv, AccessInv, EvictInv
<1>5. CASE ~bus_reqcyc /\ Bus!NoRequest(sched, done)
  <2>1. rx_count' = 0 /\ ram' = ram /\ Driver # "dc"
    BY <1>5, <1>d DEF Bus!NoRequest
  <2>2. BurstInv'
    BY <1>1, <1>2, <1>b, <2>1 DEF BurstInv
  <2>3. VictimInv'
    BY <1>1, <1>b, <2>1, <1>5 DEF IInv, VictimInv, Bus!NoRequest
  <2> QED
    BY <1>3, <1>4, <2>2, <2>3 DEF IInv
<1>6. CASE bus_reqcyc /\ Bus!WriteBeat(sched, done, bus_req)
  <2>1. /\ rx_count > 0 /\ rx_count' = rx_count - 1 /\ xfer_addr' = xfer_addr
        /\ ram' = [ram EXCEPT ![xfer_addr][Beats - rx_count] = bus_req]
    BY <1>6 DEF Bus!WriteBeat
  <2>2. dcRegs.state = "C" /\ dcRegs.counter > 1 /\ dcOut.tag \in Lines
    BY <1>b, <2>1
  <2>3. BurstInv'
    BY <1>1, <1>2, <1>b, <1>c, <2>1, <2>2 DEF BurstInv
  <2>4. ASSUME NEW w \in Word, w < Beats - rx_count'
        PROVE  ram'[dcOut.tag][w] = dcOut.data[w]
    <3>1. ram[dcOut.tag] \in [Word -> Data]
      BY <2>2 DEF IInv, TypeOK, Bus!TypeOK, Bus!Word, Word, Bus!Data, Data
    <3>2. w < Beats - rx_count \/ w = Beats - rx_count
      BY <2>1, <2>4, <1>c DEF Word
    <3>3. w < Beats - rx_count => ram[dcOut.tag][w] = dcOut.data[w]
      BY <2>2 DEF IInv, VictimInv
    <3>4. ram'[dcOut.tag][w] = IF w = Beats - rx_count THEN bus_req ELSE ram[dcOut.tag][w]
      BY <1>b, <2>1, <2>2, <3>1 DEF IInv, TypeOK, Bus!TypeOK
    <3> QED
      BY <3>2, <3>3, <3>4, <1>e, <2>1
  <2>5. VictimInv'
    BY <1>1, <2>2, <2>4 DEF VictimInv
  <2> QED
    BY <1>3, <1>4, <2>3, <2>5 DEF IInv
<1>7. CASE bus_reqcyc /\ Bus!NewRequest(sched, done, bus_req, bus_reqtag)
  <2>1. rx_count = 0 /\ ram' = ram
    BY <1>7 DEF Bus!NewRequest
  <2>2. ~aborted' => /\ bus_req \in Lines /\ xfer_addr' = bus_req
                     /\ rx_count' = IF bus_reqtag = "DWrite" THEN Beats ELSE 0
    BY <1>7 DEF Bus!NewRequest
  <2>3. dcRegs.state = "C" /\ Driver = "dc" /\ ~aborted' =>
           dcRegs.counter = 1 /\ bus_req = dcOut.tag /\ bus_reqtag = "DWrite"
    <3> SUFFICES ASSUME dcRegs.state = "C", Driver = "dc", ~aborted'
                 PROVE  dcRegs.counter = 1 /\ bus_req = dcOut.tag
                        /\ bus_reqtag = "DWrite"
      OBVIOUS
    <3>1. dcRegs.counter # 0 /\ bus_reqtag = "DWrite"
      BY <1>d DEF IInv, EvictInv
    <3>2. ~(dcRegs.counter > 1)
      BY <1>d, <1>w, <2>2 DEF IInv, EvictInv
    <3> QED
      BY <1>c, <1>d, <3>1, <3>2 DEF IInv, EvictInv
  <2>4. rx_count' > 0 /\ ~aborted' => dcRegs.state = "C" /\ Driver = "dc"
    <3>1. Driver = "dc" => dcRegs.state = "C" \/ bus_reqtag = "DRead"
      BY <1>d DEF IInv, EvictInv
    <3> QED
      BY <1>7, <1>d, <2>2, <3>1
  <2>5. BurstInv'
    BY <1>1, <1>2, <1>b, <1>c, <2>1, <2>2, <2>3, <2>4 DEF BurstInv
  <2>6. VictimInv'
    BY <1>1, <1>b, <1>c, <2>1, <2>3 DEF IInv, VictimInv
  <2> QED
    BY <1>3, <1>4, <2>5, <2>6 DEF IInv
<1> QED
  BY <1>t, <1>5, <1>6, <1>7

(* The falling edge moves the fetch unit; tick(0) gives the acknowledgement. *)
LEMMA FallInv ==
    ASSUME IInv, ~aborted, FallingEdge
    PROVE  IInv'
<1>1. /\ phase = "low" /\ phase' = "edge"
      /\ access' = access /\ owner' = owner
      /\ icRegs' = icRegs /\ icRows' = icRows /\ icOut' = icOut
      /\ dcRegs' = dcRegs /\ dcRows' = dcRows /\ dcOut' = dcOut
      /\ ram' = ram /\ rx_count' = rx_count /\ xfer_addr' = xfer_addr
      /\ addr_to_tag' = addr_to_tag /\ tx_queue' = tx_queue /\ resp' = resp
      /\ kbd' = kbd /\ transq' = transq
  BY DEF FallingEdge, cacheVars, Bus!TickLow
<1>2. Driver' = Driver
  BY <1>1 DEF Driver, Arb!Driver
<1>3. /\ reqack' \in BOOLEAN /\ aborted' \in BOOLEAN
      /\ ~aborted' /\ bus_reqcyc /\ rx_count # 0 => reqack'
  <2> DEFINE room == Bus!HasRoom(transq)
  <2>1. /\ reqack' = IF bus_reqcyc THEN room ELSE reqack
        /\ aborted' = (aborted \/ (bus_reqcyc /\ rx_count # 0 /\ ~room))
    BY DEF FallingEdge, Bus!TickLow
  <2>2. room \in BOOLEAN /\ reqack \in BOOLEAN /\ aborted \in BOOLEAN
    BY DEF Bus!HasRoom, IInv, TypeOK, Bus!TypeOK
  <2> HIDE DEF room
  <2>3. reqack' \in BOOLEAN
    BY <2>1, <2>2
  <2>4. aborted' \in BOOLEAN
    BY <2>1, <2>2, Zenon
  <2>5. ~aborted' /\ bus_reqcyc /\ rx_count # 0 => reqack'
    BY <2>1, <2>2
  <2> QED
    BY <2>3, <2>4, <2>5
<1>4. fetch' \in FetchOp
  <2>1. NoFetch \in FetchOp
    <3>1. 0 \in Word
      BY DEF Word
    <3> QED
      BY <3>1 DEF NoFetch, FetchOp
  <2>2. Fetches \subseteq FetchOp
    BY DEF FetchOp, Fetches
  <2> QED
    BY <2>1, <2>2 DEF FallingEdge, FetchUnit, IInv, TypeOK
<1>5. TypeOK'
  BY <1>1, <1>3, <1>4
     DEF IInv, TypeOK, Arb!TypeOK, IC!TypeOK, DC!TypeOK, Bus!TypeOK
<1>6. FetchInv'
  <2>1. CASE fetch.up /\ ~icRegs.ack
    <3>1. fetch' = fetch
      BY <2>1 DEF FallingEdge, FetchUnit
    <3> QED
      BY <1>1, <3>1 DEF IInv, FetchInv
  <2>2. CASE fetch.up /\ icRegs.ack
    <3>1. ~fetch'.up
      BY <2>2 DEF FallingEdge, FetchUnit, NoFetch
    <3> QED
      BY <1>1, <2>2, <3>1 DEF IInv, FetchInv
  <2>3. CASE ~fetch.up
    <3>1. fetch' \in Fetches \/ ~fetch'.up
      BY <2>3 DEF FallingEdge, FetchUnit, NoFetch
    <3> QED
      BY <1>1, <2>3, <3>1 DEF IInv, FetchInv
  <2> QED
    BY <2>1, <2>2, <2>3
<1>7. AccessInv' /\ EvictInv' /\ VictimInv'
  BY <1>1, <1>3 DEF IInv, AccessInv, EvictInv, VictimInv
<1>8. BurstInv'
  <2>1. rx_count > 0 => bus_reqcyc
    BY DcacheGrant DEF IInv, BurstInv
  <2>2. rx_count \in Nat
    BY DEF IInv, TypeOK, Bus!TypeOK
  <2> QED
    BY <1>1, <1>2, <1>3, <2>1, <2>2 DEF IInv, BurstInv
<1> QED
  BY <1>5, <1>6, <1>7, <1>8 DEF IInv

-----------------------------------------------------------------------------
(* An assert fails in tick, so the simulation never stops before a tick(1).  *)
HaltInv == aborted => phase # "high"

(* The inductive invariant holds in every reachable state.                   *)
THEOREM Invariance == Spec => [](IInv /\ HaltInv)
<1>1. Init => IInv /\ HaltInv
  BY InitInv DEF Init, HaltInv
<1>2. IInv /\ HaltInv /\ [Next]_vars => (IInv /\ HaltInv)'
  <2> SUFFICES ASSUME IInv, HaltInv, [Next]_vars
               PROVE  (IInv /\ HaltInv)'
    OBVIOUS
  <2>1. CASE ~aborted /\ RisingEdge
    <3>1. ~aborted'
      BY <2>1 DEF RisingEdge, busVars
    <3> QED
      BY <2>1, <3>1, EdgeInv DEF HaltInv
  <2>2. CASE ~aborted /\ TickHigh
    <3>1. PICK key \in BOOLEAN, sched \in BOOLEAN, done \in Lines \cup {NoLine} :
             High(key, sched, done)
      BY <2>2 DEF TickHigh
    <3>2. phase' = "low"
      BY <3>1 DEF High
    <3> QED
      BY <2>2, <3>1, <3>2, HighInv DEF HaltInv
  <2>3. CASE ~aborted /\ FallingEdge
    <3>1. phase' = "edge"
      BY <2>3 DEF FallingEdge
    <3> QED
      BY <2>3, <3>1, FallInv DEF HaltInv
  <2>4. CASE UNCHANGED vars
    <3>1. /\ phase' = phase /\ fetch' = fetch /\ access' = access /\ owner' = owner
          /\ icRegs' = icRegs /\ icRows' = icRows /\ icOut' = icOut
          /\ dcRegs' = dcRegs /\ dcRows' = dcRows /\ dcOut' = dcOut
          /\ ram' = ram /\ rx_count' = rx_count /\ xfer_addr' = xfer_addr
          /\ addr_to_tag' = addr_to_tag /\ tx_queue' = tx_queue
          /\ reqack' = reqack /\ resp' = resp /\ kbd' = kbd /\ transq' = transq
          /\ aborted' = aborted
      BY <2>4 DEF vars, portVars, cacheVars, busVars
    <3>2. TypeOK'
      BY <3>1 DEF IInv, TypeOK, Arb!TypeOK, IC!TypeOK, DC!TypeOK, Bus!TypeOK
    <3>3. (FetchInv /\ AccessInv /\ EvictInv)'
      BY <3>1 DEF IInv, FetchInv, AccessInv, EvictInv
    <3>4. Driver' = Driver
      BY <3>1 DEF Driver, Arb!Driver
    <3>5. (BurstInv /\ VictimInv /\ HaltInv)'
      BY <3>1, <3>4 DEF IInv, BurstInv, VictimInv, HaltInv
    <3> QED
      BY <3>2, <3>3, <3>5 DEF IInv
  <2> QED
    BY <2>1, <2>2, <2>3, <2>4 DEF Next
<1> QED
  BY <1>1, <1>2, PTL DEF Spec

(* Every register of the caches, the arbiter and tick keeps its type: no     *)
(* counter leaves its range and every beat that is stored is a value.        *)
THEOREM TypeCorrect == Spec => []TypeOK
<1>1. IInv /\ HaltInv => TypeOK
  BY DEF IInv
<1> QED
  BY <1>1, Invariance, PTL

(* The D-cache's counter and tick's rx_count never drift apart: every word   *)
(* that tick stores is the victim's word for that place, whatever the DRAM   *)
(* and the other cache do in between and however long a line is.             *)
THEOREM BurstSafe == Spec => []BurstAligned
<1>1. IInv /\ HaltInv => BurstAligned
  <2> SUFFICES ASSUME IInv, HaltInv, phase = "high", rx_count > 0
               PROVE  /\ Driver = "dc"
                      /\ xfer_addr = dcOut.tag
                      /\ bus_req = dcOut.data[Beats - rx_count]
    BY DEF BurstAligned, Driver
  <2>1. ~aborted
    BY DEF HaltInv
  <2>2. dcRegs.state = "C" /\ Driver = "dc" /\ xfer_addr = dcOut.tag
    BY <2>1 DEF IInv, BurstInv
  <2>3. rx_count \in Nat /\ dcRegs.counter \in Nat /\ Beats \in Nat
    BY DEF IInv, TypeOK, DC!TypeOK, DC!RegsType, DC!Counter, Bus!TypeOK
  <2>4. dcRegs.counter > 1 /\ rx_count = Beats + 2 - dcRegs.counter
    BY <2>1, <2>2, <2>3 DEF IInv, BurstInv
  <2>5. Beats - rx_count = dcRegs.counter - 2
    BY <2>3, <2>4
  <2>6. bus_req = dcRegs.req
    BY <2>2 DEF bus_req, Driver
  <2>7. dcRegs.req = dcOut.data[dcRegs.counter - 2]
    BY <2>2, <2>4 DEF IInv, EvictInv
  <2> QED
    BY <2>2, <2>5, <2>6, <2>7
<1> QED
  BY <1>1, Invariance, PTL

(* No store is lost to an eviction: when STATED gives the row to another     *)
(* line, every word of the dirty line it held is in ram.                     *)
THEOREM DirtyRowsSafe == Spec => DirtyRowsReachRam
<1> DEFINE Kept == \A s \in Sets : LET row == dcRows[s] IN
                      row.dirty /\ dcRows'[s].tag # row.tag => ram[row.tag] = row.data
<1>1. IInv /\ HaltInv /\ [Next]_vars => [Kept]_vars
  <2> SUFFICES ASSUME IInv, Next, NEW s \in Sets,
                      dcRows[s].dirty, dcRows'[s].tag # dcRows[s].tag
               PROVE  ram[dcRows[s].tag] = dcRows[s].data
    BY DEF Kept
  <2>1. ~aborted /\ RisingEdge
    BY DEF Next, TickHigh, High, FallingEdge, cacheVars
  <2>2. /\ dcReq \in BOOLEAN /\ dc_reqack \in BOOLEAN
        /\ dcReq \/ dcRegs.state # "A" => access \in Loads \cup Stores
        /\ DC!TypeOK /\ DC!Step(dcReq, access, dc_reqack, resp)
    BY <2>1 DEF RisingEdge, IInv, TypeOK, AccessInv, dcReq, dc_reqack, Arb!DcReqack,
                AccessOp, Bus!TypeOK, DC!TypeOK, DC!RegsType
  <2>3. AskForLine(access) /\ s = SetOf[access.line]
    <3>1. ~Elsewhere(dcReq, access)
      BY DEF Elsewhere
    <3>2. ~DirtyMiss(access) /\ ~CleanMiss /\ ~EndEviction(dc_reqack)
      BY DEF DirtyMiss, CleanMiss, EndEviction
    <3>3. /\ ~SendAddress(access) /\ ~SendWord(access, dc_reqack)
          /\ ~HoldWord(access, dc_reqack)
      BY DEF SendAddress, SendWord, HoldWord, InEviction
    <3>4. AskForLine(access)
      BY <2>2, <3>1, <3>2, <3>3, DCacheMoves
    <3> QED
      BY <3>4 DEF AskForLine
  <2>4. /\ dcRows[s].tag \in Lines
        /\ \A w \in Word : ram[dcRows[s].tag][w] = dcRows[s].data[w]
    BY <2>1, <2>3 DEF IInv, VictimInv, AskForLine
  <2>5. ram[dcRows[s].tag] \in [Word -> Data]
    BY <2>4 DEF IInv, TypeOK, Bus!TypeOK, Bus!Word, Word, Bus!Data, Data
  <2>6. dcRows[s].data \in [Word -> Data]
    BY DEF IInv, TypeOK, DC!TypeOK, DC!RowType, DC!Word, Word, Data
  <2> QED
    BY <2>4, <2>5, <2>6
<1> QED
  BY <1>1, Invariance, PTL DEF Spec, DirtyRowsReachRam, Kept
=============================================================================
