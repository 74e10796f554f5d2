------------------------- MODULE SerialMemoryProofs -------------------------
(***************************************************************************)
(* Proofs about the contents of MemorySystem: what the caches hold is what  *)
(* ram holds, and together they are the one memory of SerialMemory.         *)
(***************************************************************************)
EXTENDS RepliesProofs

(* No row claims a line of the program after reset.                          *)
ResetOutside == \A s \in Sets : ResetLine[s] \notin FetchLines \cup DataLines

USE SizesAssumption, LinesAssumption, ValuesAssumption

-----------------------------------------------------------------------------
(* The requesters and the two acknowledgements.                              *)
PortInv ==
    /\ fetch \in Fetches \cup {NoFetch}
    /\ access \in Loads \cup Stores \cup {NoAccess}
    /\ phase = "edge" /\ icRegs.ack => ~fetch.up
    /\ phase # "edge" /\ icRegs.ack => fetch.up
    /\ dcRegs.ack => access.up

(* The D-cache: the row that is refilled has its new tag and is clean, and   *)
(* what is there of a clean row is right.                                    *)
AccessCopy ==
    /\ dcRegs.state = "E" \/ (dcRegs.state = "D" /\ dcRegs.reqcyc) =>
          LET row == dcRows[SetOf[access.line]]
          IN  row.tag = access.line /\ ~row.dirty
    /\ CleanRowsMatchRam

(* The I-cache: the same, of the lines that are fetched (no store reaches    *)
(* them, unless a row of the D-cache claims one after reset).                *)
Refetching(s) == icRegs.state \in {"D", "E"} /\ SetOf[fetch.line] = s

InCopy(s) == IF Refetching(s)
             THEN {w \in Word : icRegs.state = "E" /\ w < icRegs.counter}
             ELSE Word

FetchCopy ==
    ResetApart =>
        /\ icRegs.state = "B" => icOut = icRows[SetOf[fetch.line]]
        /\ icRegs.state = "E" \/ icRegs.reqcyc => icRows[SetOf[fetch.line]].tag = fetch.line
        /\ \A s \in Sets : LET row == icRows[s] IN
              row.tag \in FetchLines =>
                 SetOf[row.tag] = s /\ \A w \in InCopy(s) : row.data[w] = ram[row.tag][w]

SInv == PortInv /\ AccessCopy /\ FetchCopy

-----------------------------------------------------------------------------
(* The beat that a cache takes is the word of its line that comes next.      *)
Brings(beat, tag) == beat.cyc /\ beat.tag = tag

Due(words, r) == words[r.counter]

Served(q, map, words, r, line, tag, taken, exact, beat) ==
    /\ q \in Seq(Bus!BeatType) /\ Reader(r) /\ r.state = "E" /\ exact
    /\ AfterTick(q, map, words, r, line, tag, taken, exact)
    /\ Shows(beat, q) /\ Brings(beat, tag)

LEMMA BeatData ==
    ASSUME NEW q, NEW map, NEW words, NEW r, NEW line, NEW tag, NEW taken, NEW exact,
           NEW beat, Served(q, map, words, r, line, tag, taken, exact, beat)
    PROVE  r.counter < Beats /\ beat.data = Due(words, r)
<1> USE DEF Served
<1> DEFINE n == Owed(map, r, line, tag, 0)
<1>1. PICK o \in Nat : RunAt(q, tag, n, o) /\ RunData(q, n, o, words)
  BY DEF AfterTick, Run
<1>2. q # <<>> /\ beat.data = Head(q).data /\ Head(q).tag = tag
  BY DEF Shows, Brings, Bus!Quiet
<1>3. Len(q) \in Nat /\ Len(q) > 0 /\ Head(q) = q[1]
  BY <1>2
<1>4. n \in Nat
  BY DEF Owed, Reader
<1>5. o = 0 /\ n > 0
  <2>1. 0 < 1 /\ o < 1 /\ 1 <= o + n
    BY <1>1, <1>2, <1>3 DEF RunAt
  <2> HIDE DEF n
  <2> QED
    BY <1>4, <2>1
<1>6. n = Beats - r.counter
  BY <1>5 DEF Owed, Reader
<1>7. q[o + 1].data = words[Beats - n + 1 - 1]
  <2> HIDE DEF n
  <2>1. 1 \in 1 .. n
    BY <1>4, <1>5
  <2> QED
    BY <1>1, <2>1 DEF RunData
<1>8. r.counter \in Nat /\ Beats \in Nat
  BY DEF Reader
<1>9. Beats - n + 1 - 1 = r.counter /\ r.counter < Beats
  <2> DEFINE c == r.counter
  <2>1. c \in Nat /\ Beats \in Nat /\ n \in Nat /\ n > 0 /\ n = Beats - c
    BY <1>4, <1>5, <1>6, <1>8
  <2> HIDE DEF n, c
  <2>2. c < Beats
    BY <2>1
  <2>3. Beats - n = c
    BY <2>1
  <2> QED
    BY <2>1, <2>2, <2>3 DEF c
<1> QED
  BY <1>2, <1>3, <1>5, <1>7, <1>9 DEF Due

-----------------------------------------------------------------------------
(* The steps of a cache, as far as its rows and its answers go.              *)
DataAtRest ==
    /\ dcRows' = dcRows /\ ~dcRegs'.ack
    /\ dcRegs.state \notin {"D", "E"} /\ dcRegs'.state # "E"
    /\ dcRegs'.state = "D" => ~dcRegs'.reqcyc

DataHit(op) ==
    /\ dcRegs.state = "B" /\ dcRegs'.state = "A" /\ dcRegs'.ack
    /\ dcOut.tag = op.line /\ dcRegs'.dataOut = dcOut.data[op.word]
    /\ dcRows' = IF op.store
                 THEN [dcRows EXCEPT ![SetOf[op.line]].data[op.word] = op.value,
                                     ![SetOf[op.line]].dirty = TRUE]
                 ELSE dcRows

DataAsked(op) ==
    /\ dcRegs.state = "D" /\ dcRegs'.state = "D" /\ ~dcRegs'.ack
    /\ dcRows' = [dcRows EXCEPT ![SetOf[op.line]].tag = op.line,
                                ![SetOf[op.line]].dirty = FALSE]

DataGranted(ack) ==
    /\ dcRegs.state = "D" /\ ack
    /\ dcRegs'.state = "E" /\ dcRegs'.counter = 0 /\ ~dcRegs'.ack
    /\ dcRows' = dcRows

DataBeat(op, beat) ==
    /\ dcRegs.state = "E" /\ beat.cyc /\ beat.tag = dcRegs.reqtag /\ ~dcRegs'.ack
    /\ dcRegs.counter < Beats =>
          /\ dcRegs'.state = "E" /\ dcRegs'.counter = dcRegs.counter + 1
          /\ dcRows' = [dcRows EXCEPT ![SetOf[op.line]].data[dcRegs.counter] = beat.data]

DataWait ==
    /\ dcRegs.state = "E" /\ dcRows' = dcRows /\ ~dcRegs'.ack
    /\ dcRegs'.counter = dcRegs.counter
    /\ dcRegs'.state = IF dcRegs.counter = Beats THEN "B" ELSE "E"

(* Each step of the D-cache is one of them. *)
LEMMA DataSteps ==
    ASSUME DC!TypeOK, dcReq \in BOOLEAN, dc_reqack \in BOOLEAN,
           DC!Step(dcReq, access, dc_reqack, resp)
    PROVE  /\ \/ DataAtRest \/ DataHit(access) \/ DataAsked(access) \/ DataGranted(dc_reqack)
              \/ DataBeat(access, resp) \/ DataWait
           /\ dcRegs.state = "A" /\ ~dcReq => DataAtRest
<1> USE DEF DC!TypeOK, DC!RegsType, DC!Defaults
<1>1. CASE ~dcReq /\ DC!Idle
  BY <1>1 DEF DC!Idle, DataAtRest
<1>2. CASE dcReq /\ DC!Lookup(access)
  BY <1>2 DEF DC!Lookup, DataAtRest
<1>3. CASE DC!Hit(access)
  BY <1>3 DEF DC!Hit, DataHit
<1>4. CASE DC!Miss(access)
  BY <1>4 DEF DC!Miss, DataAtRest
<1>5. CASE DC!EvictAddress(access)
  BY <1>5 DEF DC!EvictAddress, DataAtRest
<1>6. CASE DC!EvictBeat(access, dc_reqack)
  BY <1>6 DEF DC!EvictBeat, DataAtRest
<1>7. CASE DC!EvictDone(access, dc_reqack)
  BY <1>7 DEF DC!EvictDone, DataAtRest
<1>8. CASE DC!EvictHold(access, dc_reqack)
  BY <1>8 DEF DC!EvictHold, DataAtRest
<1>9. CASE DC!Request(access, dc_reqack)
  BY <1>9 DEF DC!Request, DataAsked
<1>10. CASE DC!Granted(access, dc_reqack)
  BY <1>10 DEF DC!Granted, DataGranted
<1>11. CASE DC!Beat(access, resp)
  <2>1. dcRegs.counter < Beats => dcRegs.counter \in DC!Word
    BY DEF DC!Counter, DC!Word
  <2> QED
    BY <1>11, <2>1 DEF DC!Beat, DataBeat
<1>12. CASE DC!Wait(access, resp)
  BY <1>12 DEF DC!Wait, DataWait
<1> QED
  BY <1>1, <1>2, <1>3, <1>4, <1>5, <1>6, <1>7, <1>8, <1>9, <1>10, <1>11, <1>12
     DEF DC!Step

TextAtRest(line) ==
    /\ icRows' = icRows /\ ~icRegs'.ack
    /\ icRegs.state \notin {"D", "E"} /\ icRegs'.state # "E" /\ ~icRegs'.reqcyc
    /\ icRegs'.state = "B" => icOut' = icRows[SetOf[line]]

TextHit(line, word) ==
    /\ icRegs.state = "B" /\ icRegs'.state = "A" /\ icRegs'.ack /\ ~icRegs'.reqcyc
    /\ icOut.tag = line /\ icRegs'.dataOut = icOut.data[word]
    /\ icRows' = icRows

TextAsked(line) ==
    /\ icRegs.state = "D" /\ icRegs'.state = "D" /\ ~icRegs'.ack
    /\ icRows' = [icRows EXCEPT ![SetOf[line]].tag = line]

TextGranted(ack) ==
    /\ icRegs.state = "D" /\ ack
    /\ icRegs'.state = "E" /\ icRegs'.counter = 0 /\ ~icRegs'.ack /\ ~icRegs'.reqcyc
    /\ icRows' = icRows

TextBeat(line, beat) ==
    /\ icRegs.state = "E" /\ beat.cyc /\ beat.tag = icRegs.reqtag
    /\ ~icRegs'.ack /\ ~icRegs'.reqcyc
    /\ icRegs.counter < Beats =>
          /\ icRegs'.state = "E" /\ icRegs'.counter = icRegs.counter + 1
          /\ icRows' = [icRows EXCEPT ![SetOf[line]].data[icRegs.counter] = beat.data]

TextWait(line) ==
    /\ icRegs.state = "E" /\ icRows' = icRows /\ ~icRegs'.ack /\ ~icRegs'.reqcyc
    /\ icRegs'.counter = icRegs.counter
    /\ icRegs'.state = IF icRegs.counter = Beats THEN "B" ELSE "E"
    /\ icOut' = icRows[SetOf[line]]

LEMMA TextSteps ==
    ASSUME IC!TypeOK, NEW procReq \in BOOLEAN, NEW line, NEW word, NEW ack \in BOOLEAN,
           NEW beat, IC!Step(procReq, line, word, ack, beat)
    PROVE  \/ TextAtRest(line) \/ TextHit(line, word) \/ TextAsked(line)
           \/ TextGranted(ack) \/ TextBeat(line, beat) \/ TextWait(line)
<1> USE DEF IC!TypeOK, IC!RegsType, IC!Defaults, IC!ReadPort
<1>1. CASE IC!Idle
  BY <1>1 DEF IC!Idle, TextAtRest
<1>2. CASE procReq /\ IC!Lookup(line)
  BY <1>2 DEF IC!Lookup, TextAtRest
<1>3. CASE IC!Hit(line, word)
  BY <1>3 DEF IC!Hit, TextHit
<1>4. CASE IC!Miss(line)
  BY <1>4 DEF IC!Miss, TextAtRest
<1>5. CASE IC!Request(line, ack)
  BY <1>5 DEF IC!Request, TextAsked
<1>6. CASE IC!Granted(line, ack)
  BY <1>6 DEF IC!Granted, TextGranted
<1>7. CASE IC!Beat(line, beat)
  <2>1. icRegs.counter < Beats => icRegs.counter \in IC!Word
    BY DEF IC!Counter, IC!Word
  <2> QED
    BY <1>7, <2>1 DEF IC!Beat, TextBeat
<1>8. CASE IC!Wait(line, beat)
  BY <1>8 DEF IC!Wait, TextWait
<1> QED
  BY <1>1, <1>2, <1>3, <1>4, <1>5, <1>6, <1>7, <1>8 DEF IC!Step

-----------------------------------------------------------------------------
LEMMA InitStored == Init => SInv
<1> SUFFICES ASSUME Init PROVE SInv
  OBVIOUS
<1> USE DEF Init
<1>1. PortInv
  BY DEF PortInv, IC!Init, DC!Init
<1>2. AccessCopy
  <2>1. \A s \in Sets : dcRows[s].dirty
    BY DEF DC!Init, DC!ResetRow
  <2> QED
    BY <2>1 DEF AccessCopy, CleanRowsMatchRam, DC!Init
<1>3. FetchCopy
  <2>1. \A s \in Sets : icRows[s].tag = NoLine
    BY DEF IC!Init, IC!ResetRow
  <2>2. NoLine \notin FetchLines
    BY DEF Lines
  <2> QED
    BY <2>1, <2>2 DEF FetchCopy, IC!Init
<1> QED
  BY <1>1, <1>2, <1>3 DEF SInv

(* What the two caches see at a rising edge.                                 *)
LEMMA EdgeInputs ==
    ASSUME IInv, RInv, RisingEdge
    PROVE  /\ phase = "edge" /\ phase' = "high" /\ fetch' = fetch /\ ram' = ram
           /\ dcRegs.state # "A" \/ dcReq => access' = access /\ access \in Loads \cup Stores
           /\ icRegs.state # "A" => fetch.line \in FetchLines /\ SetOf[fetch.line] \in Sets
           /\ dcRegs.state # "A" => access.line \in DataLines /\ SetOf[access.line] \in Sets
           /\ ic_reqack => icRegs.reqcyc
           /\ dc_reqack => dcRegs.reqcyc
           /\ Reader(icRegs) /\ Reader(dcRegs)
           /\ \/ DataAtRest \/ DataHit(access) \/ DataAsked(access)
              \/ DataGranted(dc_reqack) \/ DataBeat(access, resp) \/ DataWait
           /\ dcRegs.state = "A" /\ ~dcReq => DataAtRest
           /\ \/ TextAtRest(fetch.line) \/ TextHit(fetch.line, fetch.word)
              \/ TextAsked(fetch.line) \/ TextGranted(ic_reqack)
              \/ TextBeat(fetch.line, resp) \/ TextWait(fetch.line)
<1>1. /\ phase = "edge" /\ phase' = "high" /\ fetch' = fetch /\ ram' = ram
      /\ dcRegs.state # "A" => access.up
      /\ access.up => access \in Loads \cup Stores
      /\ fetch.up => fetch \in Fetches
      /\ icRegs.state # "A" => fetch.up
  BY DEF RisingEdge, busVars, IInv, FetchInv, AccessInv
<1>2. dcRegs.state # "A" \/ dcReq => access' = access /\ access \in Loads \cup Stores
  BY <1>1 DEF RisingEdge, MemStage, dcReq, IInv, AccessInv
<1>3. /\ icRegs.state # "A" => fetch.line \in FetchLines /\ SetOf[fetch.line] \in Sets
      /\ dcRegs.state # "A" => access.line \in DataLines /\ SetOf[access.line] \in Sets
  BY <1>1 DEF Fetches, Loads, Stores, Presented, Lines
<1>4. /\ ic_reqack => icRegs.reqcyc
      /\ dc_reqack => dcRegs.reqcyc
  BY <1>1, EdgeGrants DEF IInv, RInv
<1>d. /\ DC!TypeOK /\ dcReq \in BOOLEAN /\ dc_reqack \in BOOLEAN
      /\ DC!Step(dcReq, access, dc_reqack, resp)
  BY DEF IInv, TypeOK, AccessOp, dcReq, dc_reqack, Arb!DcReqack, Bus!TypeOK,
         DC!TypeOK, DC!RegsType, RisingEdge
<1>5. /\ IC!TypeOK /\ fetch.up \in BOOLEAN /\ ic_reqack \in BOOLEAN
      /\ IC!Step(fetch.up, fetch.line, fetch.word, ic_reqack, resp)
  BY DEF IInv, TypeOK, FetchOp, ic_reqack, Arb!IcReqack, Bus!TypeOK, RisingEdge
<1>6. /\ \/ DataAtRest \/ DataHit(access) \/ DataAsked(access)
         \/ DataGranted(dc_reqack) \/ DataBeat(access, resp) \/ DataWait
      /\ dcRegs.state = "A" /\ ~dcReq => DataAtRest
  BY <1>d, DataSteps
<1>7. \/ TextAtRest(fetch.line) \/ TextHit(fetch.line, fetch.word)
      \/ TextAsked(fetch.line) \/ TextGranted(ic_reqack)
      \/ TextBeat(fetch.line, resp) \/ TextWait(fetch.line)
  BY <1>5, TextSteps
<1> QED
  BY <1>1, <1>2, <1>3, <1>4, <1>6, <1>7, ReaderTypes

LEMMA EdgePorts ==
    ASSUME IInv, RInv, SInv, RisingEdge
    PROVE  PortInv'
<1>1. fetch' = fetch /\ phase' = "high" /\ PortInv
  BY EdgeInputs DEF SInv
<1>2. access' \in Loads \cup Stores \cup {NoAccess}
  BY <1>1 DEF PortInv, RisingEdge, MemStage
<1>3. icRegs'.ack => fetch'.up
  <2>1. icRegs'.ack => icRegs.state = "B"
    BY EdgeInputs DEF TextAtRest, TextHit, TextAsked, TextGranted, TextBeat, TextWait
  <2> QED
    BY <1>1, <2>1 DEF IInv, FetchInv
<1>4. dcRegs'.ack => access'.up
  <2>1. dcRegs'.ack => dcRegs.state = "B"
    BY EdgeInputs DEF DataAtRest, DataHit, DataAsked, DataGranted, DataBeat, DataWait
  <2> QED
    BY <2>1, EdgeInputs DEF IInv, AccessInv
<1> QED
  BY <1>1, <1>2, <1>3, <1>4 DEF PortInv

(* The word that a beat brings to the D-cache.                               *)
LEMMA DataBeatWord ==
    ASSUME IInv, RInv, RisingEdge, DataBeat(access, resp)
    PROVE  /\ dcRegs.counter < Beats /\ resp.data = ram[access.line][dcRegs.counter]
           /\ dcRegs.counter \in Word
<1> DEFINE sure == TRUE
           words == ram[access.line]
           line == access.line
           taken == AccessTaken
<1>1. /\ dcRegs.state = "E" /\ Brings(resp, "DRead")
      /\ Shows(resp, tx_queue) /\ Reader(dcRegs)
  BY ReaderTypes DEF Brings, DataBeat, RInv, RequestInv
<1>2. tx_queue \in Seq(Bus!BeatType)
  BY DEF IInv, TypeOK, Bus!TypeOK
<1>3. AfterTick(tx_queue, addr_to_tag, words, dcRegs, line, "DRead",
                taken, sure)
  BY DEF RInv, AccessRead, RisingEdge
<1>4. sure = TRUE
  OBVIOUS
<1> HIDE DEF sure, words, taken, line
<1>s. Served(tx_queue, addr_to_tag, words, dcRegs, line, "DRead", taken, sure, resp)
  BY <1>1, <1>2, <1>3, <1>4 DEF Served
<1>5. dcRegs.counter < Beats /\ resp.data = Due(words, dcRegs)
  BY <1>s, BeatData
<1>6. dcRegs.counter \in Word
  <2> DEFINE c == dcRegs.counter
  <2>1. c \in Nat /\ c < Beats /\ Beats \in Nat
    BY <1>1, <1>5 DEF Reader
  <2> HIDE DEF c
  <2>2. c \in Word
    BY <2>1 DEF Word
  <2> QED
    BY <2>2 DEF c
<1> QED
  BY <1>5, <1>6 DEF words, Due

LEMMA TextBeatWord ==
    ASSUME IInv, RInv, RisingEdge, ResetApart, TextBeat(fetch.line, resp)
    PROVE  /\ icRegs.counter < Beats /\ resp.data = ram[fetch.line][icRegs.counter]
           /\ icRegs.counter \in Word
<1> DEFINE apart == ResetApart
           words == ram[fetch.line]
           line == fetch.line
           taken == FetchTaken
<1>1. /\ icRegs.state = "E" /\ Brings(resp, "IRead")
      /\ Shows(resp, tx_queue) /\ Reader(icRegs)
  BY ReaderTypes DEF Brings, TextBeat, RInv, RequestInv
<1>2. tx_queue \in Seq(Bus!BeatType)
  BY DEF IInv, TypeOK, Bus!TypeOK
<1>3. AfterTick(tx_queue, addr_to_tag, words, icRegs, line, "IRead",
                taken, apart)
  BY DEF RInv, FetchRead, RisingEdge
<1>4. apart = TRUE
  BY DEF ResetApart
<1> HIDE DEF apart, words, taken, line
<1>s. Served(tx_queue, addr_to_tag, words, icRegs, line, "IRead", taken, apart, resp)
  BY <1>1, <1>2, <1>3, <1>4 DEF Served
<1>5. icRegs.counter < Beats /\ resp.data = Due(words, icRegs)
  BY <1>s, BeatData
<1>6. icRegs.counter \in Word
  <2> DEFINE c == icRegs.counter
  <2>1. c \in Nat /\ c < Beats /\ Beats \in Nat
    BY <1>1, <1>5 DEF Reader
  <2> HIDE DEF c
  <2>2. c \in Word
    BY <2>1 DEF Word
  <2> QED
    BY <2>2 DEF c
<1> QED
  BY <1>5, <1>6 DEF words, Due

(* A refill brings in the words of a row one by one; nothing else changes    *)
(* the contents of a clean row.                                              *)
LEMMA EdgeAccessCopy ==
    ASSUME IInv, RInv, SInv, RisingEdge
    PROVE  AccessCopy'
<1> DEFINE set == SetOf[access.line]
           then(s) == Fetched(s)'
           kept(s) == ~dcRows'[s].dirty =>
                         \A w \in then(s) : dcRows'[s].data[w] = ram[dcRows'[s].tag][w]
<1>1. /\ ram' = ram
      /\ dcRegs.state # "A" => access' = access /\ set \in Sets
      /\ dc_reqack => dcRegs.reqcyc
      /\ \/ DataAtRest \/ DataHit(access) \/ DataAsked(access)
         \/ DataGranted(dc_reqack) \/ DataBeat(access, resp) \/ DataWait
  BY EdgeInputs
<1>2. /\ AccessCopy /\ DC!TypeOK
      /\ \A s \in Sets : ~dcRows[s].dirty =>
            \A w \in Fetched(s) : dcRows[s].data[w] = ram[dcRows[s].tag][w]
  BY DEF SInv, AccessCopy, CleanRowsMatchRam, IInv, TypeOK
<1>3. \A s \in Sets : /\ ~Refilling(s) => Fetched(s) = Word
                      /\ dcRegs.state # "A" /\ s # set => ~Refilling(s)
                      /\ ~Refilling(s)' => then(s) = Word
                      /\ dcRegs.state # "A" /\ s # set => ~Refilling(s)'
  BY <1>1 DEF Refilling, Fetched
<1>4. dcRows \in [Sets -> DC!RowType]
  BY <1>2 DEF DC!TypeOK
<1>k. (\A s \in Sets : kept(s)) => CleanRowsMatchRam'
  BY <1>1 DEF CleanRowsMatchRam
<1> HIDE DEF set, then, kept
<1>5. CASE DataAtRest
  <2>1. \A s \in Sets : Fetched(s) = Word
    BY <1>5 DEF DataAtRest, Refilling, Fetched
  <2>2. \A s \in Sets : then(s) \subseteq Word
    BY DEF Fetched, then
  <2>3. \A s \in Sets : kept(s)
    BY <1>1, <1>2, <1>5, <2>1, <2>2 DEF DataAtRest, kept
  <2> QED
    BY <1>5, <1>k, <2>3 DEF DataAtRest, AccessCopy
<1>6. CASE DataHit(access)
  <2>1. \A s \in Sets : Fetched(s) = Word /\ then(s) = Word
    BY <1>6 DEF DataHit, Refilling, Fetched, then
  <2>2. \A s \in Sets : dcRows'[s].dirty \/ dcRows'[s] = dcRows[s]
    <3> SUFFICES ASSUME NEW s \in Sets PROVE dcRows'[s].dirty \/ dcRows'[s] = dcRows[s]
      OBVIOUS
    <3> QED
      BY <1>1, <1>4, <1>6 DEF DataHit, set, DC!RowType
  <2>3. \A s \in Sets : kept(s)
    BY <1>2, <2>1, <2>2 DEF kept
  <2> QED
    BY <1>6, <1>k, <2>3 DEF DataHit, AccessCopy
<1>7. CASE DataAsked(access)
  <2>1. /\ \A s \in Sets : s # set => dcRows'[s] = dcRows[s]
        /\ dcRows'[set].tag = access.line /\ ~dcRows'[set].dirty
    BY <1>1, <1>4, <1>7 DEF DataAsked, set, DC!RowType
  <2>2. then(set) = {} /\ access' = access
    BY <1>1, <1>7 DEF DataAsked, Refilling, Fetched, set, then
  <2>3. ASSUME NEW s \in Sets PROVE kept(s)
    <3>0. CASE s = set
      BY <2>2, <3>0 DEF kept
    <3>1. CASE s # set
      <4>1. then(s) = Word /\ Fetched(s) = Word
        BY <1>3, <1>7, <3>1 DEF DataAsked
      <4> QED
        BY <1>2, <2>1, <3>1, <4>1 DEF kept
    <3> QED
      BY <3>0, <3>1
  <2> QED
    BY <1>k, <2>1, <2>2, <2>3 DEF AccessCopy, set
<1>8. CASE DataGranted(dc_reqack)
  <2>1. /\ dcRows' = dcRows /\ access' = access
        /\ dcRows[set].tag = access.line /\ ~dcRows[set].dirty
    BY <1>1, <1>2, <1>8 DEF DataGranted, AccessCopy, set
  <2>2. then(set) = {}
    BY <1>1, <1>8 DEF DataGranted, Refilling, Fetched, set, Word, then
  <2>3. ASSUME NEW s \in Sets PROVE kept(s)
    <3>0. CASE s = set
      BY <2>2, <3>0 DEF kept
    <3>1. CASE s # set
      <4>1. then(s) = Word /\ Fetched(s) = Word
        BY <1>3, <1>8, <3>1 DEF DataGranted
      <4> QED
        BY <1>2, <2>1, <3>1, <4>1 DEF kept
    <3> QED
      BY <3>0, <3>1
  <2> QED
    BY <1>k, <2>1, <2>3 DEF AccessCopy, set
<1>9. CASE DataBeat(access, resp)
  <2>1. /\ dcRegs.counter < Beats /\ resp.data = ram[access.line][dcRegs.counter]
        /\ dcRegs.counter \in Word
    BY <1>9, DataBeatWord
  <2> DEFINE c == dcRegs.counter
  <2>2. /\ dcRegs.state = "E" /\ dcRegs'.state = "E" /\ dcRegs'.counter = c + 1
        /\ dcRows' = [dcRows EXCEPT ![set].data[c] = resp.data]
        /\ set \in Sets /\ access' = access
    BY <1>1, <1>9, <2>1 DEF DataBeat, set
  <2>3. dcRows[set].tag = access.line /\ ~dcRows[set].dirty
    BY <1>2, <2>2 DEF AccessCopy, set
  <2>4. /\ \A s \in Sets : s # set => dcRows'[s] = dcRows[s]
        /\ dcRows'[set].tag = dcRows[set].tag /\ dcRows'[set].dirty = dcRows[set].dirty
        /\ \A w \in Word : dcRows'[set].data[w] =
              IF w = c THEN resp.data ELSE dcRows[set].data[w]
    <3>1. dcRows[set] \in DC!RowType /\ dcRows[set].data \in [Word -> Data]
      BY <1>4, <2>2 DEF DC!RowType, DC!Word, Word, Data
    <3> HIDE DEF c
    <3> QED
      BY <1>4, <2>2, <3>1 DEF DC!RowType
  <2>5. /\ Fetched(set) = {w \in Word : w < c}
        /\ then(set) = {w \in Word : w < c + 1}
    BY <2>2 DEF Fetched, Refilling, set, then
  <2>6. ASSUME NEW s \in Sets PROVE kept(s)
    <3>1. CASE s # set
      <4>1. then(s) = Word /\ Fetched(s) = Word
        BY <1>3, <2>2, <3>1
      <4> QED
        BY <1>2, <2>4, <3>1, <4>1 DEF kept
    <3>2. CASE s = set
      <4> SUFFICES ASSUME NEW w \in then(set)
                   PROVE  dcRows'[set].data[w] = ram[dcRows'[set].tag][w]
        BY <3>2 DEF kept
      <4>1. w \in Word /\ (w < c \/ w = c)
        <5>1. w \in Word /\ w < c + 1 /\ c \in Word
          BY <2>1, <2>5
        <5> HIDE DEF c
        <5> QED
          BY <5>1 DEF Word
      <4>2. w < c => dcRows[set].data[w] = ram[access.line][w]
        BY <1>2, <2>3, <2>5, <2>2, <4>1
      <4> QED
        BY <2>1, <2>3, <2>4, <4>1, <4>2
    <3> QED
      BY <3>1, <3>2
  <2> QED
    BY <1>k, <2>2, <2>3, <2>4, <2>6 DEF AccessCopy, set
<1>10. CASE DataWait
  <2>1. /\ dcRows' = dcRows /\ access' = access /\ dcRegs.state = "E"
        /\ dcRows[set].tag = access.line /\ ~dcRows[set].dirty
    BY <1>1, <1>2, <1>10 DEF DataWait, AccessCopy, set
  <2>2. \A s \in Sets : then(s) \subseteq Fetched(s)
    <3> SUFFICES ASSUME NEW s \in Sets PROVE then(s) \subseteq Fetched(s)
      OBVIOUS
    <3>1. CASE s # set
      BY <1>3, <2>1, <3>1
    <3>2. CASE s = set
      <4> DEFINE c == dcRegs.counter
      <4>1. Fetched(s) = {w \in Word : w < c}
        BY <2>1, <3>2 DEF Fetched, Refilling, set
      <4>2. CASE c = Beats
        <5> HIDE DEF c
        <5>1. Fetched(s) = Word
          BY <4>1, <4>2 DEF Word
        <5> QED
          BY <5>1 DEF Fetched, then
      <4>3. CASE c # Beats
        <5>1. dcRegs'.state = "E" /\ dcRegs'.counter = c
          BY <1>10, <4>3 DEF DataWait
        <5>2. then(s) = {w \in Word : w < c}
          BY <2>1, <3>2, <5>1 DEF Fetched, Refilling, set, then
        <5> QED
          BY <4>1, <5>2
      <4> QED
        BY <4>2, <4>3
    <3> QED
      BY <3>1, <3>2
  <2>3. \A s \in Sets : kept(s)
    BY <1>2, <2>1, <2>2 DEF kept
  <2> QED
    BY <1>k, <2>1, <2>3 DEF AccessCopy, set
<1> QED
  BY <1>1, <1>5, <1>6, <1>7, <1>8, <1>9, <1>10

LEMMA EdgeFetchCopy ==
    ASSUME IInv, RInv, SInv, RisingEdge
    PROVE  FetchCopy'
<1> SUFFICES ASSUME ResetApart
             PROVE  /\ icRegs'.state = "B" => icOut' = icRows'[SetOf[fetch'.line]]
                    /\ icRegs'.state = "E" \/ icRegs'.reqcyc =>
                          icRows'[SetOf[fetch'.line]].tag = fetch'.line
                    /\ \A s \in Sets : LET row == icRows'[s] IN
                          row.tag \in FetchLines =>
                             SetOf[row.tag] = s /\ \A w \in InCopy(s)' :
                                row.data[w] = ram'[row.tag][w]
  BY DEF FetchCopy, ResetApart
<1> DEFINE line == fetch.line
           set == SetOf[line]
           then(s) == InCopy(s)'
           kept(s) == icRows'[s].tag \in FetchLines =>
                         /\ SetOf[icRows'[s].tag] = s
                         /\ \A w \in then(s) : icRows'[s].data[w] = ram[icRows'[s].tag][w]
           goal == /\ icRegs'.state = "B" => icOut' = icRows'[set]
                   /\ icRegs'.state = "E" \/ icRegs'.reqcyc => icRows'[set].tag = line
                   /\ \A s \in Sets : kept(s)
<1>1. /\ ram' = ram /\ fetch' = fetch
      /\ icRegs.state # "A" => line \in FetchLines /\ set \in Sets
      /\ ic_reqack => icRegs.reqcyc
      /\ \/ TextAtRest(line) \/ TextHit(line, fetch.word) \/ TextAsked(line)
         \/ TextGranted(ic_reqack) \/ TextBeat(line, resp) \/ TextWait(line)
  BY EdgeInputs
<1>2. /\ icRegs.state = "B" => icOut = icRows[set]
      /\ icRegs.state = "E" \/ icRegs.reqcyc => icRows[set].tag = line
      /\ IC!TypeOK
      /\ \A s \in Sets : icRows[s].tag \in FetchLines =>
            /\ SetOf[icRows[s].tag] = s
            /\ \A w \in InCopy(s) : icRows[s].data[w] = ram[icRows[s].tag][w]
  BY DEF SInv, FetchCopy, IInv, TypeOK
<1>3. \A s \in Sets : /\ ~Refetching(s) => InCopy(s) = Word
                      /\ icRegs.state # "A" /\ s # set => ~Refetching(s)
                      /\ ~Refetching(s)' => then(s) = Word
                      /\ icRegs.state # "A" /\ s # set => ~Refetching(s)'
  BY <1>1 DEF Refetching, InCopy
<1>4. icRows \in [Sets -> IC!RowType]
  BY <1>2 DEF IC!TypeOK
<1>g. SUFFICES goal
  BY <1>1
<1> HIDE DEF set, then, kept, line
<1>5. CASE TextAtRest(line)
  <2>1. \A s \in Sets : InCopy(s) = Word
    BY <1>5 DEF TextAtRest, Refetching, InCopy
  <2>2. \A s \in Sets : then(s) \subseteq Word
    BY DEF InCopy, then
  <2>3. \A s \in Sets : kept(s)
    BY <1>1, <1>2, <1>5, <2>1, <2>2 DEF TextAtRest, kept
  <2> QED
    BY <1>5, <2>3 DEF TextAtRest, set
<1>6. CASE TextHit(line, fetch.word)
  <2>1. \A s \in Sets : InCopy(s) = Word
    BY <1>6 DEF TextHit, Refetching, InCopy
  <2>2. \A s \in Sets : then(s) \subseteq Word
    BY DEF InCopy, then
  <2>3. \A s \in Sets : kept(s)
    BY <1>1, <1>2, <1>6, <2>1, <2>2 DEF TextHit, kept
  <2> QED
    BY <1>6, <2>3 DEF TextHit
<1>7. CASE TextAsked(line)
  <2>1. /\ \A s \in Sets : s # set => icRows'[s] = icRows[s]
        /\ icRows'[set].tag = line
        /\ line \in FetchLines /\ set \in Sets /\ icRegs.state = "D"
    BY <1>1, <1>4, <1>7 DEF TextAsked, set, IC!RowType
  <2>2. then(set) = {}
    BY <1>1, <1>7 DEF TextAsked, Refetching, InCopy, set, line, then
  <2>3. ASSUME NEW s \in Sets PROVE kept(s)
    <3>0. CASE s = set
      BY <2>1, <2>2, <3>0 DEF kept, set
    <3>1. CASE s # set
      <4>1. then(s) = Word /\ InCopy(s) = Word
        BY <1>3, <2>1, <3>1
      <4> QED
        BY <1>2, <2>1, <3>1, <4>1 DEF kept
    <3> QED
      BY <3>0, <3>1
  <2> QED
    BY <1>7, <2>1, <2>3 DEF TextAsked
<1>8. CASE TextGranted(ic_reqack)
  <2>1. icRows' = icRows /\ icRows[set].tag = line /\ icRegs.state = "D"
    BY <1>1, <1>2, <1>8 DEF TextGranted
  <2>2. then(set) = {}
    BY <1>1, <1>8 DEF TextGranted, Refetching, InCopy, set, line, Word, then
  <2>3. ASSUME NEW s \in Sets PROVE kept(s)
    <3>0. CASE s = set
      BY <1>2, <2>1, <2>2, <3>0 DEF kept
    <3>1. CASE s # set
      <4>1. then(s) = Word /\ InCopy(s) = Word
        BY <1>3, <2>1, <3>1
      <4> QED
        BY <1>2, <2>1, <3>1, <4>1 DEF kept
    <3> QED
      BY <3>0, <3>1
  <2> QED
    BY <1>8, <2>1, <2>3 DEF TextGranted
<1>9. CASE TextBeat(line, resp)
  <2>1. /\ icRegs.counter < Beats /\ resp.data = ram[line][icRegs.counter]
        /\ icRegs.counter \in Word
    BY <1>9, TextBeatWord DEF line
  <2> DEFINE c == icRegs.counter
  <2>2. /\ icRegs.state = "E" /\ icRegs'.state = "E" /\ icRegs'.counter = c + 1
        /\ icRows' = [icRows EXCEPT ![set].data[c] = resp.data]
        /\ set \in Sets /\ line \in FetchLines
    BY <1>1, <1>9, <2>1 DEF TextBeat, set
  <2>3. icRows[set].tag = line /\ SetOf[line] = set
    BY <1>2, <2>2 DEF set
  <2>4. /\ \A s \in Sets : s # set => icRows'[s] = icRows[s]
        /\ icRows'[set].tag = icRows[set].tag
        /\ \A w \in Word : icRows'[set].data[w] =
              IF w = c THEN resp.data ELSE icRows[set].data[w]
    <3>1. icRows[set] \in IC!RowType /\ icRows[set].data \in [Word -> Data]
      BY <1>4, <2>2 DEF IC!RowType, IC!Word, Word, Data
    <3> HIDE DEF c
    <3> QED
      BY <1>4, <2>2, <3>1 DEF IC!RowType
  <2>5. /\ InCopy(set) = {w \in Word : w < c}
        /\ then(set) = {w \in Word : w < c + 1}
    BY <1>1, <2>2 DEF InCopy, Refetching, set, line, then
  <2>6. ASSUME NEW s \in Sets PROVE kept(s)
    <3>1. CASE s # set
      <4>1. then(s) = Word /\ InCopy(s) = Word
        BY <1>3, <2>2, <3>1
      <4> QED
        BY <1>2, <2>4, <3>1, <4>1 DEF kept
    <3>2. CASE s = set
      <4> SUFFICES ASSUME NEW w \in then(set)
                   PROVE  icRows'[set].data[w] = ram[icRows'[set].tag][w]
        BY <2>3, <2>4, <3>2 DEF kept
      <4>1. w \in Word /\ (w < c \/ w = c)
        <5>1. w \in Word /\ w < c + 1 /\ c \in Word
          BY <2>1, <2>5
        <5> HIDE DEF c
        <5> QED
          BY <5>1 DEF Word
      <4>2. w < c => icRows[set].data[w] = ram[line][w]
        BY <1>2, <2>3, <2>5, <2>2, <4>1
      <4> QED
        BY <2>1, <2>3, <2>4, <4>1, <4>2
    <3> QED
      BY <3>1, <3>2
  <2> QED
    BY <1>9, <2>2, <2>3, <2>4, <2>6
<1>10. CASE TextWait(line)
  <2>1. /\ icRows' = icRows /\ icRegs.state = "E" /\ icRows[set].tag = line
    BY <1>2, <1>10 DEF TextWait
  <2>2. \A s \in Sets : then(s) \subseteq InCopy(s)
    <3> SUFFICES ASSUME NEW s \in Sets PROVE then(s) \subseteq InCopy(s)
      OBVIOUS
    <3>1. CASE s # set
      BY <1>3, <2>1, <3>1
    <3>2. CASE s = set
      <4> DEFINE c == icRegs.counter
      <4>1. InCopy(s) = {w \in Word : w < c}
        BY <2>1, <3>2 DEF InCopy, Refetching, set, line
      <4>2. CASE c = Beats
        <5> HIDE DEF c
        <5>1. InCopy(s) = Word
          BY <4>1, <4>2 DEF Word
        <5> QED
          BY <5>1 DEF InCopy, then
      <4>3. CASE c # Beats
        <5>1. icRegs'.state = "E" /\ icRegs'.counter = c
          BY <1>10, <4>3 DEF TextWait
        <5>2. then(s) = {w \in Word : w < c}
          BY <1>1, <2>1, <3>2, <5>1 DEF InCopy, Refetching, set, line, then
        <5> QED
          BY <4>1, <5>2
      <4> QED
        BY <4>2, <4>3
    <3> QED
      BY <3>1, <3>2
  <2>3. \A s \in Sets : kept(s)
    BY <1>1, <1>2, <2>1, <2>2 DEF kept
  <2> QED
    BY <1>10, <2>1, <2>3 DEF TextWait, set
<1> QED
  BY <1>1, <1>5, <1>6, <1>7, <1>8, <1>9, <1>10 DEF line

(* tick(1) changes ram only where a dirty row holds the line.                *)
LEMMA HighCopies ==
    ASSUME Separate, Roomy, IInv, RInv, SInv, NEW key \in BOOLEAN, NEW sched \in BOOLEAN,
           NEW done \in Lines \cup {NoLine}, High(key, sched, done)
    PROVE  SInv'
<1>1. /\ phase = "high" /\ phase' = "low" /\ fetch' = fetch /\ access' = access
      /\ icRegs' = icRegs /\ icRows' = icRows /\ icOut' = icOut
      /\ dcRegs' = dcRegs /\ dcRows' = dcRows
  BY DEF High, portVars, cacheVars
<1>2. ram' = ram \/ Stored
  BY TickOutcome
<1>3. PortInv'
  BY <1>1 DEF SInv, PortInv
<1>4. \A s \in Sets : dcRows[s].tag \in Lines
                      /\ (~dcRows[s].dirty => ram'[dcRows[s].tag] = ram[dcRows[s].tag])
  <2> SUFFICES ASSUME NEW s \in Sets, ~dcRows[s].dirty, Stored
               PROVE  ram'[dcRows[s].tag] = ram[dcRows[s].tag]
    BY <1>2 DEF RInv, RequestInv
  <2> DEFINE set == SetOf[access.line]
  <2>1. set \in Sets /\ dcOut = dcRows[set] /\ dcRows[set].dirty
    BY DEF Stored, IInv, AccessInv, RInv, RequestInv, Loads, Stores, Presented, Lines
  <2>2. s # set
    BY <2>1
  <2>3. /\ dcRows[s].tag \in Lines /\ SetOf[dcRows[s].tag] = s
        /\ SetOf[dcRows[set].tag] = set
    BY <2>1 DEF RInv, RequestInv
  <2> QED
    BY <2>1, <2>2, <2>3 DEF Stored
<1>5. AccessCopy'
  <2> DEFINE then(s) == Fetched(s)'
  <2>1. \A s \in Sets : then(s) = Fetched(s)
    BY <1>1 DEF Fetched, Refilling
  <2>2. CleanRowsMatchRam' <=>
          \A s \in Sets : LET row == dcRows'[s] IN
            ~row.dirty => \A w \in then(s) : row.data[w] = ram'[row.tag][w]
    BY DEF CleanRowsMatchRam
  <2> HIDE DEF then
  <2>3. CleanRowsMatchRam'
    BY <1>1, <1>4, <2>1, <2>2 DEF SInv, AccessCopy, CleanRowsMatchRam
  <2> QED
    BY <1>1, <2>3 DEF SInv, AccessCopy
<1>6. FetchCopy'
  <2> DEFINE then(s) == InCopy(s)'
  <2>1. \A s \in Sets : then(s) = InCopy(s)
    BY <1>1 DEF InCopy, Refetching
  <2>2. ResetApart => \A l \in FetchLines : ram'[l] = ram[l]
    <3> SUFFICES ASSUME ResetApart, Stored, NEW l \in FetchLines
                 PROVE  ram'[l] = ram[l]
      BY <1>2
    <3> DEFINE set == SetOf[access.line]
    <3>1. set \in Sets /\ dcOut = dcRows[set]
      BY DEF Stored, IInv, AccessInv, RInv, RequestInv, Loads, Stores, Presented, Lines
    <3>2. dcRows[set].tag \notin FetchLines
      BY <3>1 DEF RInv, RequestInv
    <3> QED
      BY <3>1, <3>2 DEF Stored, Lines
  <2>3. FetchCopy' <=>
          (ResetApart =>
            /\ icRegs'.state = "B" => icOut' = icRows'[SetOf[fetch'.line]]
            /\ icRegs'.state = "E" \/ icRegs'.reqcyc =>
                  icRows'[SetOf[fetch'.line]].tag = fetch'.line
            /\ \A s \in Sets : LET row == icRows'[s] IN
                  row.tag \in FetchLines =>
                     SetOf[row.tag] = s /\ \A w \in then(s) : row.data[w] = ram'[row.tag][w])
    BY DEF FetchCopy, ResetApart
  <2> HIDE DEF then
  <2> QED
    BY <1>1, <2>1, <2>2, <2>3 DEF SInv, FetchCopy
<1> QED
  BY <1>3, <1>5, <1>6 DEF SInv

(* A fetch that changes at a falling edge has nothing to do with a row.      *)
LEMMA FallCopies ==
    ASSUME IInv, RInv, SInv, FallingEdge
    PROVE  SInv'
<1>1. /\ phase = "low" /\ phase' = "edge" /\ access' = access
      /\ icRegs' = icRegs /\ icRows' = icRows /\ icOut' = icOut
      /\ dcRegs' = dcRegs /\ dcRows' = dcRows /\ ram' = ram
  BY DEF FallingEdge, cacheVars, Bus!TickLow
<1>2. icRegs.state # "A" => fetch' = fetch
  BY DEF FallingEdge, FetchUnit, IInv, FetchInv
<1>3. PortInv'
  <2>1. fetch' \in Fetches \cup {NoFetch}
    BY DEF FallingEdge, FetchUnit, SInv, PortInv
  <2>2. icRegs.ack => ~fetch'.up
    BY <1>1 DEF FallingEdge, FetchUnit, SInv, PortInv, NoFetch
  <2> QED
    BY <1>1, <2>1, <2>2 DEF SInv, PortInv
<1>4. AccessCopy'
  <2> DEFINE then(s) == Fetched(s)'
  <2>1. \A s \in Sets : then(s) = Fetched(s)
    BY <1>1 DEF Fetched, Refilling
  <2>2. CleanRowsMatchRam' <=>
          \A s \in Sets : LET row == dcRows'[s] IN
            ~row.dirty => \A w \in then(s) : row.data[w] = ram'[row.tag][w]
    BY DEF CleanRowsMatchRam
  <2> HIDE DEF then
  <2>3. CleanRowsMatchRam'
    BY <1>1, <2>1, <2>2 DEF SInv, AccessCopy, CleanRowsMatchRam
  <2> QED
    BY <1>1, <2>3 DEF SInv, AccessCopy
<1>5. FetchCopy'
  <2> DEFINE then(s) == InCopy(s)'
  <2>1. \A s \in Sets : then(s) = InCopy(s)
    BY <1>1, <1>2 DEF InCopy, Refetching
  <2>2. FetchCopy' <=>
          (ResetApart =>
            /\ icRegs'.state = "B" => icOut' = icRows'[SetOf[fetch'.line]]
            /\ icRegs'.state = "E" \/ icRegs'.reqcyc =>
                  icRows'[SetOf[fetch'.line]].tag = fetch'.line
            /\ \A s \in Sets : LET row == icRows'[s] IN
                  row.tag \in FetchLines =>
                     SetOf[row.tag] = s /\ \A w \in then(s) : row.data[w] = ram'[row.tag][w])
    BY DEF FetchCopy, ResetApart
  <2>3. icRegs.reqcyc => icRegs.state = "D"
    BY DEF RInv, RequestInv
  <2> HIDE DEF then
  <2> QED
    BY <1>1, <1>2, <2>1, <2>2, <2>3 DEF SInv, FetchCopy
<1> QED
  BY <1>3, <1>4, <1>5 DEF SInv

-----------------------------------------------------------------------------
(* What the caches hold is right in every reachable state.                   *)
THEOREM StoredInvariance ==
    ASSUME Separate, Roomy
    PROVE  Spec => [](IInv /\ HaltInv /\ RInv /\ SInv)
<1> DEFINE Basic == IInv /\ HaltInv /\ RInv
<1>1. Init => SInv
  BY InitStored
<1>2. Basic /\ SInv /\ [Next]_vars => SInv'
  <2> SUFFICES ASSUME IInv, RInv, SInv, [Next]_vars
               PROVE  SInv'
    OBVIOUS
  <2>1. CASE RisingEdge
    BY <2>1, EdgePorts, EdgeAccessCopy, EdgeFetchCopy DEF SInv
  <2>2. CASE TickHigh
    <3>1. PICK key \in BOOLEAN, sched \in BOOLEAN, done \in Lines \cup {NoLine} :
             High(key, sched, done)
      BY <2>2 DEF TickHigh
    <3> QED
      BY <3>1, HighCopies
  <2>3. CASE FallingEdge
    BY <2>3, FallCopies
  <2>4. CASE UNCHANGED vars
    BY <2>4 DEF vars, portVars, cacheVars, busVars, SInv, PortInv, AccessCopy, FetchCopy,
                CleanRowsMatchRam, Fetched, Refilling, InCopy, Refetching, ResetApart
  <2> QED
    BY <2>1, <2>2, <2>3, <2>4 DEF Next
<1>3. Spec => []Basic
  BY RepliesInvariance
<1> HIDE DEF Basic
<1>4. Spec => []SInv
  BY <1>1, <1>2, <1>3, PTL DEF Spec
<1> QED
  BY <1>3, <1>4, PTL DEF Basic

(* A row of the D-cache that is not dirty can be discarded, as STATED does    *)
(* with it: what a refill has brought of its line, and after the refill all   *)
(* of it, is what ram holds, through every write-back of another row, however *)
(* late the DRAM answers and however many rows there are.                     *)
THEOREM CleanRowsSafe ==
    ASSUME Separate, Roomy
    PROVE  Spec => []CleanRowsMatchRam
<1>1. IInv /\ HaltInv /\ RInv /\ SInv => CleanRowsMatchRam
  BY DEF SInv, AccessCopy
<1> QED
  BY <1>1, StoredInvariance, PTL

-----------------------------------------------------------------------------
(* The refinement.  The word of a line, from the rows of the D-cache and ram. *)
Value(dr, rm, l, w) ==
    LET row == dr[SetOf[l]]
    IN  IF row.tag = l /\ row.dirty THEN row.data[w] ELSE rm[l][w]

Memory(dr, rm) ==
    [l \in FetchLines \cup DataLines |-> [w \in Word |-> Value(dr, rm, l, w)]]

LEMMA MemoryIs == /\ LogicalMemory = Memory(dcRows, ram)
                  /\ LogicalMemory' = Memory(dcRows', ram')
BY DEF LogicalMemory, Memory, Value

LEMMA MemorySame ==
    ASSUME NEW dr, NEW rm, NEW drThen, NEW rmThen,
           \A l \in FetchLines \cup DataLines, w \in Word :
               Value(drThen, rmThen, l, w) = Value(dr, rm, l, w)
    PROVE  Memory(drThen, rmThen) = Memory(dr, rm)
BY DEF Memory

Put(mem, line, word, value) == [mem EXCEPT ![line][word] = value]

Writes(dr, rm, drThen, rmThen, line, word, value) ==
    \A l \in FetchLines \cup DataLines, w \in Word :
        Value(drThen, rmThen, l, w) =
            IF l = line /\ w = word THEN value ELSE Value(dr, rm, l, w)

LEMMA MemoryStored ==
    ASSUME NEW dr, NEW rm, NEW drThen, NEW rmThen, NEW line \in FetchLines \cup DataLines,
           NEW word \in Word, NEW value, Writes(dr, rm, drThen, rmThen, line, word, value)
    PROVE  Memory(drThen, rmThen) = Put(Memory(dr, rm), line, word, value)
<1> DEFINE old == Memory(dr, rm)
           new == Memory(drThen, rmThen)
<1> DEFINE lines == FetchLines \cup DataLines
           before(l) == [w \in Word |-> Value(dr, rm, l, w)]
           after(l) == [w \in Word |-> Value(drThen, rmThen, l, w)]
<1>1. /\ old = [l \in lines |-> before(l)]
      /\ new = [l \in lines |-> after(l)]
  BY DEF Memory
<1>2. \A l \in lines : l # line => after(l) = before(l)
  BY DEF Writes
<1>3. after(line) = [before(line) EXCEPT ![word] = value]
  BY DEF Writes
<1>4. line \in lines
  OBVIOUS
<1> HIDE DEF old, new, before, after, lines
<1>5. old[line] = before(line)
  BY <1>1, <1>4
<1>6. new = [old EXCEPT ![line] = after(line)]
  BY <1>1, <1>2, <1>4
<1>7. new = [old EXCEPT ![line] = [old[line] EXCEPT ![word] = value]]
  BY <1>3, <1>5, <1>6
<1> QED
  BY <1>7 DEF old, new, Put

(* What the two caches answer is what the one memory holds.                  *)
LEMMA FetchedWord ==
    ASSUME ResetOutside, IInv, RInv, SInv, RisingEdge, TextHit(fetch.line, fetch.word)
    PROVE  icRegs'.dataOut = LogicalMemory[fetch.line][fetch.word]
<1> DEFINE set == SetOf[fetch.line]
<1>1. fetch.line \in FetchLines /\ fetch.word \in Word /\ set \in Sets
  BY DEF TextHit, IInv, FetchInv, Fetches, Lines
<1>2. ResetApart
  BY DEF ResetOutside, ResetApart
<1>3. /\ icOut = icRows[set] /\ icRows[set].tag = fetch.line
      /\ icRegs'.dataOut = icRows[set].data[fetch.word]
  BY <1>2 DEF TextHit, SInv, FetchCopy
<1>4. InCopy(set) = Word
  BY DEF TextHit, InCopy, Refetching
<1>5. icRegs'.dataOut = ram[fetch.line][fetch.word]
  BY <1>1, <1>2, <1>3, <1>4 DEF SInv, FetchCopy
<1>6. dcRows[set].tag # fetch.line
  BY <1>1, <1>2 DEF RInv, RequestInv
<1>7. Value(dcRows, ram, fetch.line, fetch.word) = ram[fetch.line][fetch.word]
  BY <1>6 DEF Value
<1> QED
  BY <1>1, <1>5, <1>7, MemoryIs DEF Memory

LEMMA HitRow ==
    ASSUME IInv, RInv, SInv, RisingEdge, DataHit(access)
    PROVE  LET row == dcRows[SetOf[access.line]] IN
           /\ SetOf[access.line] \in Sets /\ access.line \in DataLines
           /\ access.word \in Word
           /\ row \in DC!RowType /\ row.tag = access.line
           /\ dcRegs'.dataOut = row.data[access.word]
           /\ \A w \in Word : Value(dcRows, ram, access.line, w) = row.data[w]
<1> DEFINE set == SetOf[access.line]
<1>1. /\ set \in Sets /\ access.line \in DataLines /\ access.word \in Word
      /\ dcOut = dcRows[set] /\ dcRows[set] \in DC!RowType
  BY DEF DataHit, IInv, AccessInv, TypeOK, DC!TypeOK, Loads, Stores, Presented, Lines
<1>2. dcRows[set].tag = access.line /\ dcRegs'.dataOut = dcRows[set].data[access.word]
  BY <1>1 DEF DataHit
<1>3. Fetched(set) = Word
  BY DEF DataHit, Fetched, Refilling
<1>4. ~dcRows[set].dirty =>
          \A w \in Word : dcRows[set].data[w] = ram[dcRows[set].tag][w]
  BY <1>1, <1>3 DEF SInv, AccessCopy, CleanRowsMatchRam
<1>5. \A w \in Word : Value(dcRows, ram, access.line, w) = dcRows[set].data[w]
  BY <1>2, <1>4 DEF Value
<1> QED
  BY <1>1, <1>2, <1>5

LEMMA HitPerforms ==
    ASSUME IInv, RInv, SInv, RisingEdge, DataHit(access)
    PROVE  /\ dcRegs'.dataOut = LogicalMemory[access.line][access.word]
           /\ LogicalMemory' =
                 IF access.store
                 THEN [LogicalMemory EXCEPT ![access.line][access.word] = access.value]
                 ELSE LogicalMemory
<1> DEFINE set == SetOf[access.line]
           line == access.line
           word == access.word
<1>1. /\ set \in Sets /\ line \in DataLines /\ word \in Word
      /\ dcRows[set] \in DC!RowType /\ dcRows[set].tag = line
      /\ dcRegs'.dataOut = dcRows[set].data[word]
      /\ \A w \in Word : Value(dcRows, ram, line, w) = dcRows[set].data[w]
  BY HitRow
<1>2. dcRegs'.dataOut = LogicalMemory[line][word]
  BY <1>1, MemoryIs DEF Memory
<1>3. ram' = ram
  BY EdgeInputs
<1>4. CASE ~access.store
  <2>1. dcRows' = dcRows
    BY <1>4 DEF DataHit
  <2> QED
    BY <1>2, <1>3, <1>4, <2>1, MemoryIs
<1>5. CASE access.store
  <2>1. /\ \A s \in Sets : s # set => dcRows'[s] = dcRows[s]
        /\ dcRows'[set].tag = line /\ dcRows'[set].dirty
        /\ \A w \in Word : dcRows'[set].data[w] =
              IF w = word THEN access.value ELSE dcRows[set].data[w]
    <3>1. dcRows' = [dcRows EXCEPT ![set].data[word] = access.value, ![set].dirty = TRUE]
      BY <1>5 DEF DataHit
    <3>2. dcRows \in [Sets -> DC!RowType] /\ dcRows[set].data \in [Word -> Data]
      BY <1>1 DEF IInv, TypeOK, DC!TypeOK, DC!RowType, DC!Word, Word, Data
    <3> HIDE DEF set, word, line
    <3> QED
      BY <1>1, <3>1, <3>2 DEF DC!RowType
  <2>2. ASSUME NEW l \in FetchLines \cup DataLines, NEW w \in Word
        PROVE  Value(dcRows', ram', l, w) =
                   IF l = line /\ w = word THEN access.value ELSE Value(dcRows, ram, l, w)
    <3>0. SetOf[l] \in Sets
      BY DEF Lines
    <3>1. CASE l = line
      <4>1. Value(dcRows', ram', line, w) = dcRows'[set].data[w]
        BY <2>1 DEF Value
      <4> QED
        BY <1>1, <2>1, <3>1, <4>1
    <3>2. CASE l # line /\ SetOf[l] = set
      BY <1>1, <1>3, <2>1, <3>2 DEF Value
    <3>3. CASE SetOf[l] # set
      BY <1>3, <2>1, <3>0, <3>3 DEF Value
    <3> QED
      BY <3>1, <3>2, <3>3
  <2>3. Memory(dcRows', ram') = Put(Memory(dcRows, ram), line, word, access.value)
    <3> DEFINE value == access.value
               rowsThen == dcRows'
               ramThen == ram'
    <3>1. line \in FetchLines \cup DataLines /\ word \in Word
      BY <1>1
    <3>2. Writes(dcRows, ram, rowsThen, ramThen, line, word, value)
      BY <2>2 DEF Writes
    <3> HIDE DEF line, word, value, rowsThen, ramThen
    <3>3. Memory(rowsThen, ramThen) = Put(Memory(dcRows, ram), line, word, value)
      BY <3>1, <3>2, MemoryStored
    <3> QED
      BY <3>3 DEF value, rowsThen, ramThen
  <2> QED
    BY <1>2, <1>5, <2>3, MemoryIs DEF Put
<1> QED
  BY <1>4, <1>5

(* Nothing else that happens at an edge can be seen in the memory: a row that *)
(* gives up its line has been written back, and a row under refill is clean.  *)
LEMMA EdgeSilent ==
    ASSUME IInv, RInv, SInv, RisingEdge, ~DataHit(access)
    PROVE  LogicalMemory' = LogicalMemory
<1> DEFINE set == SetOf[access.line]
<1>1. /\ ram' = ram
      /\ dcRegs.state # "A" => set \in Sets
      /\ dcRows \in [Sets -> DC!RowType]
      /\ \/ DataAtRest \/ DataAsked(access)
         \/ DataGranted(dc_reqack) \/ DataBeat(access, resp) \/ DataWait
  BY EdgeInputs DEF IInv, TypeOK, DC!TypeOK
<1>s. \A l \in FetchLines \cup DataLines : SetOf[l] \in Sets
  BY DEF Lines
<1>2. CASE dcRows' = dcRows
  BY <1>1, <1>2, MemoryIs
<1>3. CASE DataAsked(access)
  <2>1. /\ \A s \in Sets : s # set => dcRows'[s] = dcRows[s]
        /\ ~dcRows'[set].dirty /\ dcRegs.state = "D"
    BY <1>1, <1>3 DEF DataAsked, DC!RowType
  <2>2. dcRows[set].dirty => \A w \in Word : ram[dcRows[set].tag][w] = dcRows[set].data[w]
    BY <2>1 DEF IInv, VictimInv, RInv
  <2>3. \A l \in FetchLines \cup DataLines, w \in Word :
           Value(dcRows', ram', l, w) = Value(dcRows, ram, l, w)
    <3> HIDE DEF set
    <3> QED
      BY <1>1, <1>s, <2>1, <2>2 DEF Value
  <2> QED
    BY <2>3, MemorySame, MemoryIs
<1>4. CASE DataBeat(access, resp)
  <2>1. dcRegs.counter < Beats /\ dcRegs.counter \in Word
    BY <1>4, DataBeatWord
  <2>2. /\ \A s \in Sets : s # set => dcRows'[s] = dcRows[s]
        /\ dcRows'[set].dirty = dcRows[set].dirty /\ dcRegs.state = "E"
    BY <1>1, <1>4, <2>1 DEF DataBeat, DC!RowType
  <2>3. ~dcRows[set].dirty
    BY <2>2 DEF SInv, AccessCopy
  <2>4. \A l \in FetchLines \cup DataLines, w \in Word :
           Value(dcRows', ram', l, w) = Value(dcRows, ram, l, w)
    <3> HIDE DEF set
    <3> QED
      BY <1>1, <1>s, <2>2, <2>3 DEF Value
  <2> QED
    BY <2>4, MemorySame, MemoryIs
<1> QED
  BY <1>1, <1>2, <1>3, <1>4 DEF DataAtRest, DataGranted, DataWait

-----------------------------------------------------------------------------
LEMMA InitSerial ==
    ASSUME ResetOutside, Init
    PROVE  Serial!Init
<1>1. ASSUME NEW l \in FetchLines \cup DataLines, NEW w \in Word
      PROVE  Value(dcRows, ram, l, w) = InitRam[l][w]
  <2>1. SetOf[l] \in Sets
    BY DEF Lines
  <2>2. dcRows[SetOf[l]].tag = ResetLine[SetOf[l]] /\ ram = InitRam
    BY <2>1 DEF Init, DC!Init, DC!ResetRow, Bus!Init
  <2> QED
    BY <2>1, <2>2 DEF Value, ResetOutside
<1>2. \A l \in FetchLines \cup DataLines : InitRam[l] = [w \in Word |-> InitRam[l][w]]
  BY DEF Lines
<1>3. LogicalMemory = [l \in FetchLines \cup DataLines |-> InitRam[l]]
  BY <1>1, <1>2, MemoryIs DEF Memory
<1>4. /\ fetch = NoFetch /\ access = NoAccess
      /\ Answered(icRegs) = [done |-> FALSE, value |-> NoValue]
      /\ Answered(dcRegs) = [done |-> FALSE, value |-> NoValue]
  BY DEF Init, IC!Init, DC!Init, Answered
<1> QED
  BY <1>3, <1>4 DEF Serial!Init, Serial!NoAnswer

LEMMA EdgeAnswers ==
    ASSUME IInv, RisingEdge
    PROVE  /\ icRegs.ack \in BOOLEAN /\ icRegs'.ack \in BOOLEAN
           /\ dcRegs.ack \in BOOLEAN /\ dcRegs'.ack \in BOOLEAN
<1>1. TypeOK /\ TypeOK'
  BY EdgeTypes DEF IInv
<1> QED
  BY <1>1 DEF TypeOK, IC!TypeOK, IC!RegsType, DC!TypeOK, DC!RegsType

(* The fetch port at a rising edge: an answer goes up or down.                *)
LEMMA EdgeFetchPort ==
    ASSUME ResetOutside, IInv, RInv, SInv, RisingEdge
    PROVE  Serial!FetchStep \/ UNCHANGED Serial!fetchPort
<1>1. /\ phase = "edge" /\ fetch' = fetch
      /\ \/ TextAtRest(fetch.line) \/ TextHit(fetch.line, fetch.word)
         \/ TextAsked(fetch.line) \/ TextGranted(ic_reqack)
         \/ TextBeat(fetch.line, resp) \/ TextWait(fetch.line)
  BY EdgeInputs
<1>2. CASE TextHit(fetch.line, fetch.word)
  <2>1. icRegs'.ack /\ ~icRegs.ack /\ fetch.up
    BY <1>2 DEF TextHit, IInv, FetchInv
  <2>2. icRegs'.dataOut = LogicalMemory[fetch.line][fetch.word]
    BY <1>2, FetchedWord
  <2>3. Serial!FetchPerform
    BY <1>1, <2>1, <2>2 DEF Serial!FetchPerform, Serial!Answer, Answered
  <2> QED
    BY <2>3 DEF Serial!FetchStep
<1>3. CASE ~TextHit(fetch.line, fetch.word)
  <2>1. ~icRegs'.ack
    BY <1>1, <1>3 DEF TextAtRest, TextAsked, TextGranted, TextBeat, TextWait
  <2>2. CASE icRegs.ack
    <3>1. ~fetch.up
      BY <1>1, <2>2 DEF SInv, PortInv
    <3>2. Serial!FetchEnd
      BY <1>1, <2>1, <2>2, <3>1, EdgeAnswers DEF Serial!FetchEnd, Serial!NoAnswer, Answered
    <3> QED
      BY <3>2 DEF Serial!FetchStep
  <2>3. CASE ~icRegs.ack
    <3>1. Answered(icRegs)' = Answered(icRegs)
      BY <2>1, <2>3, EdgeAnswers DEF Answered
    <3> QED
      BY <1>1, <3>1 DEF Serial!fetchPort
  <2> QED
    BY <2>2, <2>3
<1> QED
  BY <1>2, <1>3

(* The access port at a rising edge: a request goes up, is performed by the   *)
(* hit, or gives way to the next one.                                         *)
LEMMA EdgeAccessPort ==
    ASSUME IInv, RInv, SInv, RisingEdge
    PROVE  Serial!AccessStep \/ UNCHANGED <<LogicalMemory, Serial!accessPort>>
<1>1. /\ dcRegs.state # "A" \/ dcReq => access' = access
      /\ dcRegs.state = "A" /\ ~dcReq => DataAtRest
      /\ \/ DataAtRest \/ DataHit(access) \/ DataAsked(access)
         \/ DataGranted(dc_reqack) \/ DataBeat(access, resp) \/ DataWait
  BY EdgeInputs
<1>2. /\ dcRegs.state # "A" => access.up /\ ~dcRegs.ack
      /\ access \in Loads \cup Stores \cup {NoAccess}
      /\ ~access.up => access = NoAccess
      /\ dcRegs.ack => access.up
  BY DEF IInv, AccessInv, SInv, PortInv, Loads, Stores, Presented
<1>3. CASE DataHit(access)
  <2>1. access.up /\ ~dcRegs.ack /\ dcRegs'.ack /\ access' = access
    BY <1>1, <1>2, <1>3 DEF DataHit
  <2>2. /\ dcRegs'.dataOut = LogicalMemory[access.line][access.word]
        /\ LogicalMemory' =
              IF access.store
              THEN [LogicalMemory EXCEPT ![access.line][access.word] = access.value]
              ELSE LogicalMemory
    BY <1>3, HitPerforms
  <2>3. Answered(dcRegs)' = [done |-> TRUE,
                             value |-> LogicalMemory[access.line][access.word]]
    BY <2>1, <2>2 DEF Answered
  <2>4. ~Answered(dcRegs).done
    BY <2>1 DEF Answered
  <2>5. Serial!AccessPerform
    BY <2>1, <2>2, <2>3, <2>4 DEF Serial!AccessPerform, Serial!Answer
  <2> QED
    BY <2>5 DEF Serial!AccessStep
<1>4. CASE ~DataHit(access)
  <2>1. LogicalMemory' = LogicalMemory
    BY <1>4, EdgeSilent
  <2>2. ~dcRegs'.ack
    BY <1>1, <1>4 DEF DataAtRest, DataAsked, DataGranted, DataBeat, DataWait
  <2>3. Answered(dcRegs)' = [done |-> FALSE, value |-> NoValue]
    BY <2>2, EdgeAnswers DEF Answered
  <2>4. CASE access.up /\ dcRegs.ack
    <3>1. access' \in Loads \cup Stores \cup {NoAccess}
      BY <2>4 DEF RisingEdge, MemStage
    <3>2. Answered(dcRegs).done
      BY <2>4 DEF Answered
    <3>3. Serial!AccessEnd
      BY <2>1, <2>3, <2>4, <3>1, <3>2 DEF Serial!AccessEnd, Serial!NoAnswer
    <3> QED
      BY <3>3 DEF Serial!AccessStep
  <2>5. CASE ~dcRegs.ack
    <3>1. Answered(dcRegs)' = Answered(dcRegs)
      BY <2>3, <2>5, EdgeAnswers DEF Answered
    <3>2. CASE access' = access
      BY <2>1, <3>1, <3>2 DEF Serial!accessPort
    <3>3. CASE access' # access
      <4>1. ~access.up /\ access' \in Loads \cup Stores \cup {NoAccess}
        BY <2>5, <3>3 DEF RisingEdge, MemStage
      <4>2. access' \in Loads \cup Stores
        BY <1>2, <3>3, <4>1
      <4>3. Serial!AccessStart
        BY <2>1, <3>1, <4>1, <4>2 DEF Serial!AccessStart
      <4> QED
        BY <4>3 DEF Serial!AccessStep
    <3> QED
      BY <3>2, <3>3
  <2> QED
    BY <1>2, <2>4, <2>5
<1> QED
  BY <1>3, <1>4

(* tick(1) cannot be seen: a word that is written back is in a dirty row.     *)
LEMMA HighSerial ==
    ASSUME Separate, Roomy, IInv, RInv, SInv, NEW key \in BOOLEAN, NEW sched \in BOOLEAN,
           NEW done \in Lines \cup {NoLine}, High(key, sched, done)
    PROVE  UNCHANGED Serial!vars
<1>1. /\ fetch' = fetch /\ access' = access /\ dcRows' = dcRows
      /\ Answered(icRegs)' = Answered(icRegs) /\ Answered(dcRegs)' = Answered(dcRegs)
  BY DEF High, portVars, cacheVars, Answered
<1>2. \A l \in FetchLines \cup DataLines, w \in Word :
          Value(dcRows', ram', l, w) = Value(dcRows, ram, l, w)
  <2> SUFFICES ASSUME NEW l \in FetchLines \cup DataLines, NEW w \in Word, Stored
               PROVE  Value(dcRows', ram', l, w) = Value(dcRows, ram, l, w)
    BY <1>1, TickOutcome
  <2> DEFINE set == SetOf[access.line]
  <2>1. /\ set \in Sets /\ dcOut = dcRows[set] /\ dcRows[set].dirty
        /\ SetOf[dcRows[set].tag] = set
    BY DEF Stored, IInv, AccessInv, RInv, RequestInv, Loads, Stores, Presented, Lines
  <2>2. l # dcOut.tag => ram'[l] = ram[l]
    BY DEF Stored, Lines
  <2> QED
    BY <1>1, <2>1, <2>2 DEF Value
<1>3. LogicalMemory' = LogicalMemory
  BY <1>2, MemorySame, MemoryIs
<1> QED
  BY <1>1, <1>3 DEF Serial!vars, Serial!fetchPort, Serial!accessPort

LEMMA FallSerial ==
    ASSUME IInv, RInv, SInv, FallingEdge
    PROVE  Serial!Next
<1>1. /\ phase = "low" /\ access' = access
      /\ Answered(icRegs)' = Answered(icRegs) /\ Answered(dcRegs)' = Answered(dcRegs)
      /\ dcRows' = dcRows /\ ram' = ram
  BY DEF FallingEdge, cacheVars, Bus!TickLow, Answered
<1>2. LogicalMemory' = LogicalMemory
  BY <1>1, MemoryIs
<1>3. UNCHANGED <<LogicalMemory, Serial!accessPort>>
  BY <1>1, <1>2 DEF Serial!accessPort
<1>4. /\ fetch \in Fetches \cup {NoFetch}
      /\ icRegs.ack => fetch.up
      /\ ~fetch.up => fetch = NoFetch
      /\ Answered(icRegs).done = icRegs.ack
  BY <1>1 DEF SInv, PortInv, Fetches, Answered
<1>5. Serial!FetchStep \/ UNCHANGED Serial!fetchPort
  <2>1. CASE fetch' = fetch
    BY <1>1, <2>1 DEF Serial!fetchPort
  <2>2. CASE fetch' # fetch /\ fetch.up
    <3>1. icRegs.ack /\ fetch' = NoFetch
      BY <2>2 DEF FallingEdge, FetchUnit
    <3>2. Serial!FetchTake
      BY <1>1, <1>4, <2>2, <3>1 DEF Serial!FetchTake
    <3> QED
      BY <3>2 DEF Serial!FetchStep
  <2>3. CASE fetch' # fetch /\ ~fetch.up
    <3>1. fetch' \in Fetches /\ ~icRegs.ack
      BY <1>4, <2>3 DEF FallingEdge, FetchUnit
    <3>2. Serial!FetchStart
      BY <1>1, <1>4, <2>3, <3>1 DEF Serial!FetchStart
    <3> QED
      BY <3>2 DEF Serial!FetchStep
  <2> QED
    BY <2>1, <2>2, <2>3
<1> QED
  BY <1>3, <1>5 DEF Serial!Next

(* The caches, the arbiter and the controller are one memory (hw2/README:     *)
(* 54-57): every fetch and every access is answered, at one instant between   *)
(* its start and its end, with the word the last store left there, whatever   *)
(* is being written back or refilled at that moment.                          *)
THEOREM OneMemory ==
    ASSUME Separate, Roomy, ResetOutside
    PROVE  Spec => ImplementsSerialMemory
<1> DEFINE Good == IInv /\ HaltInv /\ RInv /\ SInv
<1>1. Init => Serial!Init
  BY InitSerial
<1>2. Good /\ [Next]_vars => [Serial!Next]_(Serial!vars)
  <2> SUFFICES ASSUME IInv, RInv, SInv, [Next]_vars
               PROVE  Serial!Next \/ UNCHANGED Serial!vars
    OBVIOUS
  <2>1. CASE RisingEdge
    BY <2>1, EdgeFetchPort, EdgeAccessPort DEF Serial!Next
  <2>2. CASE TickHigh
    <3>1. PICK key \in BOOLEAN, sched \in BOOLEAN, done \in Lines \cup {NoLine} :
             High(key, sched, done)
      BY <2>2 DEF TickHigh
    <3> QED
      BY <3>1, HighSerial
  <2>3. CASE FallingEdge
    BY <2>3, FallSerial
  <2>4. CASE UNCHANGED vars
    <3>1. /\ fetch' = fetch /\ access' = access /\ dcRows' = dcRows /\ ram' = ram
          /\ Answered(icRegs)' = Answered(icRegs) /\ Answered(dcRegs)' = Answered(dcRegs)
      BY <2>4 DEF vars, portVars, cacheVars, busVars, Answered
    <3>2. LogicalMemory' = LogicalMemory
      BY <3>1, MemoryIs
    <3> QED
      BY <3>1, <3>2 DEF Serial!vars, Serial!fetchPort, Serial!accessPort
  <2> QED
    BY <2>1, <2>2, <2>3, <2>4 DEF Next
<1>3. Spec => []Good
  BY StoredInvariance
<1> HIDE DEF Good
<1> QED
  BY <1>1, <1>2, <1>3, PTL DEF Spec, ImplementsSerialMemory, Serial!Spec
=============================================================================
