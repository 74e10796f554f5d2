---------------------------- MODULE RepliesProofs ----------------------------
(***************************************************************************)
(* Proofs about the split transactions of MemorySystem: every reply has its *)
(* taker, no transaction is ever refused, and so no assert of tick fails.   *)
(***************************************************************************)
EXTENDS MemorySystemProofs, FiniteSetTheorems

(* The program is not stored in a line it also loads from or stores to.      *)
Separate == FetchLines \cap DataLines = {}

(* The DRAM queue holds more than the three transactions of two caches: 32   *)
(* in dramsim2/system.ini.                                                   *)
Roomy == QueueDepth > 3

(* No row claims a line of the program's text after reset.                   *)
ResetApart == \A s \in Sets : ResetLine[s] \notin FetchLines

USE SizesAssumption, LinesAssumption, ValuesAssumption

-----------------------------------------------------------------------------
(* A run of n beats with a tag in a queue, and their contents: the last n    *)
(* words of a line.                                                          *)
RunAt(q, tag, n, o) ==
    /\ o + n <= Len(q)
    /\ \A i \in 1 .. Len(q) : q[i].tag = tag <=> o < i /\ i <= o + n

RunData(q, n, o, words) ==
    \A i \in 1 .. n : q[o + i].data = words[Beats - n + i - 1]

Run(q, tag, n, words, exact) ==
    \E o \in Nat : RunAt(q, tag, n, o) /\ (exact => RunData(q, n, o, words))

LEMMA Joined ==
    ASSUME NEW S, NEW q \in Seq(S), NEW r \in Seq(S)
    PROVE  /\ q \o r \in Seq(S)
           /\ Len(q \o r) = Len(q) + Len(r)
           /\ \A i \in 1 .. Len(q) : (q \o r)[i] = q[i]
           /\ \A i \in Len(q) + 1 .. Len(q) + Len(r) : (q \o r)[i] = r[i - Len(q)]
OBVIOUS

Free(r, tag) == \A i \in 1 .. Len(r) : r[i].tag # tag

LEMMA RunJoin ==
    ASSUME NEW q \in Seq(Bus!BeatType), NEW r \in Seq(Bus!BeatType),
           NEW tag, NEW n \in Nat, NEW words, NEW exact \in BOOLEAN,
           Run(q, tag, n, words, exact),
           Free(r, tag)
    PROVE  Run(q \o r, tag, n, words, exact)
<1>1. PICK o \in Nat : RunAt(q, tag, n, o) /\ (exact => RunData(q, n, o, words))
  BY DEF Run
<1>2. /\ q \o r \in Seq(Bus!BeatType)
      /\ Len(q \o r) = Len(q) + Len(r)
      /\ \A i \in 1 .. Len(q) : (q \o r)[i] = q[i]
      /\ \A i \in Len(q) + 1 .. Len(q) + Len(r) : (q \o r)[i] = r[i - Len(q)]
  BY Joined
<1>0. Len(q) \in Nat /\ Len(r) \in Nat
  OBVIOUS
<1> DEFINE qr == q \o r
<1> HIDE DEF qr
<1>3. RunAt(qr, tag, n, o)
  BY <1>0, <1>1, <1>2 DEF RunAt, Free, qr
<1>4. exact => RunData(qr, n, o, words)
  <2> SUFFICES ASSUME exact, NEW i \in 1 .. n
               PROVE  qr[o + i].data = words[Beats - n + i - 1]
    BY DEF RunData
  <2>1. q[o + i].data = words[Beats - n + i - 1]
    BY <1>1 DEF RunData
  <2>2. o + i \in 1 .. Len(q)
    BY <1>0, <1>1 DEF RunAt
  <2> QED
    BY <1>2, <2>1, <2>2 DEF qr
<1> QED
  BY <1>3, <1>4 DEF Run, qr

FullLine(r, tag, words) ==
    /\ Len(r) = Beats
    /\ \A i \in 1 .. Beats : r[i].tag = tag /\ r[i].data = words[i - 1]

LEMMA RunArrive ==
    ASSUME NEW q \in Seq(Bus!BeatType), NEW r \in Seq(Bus!BeatType),
           NEW tag, NEW words, NEW old, NEW exact \in BOOLEAN,
           Run(q, tag, 0, old, exact),
           FullLine(r, tag, words)
    PROVE  Run(q \o r, tag, Beats, words, exact)
<1>1. PICK o \in Nat : RunAt(q, tag, 0, o)
  BY DEF Run
<1>2. /\ q \o r \in Seq(Bus!BeatType)
      /\ Len(q \o r) = Len(q) + Len(r)
      /\ \A i \in 1 .. Len(q) : (q \o r)[i] = q[i]
      /\ \A i \in Len(q) + 1 .. Len(q) + Len(r) : (q \o r)[i] = r[i - Len(q)]
  BY Joined
<1>0. Len(q) \in Nat
  OBVIOUS
<1> DEFINE qr == q \o r
<1> HIDE DEF qr
<1>3. RunAt(qr, tag, Beats, Len(q))
  BY <1>0, <1>1, <1>2 DEF RunAt, FullLine, qr
<1>4. RunData(qr, Beats, Len(q), words)
  BY <1>0, <1>2 DEF RunData, FullLine, qr
<1> QED
  BY <1>0, <1>3, <1>4 DEF Run, qr

LEMMA RunPopOwn ==
    ASSUME NEW q \in Seq(Bus!BeatType), q # <<>>,
           NEW tag, NEW n \in Nat, NEW words, NEW exact \in BOOLEAN,
           Run(q, tag, n, words, exact), Head(q).tag = tag
    PROVE  n > 0 /\ Run(Tail(q), tag, n - 1, words, exact)
<1>1. PICK o \in Nat : RunAt(q, tag, n, o) /\ (exact => RunData(q, n, o, words))
  BY DEF Run
<1>2. /\ Tail(q) \in Seq(Bus!BeatType) /\ Len(Tail(q)) = Len(q) - 1 /\ Len(q) > 0
      /\ \A i \in 1 .. Len(q) - 1 : Tail(q)[i] = q[i + 1]
      /\ Head(q) = q[1]
  OBVIOUS
<1>0. Len(q) \in Nat
  OBVIOUS
<1>3. o = 0 /\ n > 0
  BY <1>0, <1>1, <1>2 DEF RunAt
<1> DEFINE t == Tail(q)
<1> HIDE DEF t
<1>4. RunAt(t, tag, n - 1, 0)
  BY <1>0, <1>1, <1>2, <1>3 DEF RunAt, t
<1>5. exact => RunData(t, n - 1, 0, words)
  <2> SUFFICES ASSUME exact, NEW i \in 1 .. n - 1
               PROVE  t[0 + i].data = words[Beats - (n - 1) + i - 1]
    BY DEF RunData
  <2>1. q[0 + (i + 1)].data = words[Beats - n + (i + 1) - 1]
    BY <1>1, <1>3 DEF RunData
  <2>2. i \in 1 .. Len(q) - 1
    BY <1>0, <1>1, <1>3 DEF RunAt
  <2>3. t[i] = q[i + 1]
    BY <1>2, <2>2 DEF t
  <2> QED
    BY <2>1, <2>3
<1> QED
  BY <1>3, <1>4, <1>5 DEF Run, t

LEMMA RunPopOther ==
    ASSUME NEW q \in Seq(Bus!BeatType), q # <<>>,
           NEW tag, NEW n \in Nat, NEW words, NEW exact \in BOOLEAN,
           Run(q, tag, n, words, exact), Head(q).tag # tag
    PROVE  Run(Tail(q), tag, n, words, exact)
<1>1. PICK o \in Nat : RunAt(q, tag, n, o) /\ (exact => RunData(q, n, o, words))
  BY DEF Run
<1>2. /\ Tail(q) \in Seq(Bus!BeatType) /\ Len(Tail(q)) = Len(q) - 1 /\ Len(q) > 0
      /\ \A i \in 1 .. Len(q) - 1 : Tail(q)[i] = q[i + 1]
      /\ Head(q) = q[1]
  OBVIOUS
<1>0. Len(q) \in Nat
  OBVIOUS
<1> DEFINE t == Tail(q)
           p == IF o = 0 THEN 0 ELSE o - 1
<1>3. n > 0 => o > 0
  BY <1>0, <1>1, <1>2 DEF RunAt
<1> HIDE DEF t
<1>4. p \in Nat /\ RunAt(t, tag, n, p)
  BY <1>0, <1>1, <1>2, <1>3 DEF RunAt, t
<1>5. exact => RunData(t, n, p, words)
  <2> SUFFICES ASSUME exact, NEW i \in 1 .. n
               PROVE  t[p + i].data = words[Beats - n + i - 1]
    BY DEF RunData
  <2>1. q[o + i].data = words[Beats - n + i - 1]
    BY <1>1 DEF RunData
  <2>2. p + i \in 1 .. Len(q) - 1 /\ (p + i) + 1 = o + i
    BY <1>0, <1>1, <1>3 DEF RunAt
  <2>3. t[p + i] = q[o + i]
    BY <1>2, <2>2 DEF t
  <2> QED
    BY <2>1, <2>3
<1> QED
  BY <1>4, <1>5 DEF Run, t

(* How many beats a run has.                                                 *)
LEMMA RunCount ==
    ASSUME NEW q \in Seq(Bus!BeatType), NEW tag, NEW n \in Nat, NEW words, NEW exact,
           Run(q, tag, n, words, exact)
    PROVE  Cardinality({i \in DOMAIN q : q[i].tag = tag}) = n
<1>1. PICK o \in Nat : RunAt(q, tag, n, o)
  BY DEF Run
<1>0. Len(q) \in Nat /\ DOMAIN q = 1 .. Len(q)
  OBVIOUS
<1>2. {i \in DOMAIN q : q[i].tag = tag} = o + 1 .. o + n
  BY <1>0, <1>1 DEF RunAt
<1>3. Cardinality(o + 1 .. o + n) = IF o + 1 > o + n THEN 0 ELSE (o + n) - (o + 1) + 1
  BY FS_Interval
<1>4. Cardinality(o + 1 .. o + n) = n
  BY <1>3
<1> QED
  BY <1>2, <1>4

-----------------------------------------------------------------------------
(* One cache's read, from the request that tick has taken to the last beat:  *)
(* who it is outstanding for, the beat that is being popped, and the beats   *)
(* of the line that are still in tx_queue, which are its last ones.          *)
Owed(map, r, line, tag, unpopped) ==
    IF r.state = "E" /\ map[line] # tag THEN Beats - r.counter + unpopped ELSE 0

Outstanding(map, r, line, tag, taken) ==
    /\ \A l \in Lines : map[l] = tag => l = line /\ (r.state = "E" \/ taken)
    /\ taken => map[line] = tag
    /\ r.state = "E" /\ map[line] = tag => r.counter = 0 /\ ~r.respack

Popping(q, map, r, line, tag) ==
    r.respack => /\ r.state = "E" /\ map[line] # tag /\ r.counter > 0
                 /\ q # <<>> /\ Head(q).tag = tag

(* Before a tick(1) ... *)
BeforeTick(q, map, words, r, line, tag, exact) ==
    /\ Outstanding(map, r, line, tag, FALSE)
    /\ Popping(q, map, r, line, tag)
    /\ Run(q, tag, Owed(map, r, line, tag, IF r.respack THEN 1 ELSE 0), words, exact)

(* ... and from there to the next edge. *)
AfterTick(q, map, words, r, line, tag, taken, exact) ==
    /\ Outstanding(map, r, line, tag, taken)
    /\ Run(q, tag, Owed(map, r, line, tag, 0), words, exact)

Reader(r) == /\ r.counter \in Nat /\ r.respack \in BOOLEAN
             /\ r.state = "E" => r.counter <= Beats

(* What a rising edge does to a cache's read: nothing; the grant; a beat of  *)
(* its own; a wait.                                                          *)
Elsewise(r, s, granted) ==
    /\ r.state # "E" /\ s.state # "E" /\ ~s.respack
    /\ ~(r.state = "D" /\ granted)

Grant(r, s, granted) ==
    /\ r.state = "D" /\ granted
    /\ s.state = "E" /\ s.counter = 0 /\ ~s.respack

TakeBeat(r, s, beat) ==
    /\ r.state = "E" /\ beat.cyc /\ beat.tag = r.reqtag
    /\ s.counter = r.counter + 1 /\ s.respack
    /\ r.counter < Beats => s.state = "E"

NoBeat(r, s, beat) ==
    /\ r.state = "E" /\ ~(beat.cyc /\ beat.tag = r.reqtag)
    /\ s.counter = r.counter /\ ~s.respack
    /\ s.state = IF r.counter = Beats THEN "B" ELSE "E"

ReaderStep(r, s, granted, beat) ==
    \/ Elsewise(r, s, granted) \/ Grant(r, s, granted)
    \/ TakeBeat(r, s, beat) \/ NoBeat(r, s, beat)

Shows(beat, q) ==
    beat = IF q = <<>> THEN Bus!Quiet
           ELSE [cyc |-> TRUE, tag |-> Head(q).tag, data |-> Head(q).data]

LEMMA EdgeRead ==
    ASSUME NEW q \in Seq(Bus!BeatType), NEW map, NEW words, NEW r, NEW s,
           NEW line, NEW tag, NEW taken \in BOOLEAN, NEW exact \in BOOLEAN,
           NEW granted \in BOOLEAN, NEW beat,
           Reader(r), Reader(s),
           AfterTick(q, map, words, r, line, tag, taken, exact),
           taken <=> r.state = "D" /\ granted,
           r.state = "E" => r.reqtag = tag,
           Shows(beat, q),
           ReaderStep(r, s, granted, beat)
    PROVE  BeforeTick(q, map, words, s, line, tag, exact)
<1> DEFINE n == Owed(map, r, line, tag, 0)
           m == Owed(map, s, line, tag, IF s.respack THEN 1 ELSE 0)
<1>1. Outstanding(map, r, line, tag, taken) /\ Run(q, tag, n, words, exact)
  BY DEF AfterTick
<1>2. n \in Nat /\ Beats \in Nat \ {0}
  BY DEF Owed, Reader
<1>3. beat.cyc => q # <<>> /\ beat.tag = Head(q).tag
  BY DEF Shows, Bus!Quiet
<1>4. beat.cyc /\ beat.tag = tag => n > 0
  BY <1>1, <1>2, <1>3, RunPopOwn
<1>5. SUFFICES Outstanding(map, s, line, tag, FALSE) /\ Popping(q, map, s, line, tag) /\ m = n
  BY <1>1 DEF BeforeTick
<1>6. CASE Elsewise(r, s, granted)
  BY <1>1, <1>6 DEF Elsewise, Outstanding, Popping, Owed
<1>7. CASE Grant(r, s, granted)
  BY <1>1, <1>7 DEF Grant, Outstanding, Popping, Owed
<1>8. CASE TakeBeat(r, s, beat)
  <2>1. n > 0 /\ q # <<>> /\ Head(q).tag = tag
    BY <1>3, <1>4, <1>8 DEF TakeBeat
  <2>2. map[line] # tag /\ r.counter < Beats
    BY <1>8, <2>1 DEF TakeBeat, Owed, Reader
  <2>3. s.state = "E" /\ s.respack /\ s.counter = r.counter + 1 /\ r.state = "E"
    BY <1>8, <2>2 DEF TakeBeat
  <2>4. Outstanding(map, s, line, tag, FALSE) /\ Popping(q, map, s, line, tag)
    BY <1>1, <2>1, <2>2, <2>3 DEF Outstanding, Popping, Reader
  <2>5. m = n
    BY <2>2, <2>3 DEF Owed, Reader
  <2> QED
    BY <2>4, <2>5
<1>9. CASE NoBeat(r, s, beat)
  <2>1. r.state = "E" /\ ~taken /\ ~s.respack /\ s.counter = r.counter
    BY <1>9 DEF NoBeat
  <2>2. CASE r.counter = Beats
    <3>1. s.state = "B" /\ map[line] # tag
      BY <1>1, <1>2, <1>9, <2>1, <2>2 DEF NoBeat, Outstanding
    <3> QED
      BY <1>1, <1>2, <2>1, <2>2, <3>1 DEF Outstanding, Popping, Owed, Reader
  <2>3. CASE r.counter # Beats
    <3>1. s.state = "E"
      BY <1>9, <2>3 DEF NoBeat
    <3> QED
      BY <1>1, <2>1, <3>1 DEF Outstanding, Popping, Owed
  <2> QED
    BY <2>2, <2>3
<1> QED
  BY <1>6, <1>7, <1>8, <1>9 DEF ReaderStep

(* What a tick(1) does to one cache's read: the reply of its line arrives,   *)
(* or one of another; the beat it acknowledged, or one of the other cache,   *)
(* leaves the queue; its request is taken, or not.                           *)
Completes(reply, map, after, line, tag, words) ==
    \/ Free(reply, tag) /\ \A l \in Lines : after[l] = tag <=> map[l] = tag
    \/ /\ line \in Lines /\ map[line] = tag /\ FullLine(reply, tag, words)
       /\ \A l \in Lines : after[l] # tag

Pops(q, r, tag, ack) ==
    /\ r.respack => ack
    /\ ack => r.respack \/ (q # <<>> /\ Head(q).tag # tag)

Takes(after, final, r, line, tag, new) ==
    /\ new => r.state # "E"
    /\ \A l \in Lines : final[l] = tag <=> after[l] = tag \/ (new /\ l = line)

LEMMA TickRead ==
    ASSUME NEW q \in Seq(Bus!BeatType), NEW extra \in Seq(Bus!BeatType),
           NEW reply \in Seq(Bus!BeatType), NEW map, NEW after, NEW final,
           NEW words, NEW wordsThen, NEW r, NEW line, NEW tag,
           NEW ack \in BOOLEAN, NEW new \in BOOLEAN, NEW exact \in BOOLEAN,
           Reader(r), Free(extra, tag), r.state = "E" \/ new => line \in Lines,
           BeforeTick(q, map, words, r, line, tag, exact),
           Completes(reply, map, after, line, tag, words),
           Pops(q, r, tag, ack),
           Takes(after, final, r, line, tag, new),
           exact => wordsThen = words
    PROVE  AfterTick(Bus!Delivered((q \o extra) \o reply, ack), final, wordsThen, r,
                     line, tag, new, exact)
<1> DEFINE n == Owed(map, r, line, tag, IF r.respack THEN 1 ELSE 0)
           all == (q \o extra) \o reply
           m == Owed(after, r, line, tag, IF r.respack THEN 1 ELSE 0)
           k == Owed(final, r, line, tag, 0)
<1>1. /\ Outstanding(map, r, line, tag, FALSE) /\ Popping(q, map, r, line, tag)
      /\ Run(q, tag, n, words, exact)
  BY DEF BeforeTick
<1>2. n \in Nat /\ Beats \in Nat \ {0}
  BY DEF Owed, Reader
<1>3. Run(q \o extra, tag, n, words, exact) /\ q \o extra \in Seq(Bus!BeatType)
  BY <1>1, <1>2, RunJoin, Joined
<1>4. Run(all, tag, m, words, exact)
  <2>1. CASE Free(reply, tag) /\ \A l \in Lines : after[l] = tag <=> map[l] = tag
    <3>0. r.state = "E" => (after[line] = tag <=> map[line] = tag)
      BY <2>1
    <3>1. m = n /\ Free(reply, tag)
      BY <2>1, <3>0 DEF Owed
    <3> HIDE DEF n, m
    <3> DEFINE qe == q \o extra
    <3>2. qe \in Seq(Bus!BeatType) /\ Run(qe, tag, n, words, exact) /\ n \in Nat
      BY <1>2, <1>3
    <3> HIDE DEF qe
    <3>3. Run(qe \o reply, tag, n, words, exact)
      BY <3>1, <3>2, RunJoin
    <3> QED
      BY <3>1, <3>3 DEF qe
  <2>2. CASE /\ line \in Lines /\ map[line] = tag /\ FullLine(reply, tag, words)
             /\ \A l \in Lines : after[l] # tag
    <3>1. r.state = "E" /\ r.counter = 0 /\ ~r.respack
      BY <1>1, <2>2 DEF Outstanding
    <3>2. n = 0 /\ m = Beats
      BY <1>2, <2>2, <3>1 DEF Owed
    <3> DEFINE qe == q \o extra
    <3>3. /\ Run(qe, tag, 0, words, exact) /\ FullLine(reply, tag, words)
          /\ qe \in Seq(Bus!BeatType)
      BY <1>3, <2>2, <3>2
    <3> HIDE DEF qe
    <3>4. Run(qe \o reply, tag, Beats, words, exact)
      BY <3>3, RunArrive
    <3> QED
      BY <3>2, <3>4 DEF qe
  <2> QED
    BY <2>1, <2>2 DEF Completes
<1>5. /\ all \in Seq(Bus!BeatType) /\ m \in Nat
      /\ q # <<>> => all # <<>> /\ Head(all) = Head(q)
  <2>1. /\ all \in Seq(Bus!BeatType) /\ Len(all) = Len(q) + Len(extra) + Len(reply)
        /\ \A i \in 1 .. Len(q) : all[i] = q[i]
    <3>1. /\ Len(q \o extra) = Len(q) + Len(extra)
          /\ \A i \in 1 .. Len(q) : (q \o extra)[i] = q[i]
      BY Joined
    <3>2. /\ all \in Seq(Bus!BeatType) /\ Len(all) = Len(q \o extra) + Len(reply)
          /\ \A i \in 1 .. Len(q \o extra) : all[i] = (q \o extra)[i]
      BY <1>3, Joined
    <3>3. Len(q) \in Nat /\ Len(extra) \in Nat
      OBVIOUS
    <3> HIDE DEF all
    <3> QED
      BY <3>1, <3>2, <3>3
  <2>2. m \in Nat
    BY <1>2 DEF Owed, Reader
  <2>3. q # <<>> => Len(q) > 0 /\ Head(q) = q[1] /\ 1 \in 1 .. Len(q)
    OBVIOUS
  <2>4. Len(extra) \in Nat /\ Len(reply) \in Nat /\ Len(q) \in Nat
    OBVIOUS
  <2> HIDE DEF all, m
  <2>5. Len(all) > 0 => all # <<>> /\ Head(all) = all[1]
    BY <2>1
  <2> QED
    BY <2>1, <2>2, <2>3, <2>4, <2>5
<1>6. Run(Bus!Delivered(all, ack), tag, IF r.respack THEN m - 1 ELSE m, words, exact)
  <2> HIDE DEF all, m
  <2>1. CASE r.respack
    <3>1. ack /\ all # <<>> /\ Head(all).tag = tag
      BY <1>1, <1>5, <2>1 DEF Pops, Popping
    <3> QED
      BY <1>4, <1>5, <2>1, <3>1, RunPopOwn DEF Bus!Delivered
  <2>2. CASE ~r.respack /\ ack
    <3>1. all # <<>> /\ Head(all).tag # tag
      BY <1>5, <2>2 DEF Pops
    <3> QED
      BY <1>4, <1>5, <2>2, <3>1, RunPopOther DEF Bus!Delivered
  <2>3. CASE ~ack
    <3>1. ~r.respack
      BY <2>3 DEF Pops
    <3> QED
      BY <1>4, <2>3, <3>1 DEF Bus!Delivered
  <2> QED
    BY <2>1, <2>2, <2>3
<1>7. k = IF r.respack THEN m - 1 ELSE m
  <2>1. r.respack => r.state = "E" /\ map[line] # tag /\ r.counter > 0
    BY <1>1 DEF Popping
  <2>2. r.respack => after[line] # tag
    BY <2>1 DEF Completes
  <2>3. r.state = "E" => (final[line] = tag <=> after[line] = tag)
    BY DEF Takes
  <2> QED
    BY <1>2, <2>1, <2>2, <2>3 DEF Owed, Reader
<1>8. Outstanding(final, r, line, tag, new)
  <2>1. \A l \in Lines : after[l] = tag => map[l] = tag
    BY DEF Completes
  <2>2. \A l \in Lines : final[l] = tag => l = line /\ (r.state = "E" \/ new)
    BY <1>1, <2>1 DEF Takes, Outstanding
  <2>3. new => final[line] = tag
    BY DEF Takes
  <2>4. r.state = "E" /\ final[line] = tag => r.counter = 0 /\ ~r.respack
    BY <1>1, <2>1 DEF Takes, Outstanding
  <2> QED
    BY <2>2, <2>3, <2>4 DEF Outstanding
<1> DEFINE rest == Bus!Delivered(all, ack)
<1> HIDE DEF all, m, k
<1>9. Run(rest, tag, k, words, exact)
  BY <1>6, <1>7
<1>10. Run(rest, tag, k, wordsThen, exact)
  <2> HIDE DEF rest
  <2> QED
    BY <1>9 DEF Run
<1> QED
  BY <1>8, <1>10 DEF AfterTick, all, k

-----------------------------------------------------------------------------
(* Both caches read in these steps, and name the requested line on the bus.  *)
LEMMA ICacheReads ==
    ASSUME IC!TypeOK, NEW procReq \in BOOLEAN, NEW line, NEW word, NEW ack \in BOOLEAN,
           NEW beat, IC!Step(procReq, line, word, ack, beat)
    PROVE  /\ ReaderStep(icRegs, icRegs', ack, beat)
           /\ icRegs'.state = "E" => icRegs'.reqtag = icRegs.reqtag
           /\ icRegs'.reqcyc => /\ icRegs'.state = "D" /\ icRegs.state = "D"
                                /\ icRegs'.req = line /\ icRegs'.reqtag = "IRead"
<1> USE DEF IC!TypeOK, IC!RegsType, IC!Defaults, ReaderStep
<1>1. CASE IC!Idle
  BY <1>1 DEF IC!Idle, Elsewise
<1>2. CASE procReq /\ IC!Lookup(line)
  BY <1>2 DEF IC!Lookup, Elsewise
<1>3. CASE IC!Hit(line, word)
  BY <1>3 DEF IC!Hit, Elsewise
<1>4. CASE IC!Miss(line)
  BY <1>4 DEF IC!Miss, Elsewise
<1>5. CASE IC!Request(line, ack)
  BY <1>5 DEF IC!Request, Elsewise
<1>6. CASE IC!Granted(line, ack)
  BY <1>6 DEF IC!Granted, Grant
<1>7. CASE IC!Beat(line, beat)
  BY <1>7 DEF IC!Beat, TakeBeat
<1>8. CASE IC!Wait(line, beat)
  BY <1>8 DEF IC!Wait, NoBeat
<1> QED
  BY <1>1, <1>2, <1>3, <1>4, <1>5, <1>6, <1>7, <1>8 DEF IC!Step

LEMMA DCacheReads ==
    ASSUME DC!TypeOK, NEW procReq \in BOOLEAN, NEW op, NEW ack \in BOOLEAN, NEW beat,
           procReq \/ dcRegs.state # "A" => op \in Loads \cup Stores,
           DC!Step(procReq, op, ack, beat)
    PROVE  /\ ReaderStep(dcRegs, dcRegs', ack, beat)
           /\ dcRegs'.state = "E" => dcRegs'.reqtag = dcRegs.reqtag
           /\ dcRegs'.reqcyc /\ dcRegs'.state = "D" =>
                 dcRegs.state = "D" /\ dcRegs'.req = op.line
           /\ \A s \in Sets :
                 \/ dcRows'[s].tag = dcRows[s].tag
                 \/ /\ dcRegs.state = "D" /\ s = SetOf[op.line]
                    /\ dcRows'[s].tag = op.line
           /\ dcRegs'.state = "C" =>
                 \/ dcRegs.state = "B" /\ dcOut.dirty /\ dcOut' = dcRows[SetOf[op.line]]
                 \/ dcRegs.state = "C" /\ dcOut' = dcRows[SetOf[op.line]]
<1> USE DEF DC!TypeOK, DC!RegsType, DC!Defaults, DC!ReadPort, ReaderStep
<1>s. procReq \/ dcRegs.state # "A" => SetOf[op.line] \in Sets
  BY DEF Loads, Stores, Presented, Lines
<1>1. CASE DC!Idle
  BY <1>1 DEF DC!Idle, Elsewise
<1>2. CASE procReq /\ DC!Lookup(op)
  BY <1>2 DEF DC!Lookup, Elsewise
<1>3. CASE DC!Hit(op)
  <2>1. \A s \in Sets : dcRows'[s].tag = dcRows[s].tag
    BY <1>3, <1>s DEF DC!Hit, DC!RowType
  <2> QED
    BY <1>3, <2>1 DEF DC!Hit, Elsewise
<1>4. CASE DC!Miss(op)
  BY <1>4 DEF DC!Miss, Elsewise
<1>5. CASE DC!EvictAddress(op)
  BY <1>5 DEF DC!EvictAddress, Elsewise
<1>6. CASE DC!EvictBeat(op, ack)
  BY <1>6 DEF DC!EvictBeat, Elsewise
<1>7. CASE DC!EvictDone(op, ack)
  BY <1>7 DEF DC!EvictDone, Elsewise
<1>8. CASE DC!EvictHold(op, ack)
  BY <1>8 DEF DC!EvictHold, Elsewise
<1>9. CASE DC!Request(op, ack)
  <2>1. \A s \in Sets : IF s = SetOf[op.line] THEN dcRows'[s].tag = op.line
                        ELSE dcRows'[s].tag = dcRows[s].tag
    BY <1>9, <1>s DEF DC!Request, DC!RowType
  <2> QED
    BY <1>9, <2>1 DEF DC!Request, Elsewise
<1>10. CASE DC!Granted(op, ack)
  BY <1>10 DEF DC!Granted, Grant
<1>11. CASE DC!Beat(op, beat)
  <2>1. \A s \in Sets : dcRows'[s].tag = dcRows[s].tag
    BY <1>11, <1>s DEF DC!Beat, DC!RowType
  <2>2. /\ dcRegs.state = "E" /\ beat.cyc /\ beat.tag = dcRegs.reqtag
        /\ dcRegs'.counter = dcRegs.counter + 1 /\ dcRegs'.respack
        /\ dcRegs.counter < Beats => dcRegs'.state = "E"
        /\ dcRegs'.state = "E" => dcRegs'.reqtag = dcRegs.reqtag
        /\ dcRegs'.state \in {"B", "E"} /\ ~dcRegs'.reqcyc
    BY <1>11 DEF DC!Beat
  <2> QED
    BY <2>1, <2>2 DEF TakeBeat
<1>12. CASE DC!Wait(op, beat)
  <2>1. /\ dcRows' = dcRows /\ dcRegs.state = "E"
        /\ ~(beat.cyc /\ beat.tag = dcRegs.reqtag)
        /\ dcRegs'.counter = dcRegs.counter /\ ~dcRegs'.respack
        /\ dcRegs'.state = IF dcRegs.counter = Beats THEN "B" ELSE "E"
        /\ dcRegs'.reqtag = dcRegs.reqtag /\ ~dcRegs'.reqcyc
    BY <1>12 DEF DC!Wait
  <2> QED
    BY <2>1 DEF NoBeat
<1> QED
  BY <1>1, <1>2, <1>3, <1>4, <1>5, <1>6, <1>7, <1>8, <1>9, <1>10, <1>11, <1>12
     DEF DC!Step

-----------------------------------------------------------------------------
(* The DRAM queue: one transaction of a kind, and a write-back in front of   *)
(* the read for which it makes room.                                         *)
Kind(t, map) == IF t.write THEN "DWrite" ELSE map[t.line]

Has(q, map, kind) == \E i \in 1 .. Len(q) : Kind(q[i], map) = kind

Kinds == {"IRead", "DRead", "DWrite"}
Tagged == [Lines -> {"none", "IRead", "DRead"}]

Ordered(q, map) ==
    /\ \A i \in 1 .. Len(q) : Kind(q[i], map) # "none"
    /\ \A i, j \in 1 .. Len(q) : Kind(q[i], map) = Kind(q[j], map) => i = j
    /\ \A i, j \in 1 .. Len(q) :
          Kind(q[i], map) = "DWrite" /\ Kind(q[j], map) = "DRead" => i < j

LEMMA QueueShort ==
    ASSUME NEW q \in Seq(Bus!Transaction), NEW map \in Tagged, Ordered(q, map)
    PROVE  Len(q) <= 3
<1>1. \A i \in 1 .. Len(q) : Kind(q[i], map) \in Kinds
  <2> SUFFICES ASSUME NEW i \in 1 .. Len(q) PROVE Kind(q[i], map) \in Kinds
    OBVIOUS
  <2>1. q[i] \in Bus!Transaction
    OBVIOUS
  <2>2. q[i].line \in Lines
    BY <2>1 DEF Bus!Transaction
  <2>3. map[q[i].line] \in {"none", "IRead", "DRead"}
    BY <2>2 DEF Tagged
  <2>4. Kind(q[i], map) # "none"
    BY DEF Ordered
  <2> QED
    BY <2>3, <2>4 DEF Kind, Kinds
<1>2. SUFFICES ASSUME Len(q) > 3 PROVE FALSE
  OBVIOUS
<1>3. 1 \in 1 .. Len(q) /\ 2 \in 1 .. Len(q) /\ 3 \in 1 .. Len(q) /\ 4 \in 1 .. Len(q)
  BY <1>2
<1> DEFINE k(i) == Kind(q[i], map)
<1>4. k(1) \in Kinds /\ k(2) \in Kinds /\ k(3) \in Kinds /\ k(4) \in Kinds
  BY <1>1, <1>3
<1>5. \A i, j \in 1 .. Len(q) : k(i) = k(j) => i = j
  BY DEF Ordered
<1> HIDE DEF k
<1>6. k(1) # k(2) /\ k(1) # k(3) /\ k(1) # k(4) /\ k(2) # k(3) /\ k(2) # k(4) /\ k(3) # k(4)
  BY <1>3, <1>5
<1> QED
  BY <1>4, <1>6 DEF Kinds

LEMMA QueueTail ==
    ASSUME NEW q \in Seq(Bus!Transaction), NEW map \in Tagged, Ordered(q, map), q # <<>>
    PROVE  /\ Ordered(Tail(q), map)
           /\ \A kind : Has(Tail(q), map, kind) => Has(q, map, kind)
           /\ Has(Tail(q), map, "DWrite") /\ Has(q, map, "DRead") =>
                 Has(Tail(q), map, "DRead")
<1> DEFINE t == Tail(q)
<1>1. /\ Len(t) = Len(q) - 1 /\ Len(q) \in Nat /\ Len(q) > 0
      /\ \A i \in 1 .. Len(q) - 1 : t[i] = q[i + 1]
  OBVIOUS
<1> HIDE DEF t
<1>2. \A i \in 1 .. Len(t) : t[i] = q[i + 1] /\ i + 1 \in 1 .. Len(q)
  BY <1>1
<1>3. Ordered(t, map)
  <2>1. ASSUME NEW i \in 1 .. Len(t)
        PROVE  Kind(t[i], map) # "none"
    BY <1>2 DEF Ordered
  <2>2. ASSUME NEW i \in 1 .. Len(t), NEW j \in 1 .. Len(t)
        PROVE  /\ Kind(t[i], map) = Kind(t[j], map) => i = j
               /\ Kind(t[i], map) = "DWrite" /\ Kind(t[j], map) = "DRead" => i < j
    <3>1. i + 1 \in 1 .. Len(q) /\ j + 1 \in 1 .. Len(q) /\ t[i] = q[i + 1] /\ t[j] = q[j + 1]
      BY <1>2
    <3>2. Kind(q[i + 1], map) = Kind(q[j + 1], map) => i + 1 = j + 1
      BY <3>1 DEF Ordered
    <3>3. Kind(q[i + 1], map) = "DWrite" /\ Kind(q[j + 1], map) = "DRead" => i + 1 < j + 1
      BY <3>1 DEF Ordered
    <3>4. i \in Nat /\ j \in Nat
      OBVIOUS
    <3> QED
      BY <3>1, <3>2, <3>3, <3>4
  <2> QED
    BY <2>1, <2>2 DEF Ordered
<1>4. \A kind : Has(t, map, kind) => Has(q, map, kind)
  BY <1>2 DEF Has
<1>5. Has(t, map, "DWrite") /\ Has(q, map, "DRead") => Has(t, map, "DRead")
  <2> SUFFICES ASSUME NEW i \in 1 .. Len(t), Kind(t[i], map) = "DWrite",
                      NEW j \in 1 .. Len(q), Kind(q[j], map) = "DRead"
               PROVE  Has(t, map, "DRead")
    BY DEF Has
  <2>1. i + 1 < j
    BY <1>2 DEF Ordered
  <2>2. j - 1 \in 1 .. Len(t)
    BY <1>1, <2>1
  <2>3. t[j - 1] = q[j]
    BY <1>2, <2>2
  <2> QED
    BY <2>2, <2>3 DEF Has
<1> QED
  BY <1>3, <1>4, <1>5 DEF t

(* The tags of the queued transactions are all that matters.                 *)
SameKinds(q, map, after) ==
    \A i \in 1 .. Len(q) : Kind(q[i], after) = Kind(q[i], map)

LEMMA QueueRetag ==
    ASSUME NEW q, NEW map, NEW after, Ordered(q, map), SameKinds(q, map, after)
    PROVE  Ordered(q, after) /\ \A kind : Has(q, after, kind) <=> Has(q, map, kind)
BY DEF Ordered, Has, SameKinds

LEMMA QueueAppend ==
    ASSUME NEW q \in Seq(Bus!Transaction), NEW map \in Tagged, NEW t \in Bus!Transaction,
           Ordered(q, map), Kind(t, map) # "none", ~Has(q, map, Kind(t, map)),
           Kind(t, map) = "DWrite" => ~Has(q, map, "DRead")
    PROVE  /\ Ordered(Append(q, t), map)
           /\ \A kind : Has(Append(q, t), map, kind) <=>
                           Has(q, map, kind) \/ kind = Kind(t, map)
<1> DEFINE a == Append(q, t)
<1>1. /\ Len(a) = Len(q) + 1 /\ Len(q) \in Nat
      /\ \A i \in 1 .. Len(q) : a[i] = q[i]
      /\ a[Len(q) + 1] = t
  OBVIOUS
<1> HIDE DEF a
<1>2. \A i \in 1 .. Len(a) :
         \/ i \in 1 .. Len(q) /\ a[i] = q[i]
         \/ i = Len(q) + 1 /\ a[i] = t
  <2> SUFFICES ASSUME NEW i \in 1 .. Len(a)
               PROVE  \/ i \in 1 .. Len(q) /\ a[i] = q[i]
                      \/ i = Len(q) + 1 /\ a[i] = t
    OBVIOUS
  <2>1. CASE i = Len(q) + 1
    BY <1>1, <2>1
  <2>2. CASE i # Len(q) + 1
    <3>1. i \in 1 .. Len(q)
      BY <1>1, <2>2
    <3> QED
      BY <1>1, <3>1
  <2> QED
    BY <2>1, <2>2
<1>5. \A i \in 1 .. Len(q) : i \in 1 .. Len(a) /\ a[i] = q[i]
  BY <1>1
<1>6. Len(q) + 1 \in 1 .. Len(a)
  BY <1>1
<1>3. \A kind : Has(a, map, kind) <=> Has(q, map, kind) \/ kind = Kind(t, map)
  BY <1>1, <1>2, <1>5, <1>6 DEF Has
<1>7. \A i \in 1 .. Len(q) : Kind(q[i], map) # Kind(t, map)
  BY DEF Has
<1>8. Kind(t, map) = "DWrite" => \A i \in 1 .. Len(q) : Kind(q[i], map) # "DRead"
  BY DEF Has
<1>4. Ordered(a, map)
  BY <1>1, <1>2, <1>7, <1>8 DEF Ordered
<1> QED
  BY <1>3, <1>4 DEF a

-----------------------------------------------------------------------------
(* The requests on the wires and the rows they are for.                      *)
RequestInv ==
    /\ icRegs.reqcyc => /\ icRegs.state = "D"
                        /\ icRegs.req = fetch.line /\ icRegs.reqtag = "IRead"
    /\ dcRegs.reqcyc /\ dcRegs.state = "D" => dcRegs.req = access.line
    /\ icRegs.state = "E" => icRegs.reqtag = "IRead"
    /\ dcRegs.state = "E" => dcRegs.reqtag = "DRead"
    /\ dcRegs.state = "C" => dcOut.dirty
    /\ \A s \in Sets : /\ dcRows[s].tag \in Lines /\ SetOf[dcRows[s].tag] = s
                       /\ dcRows[s].tag \in FetchLines => ~ResetApart

(* At an edge the bus acknowledges whoever drives it, and nobody else.       *)
GrantInv ==
    /\ phase = "edge" => (reqack <=> Driver # "none")
    /\ phase = "low" /\ Driver = "none" => ~reqack

(* Nor is a word of a write-back ever refused.                               *)
StreamInv ==
    phase = "high" /\ dcRegs.state = "C" /\ dcRegs.counter > 1 =>
        rx_count = Beats + 2 - dcRegs.counter

(* The requests that the last tick(1) has taken.                             *)
FetchTaken  == phase # "high" /\ Driver = "ic"
AccessTaken == phase # "high" /\ Driver = "dc" /\ dcRegs.state = "D"

FetchRead ==
    IF phase = "high"
    THEN BeforeTick(tx_queue, addr_to_tag, ram[fetch.line], icRegs, fetch.line,
                    "IRead", ResetApart)
    ELSE AfterTick(tx_queue, addr_to_tag, ram[fetch.line], icRegs, fetch.line,
                   "IRead", FetchTaken, ResetApart)

AccessRead ==
    IF phase = "high"
    THEN BeforeTick(tx_queue, addr_to_tag, ram[access.line], dcRegs, access.line,
                    "DRead", TRUE)
    ELSE AfterTick(tx_queue, addr_to_tag, ram[access.line], dcRegs, access.line,
                   "DRead", AccessTaken, TRUE)

(* A write-back waits in the DRAM only until the read behind it is served.   *)
WritePending ==
    \/ dcRegs.state \in {"D", "E"}
    \/ dcRegs.state = "C" /\ dcRegs.counter > 1
    \/ dcRegs.state = "C" /\ phase # "high" /\ Driver = "dc"

DramInv ==
    /\ Ordered(transq, addr_to_tag)
    /\ Has(transq, addr_to_tag, "DWrite") =>
         /\ WritePending
         /\ dcRegs.state = "E" \/ AccessTaken => Has(transq, addr_to_tag, "DRead")

RInv == /\ ~aborted /\ RequestInv /\ GrantInv /\ StreamInv /\ Shows(resp, tx_queue)
        /\ FetchRead /\ AccessRead /\ DramInv

-----------------------------------------------------------------------------
LEMMA InitReplies == Init => RInv
<1> SUFFICES ASSUME Init PROVE RInv
  OBVIOUS
<1> USE DEF Init
<1>1. RequestInv
  <2>1. \A s \in Sets : /\ dcRows[s].tag \in Lines /\ SetOf[dcRows[s].tag] = s
                        /\ dcRows[s].tag \in FetchLines => ~ResetApart
    <3> SUFFICES ASSUME NEW s \in Sets
                 PROVE  /\ dcRows[s].tag \in Lines /\ SetOf[dcRows[s].tag] = s
                        /\ dcRows[s].tag \in FetchLines => ~ResetApart
      OBVIOUS
    <3>1. dcRows[s].tag = ResetLine[s]
      BY DEF DC!Init, DC!ResetRow
    <3>2. ResetLine[s] \in Lines
      BY DEF Lines
    <3> QED
      BY <3>1, <3>2 DEF ResetApart
  <2> QED
    BY <2>1 DEF RequestInv, IC!Init, DC!Init
<1>2. GrantInv /\ StreamInv /\ Shows(resp, tx_queue) /\ ~aborted
  BY DEF GrantInv, StreamInv, Shows, Driver, Arb!Driver, Arb!Init, IC!Init, DC!Init,
         Bus!Init
<1>3. ASSUME NEW tag, NEW words, NEW exact
      PROVE  Run(<<>>, tag, 0, words, exact)
  <2>1. RunAt(<<>>, tag, 0, 0) /\ RunData(<<>>, 0, 0, words)
    BY DEF RunAt, RunData
  <2> QED
    BY <2>1 DEF Run
<1>4. FetchRead
  <2>1. ~FetchTaken /\ icRegs.state = "A" /\ ResetApart \in BOOLEAN
    BY DEF FetchTaken, Driver, Arb!Driver, Arb!Init, IC!Init, DC!Init, ResetApart
  <2>2. Outstanding(addr_to_tag, icRegs, fetch.line, "IRead", FetchTaken)
    BY <2>1 DEF Outstanding, Bus!Init
  <2>3. tx_queue = <<>> /\ Owed(addr_to_tag, icRegs, fetch.line, "IRead", 0) = 0
    BY <2>1 DEF Owed, Bus!Init
  <2> QED
    BY <1>3, <2>1, <2>2, <2>3 DEF FetchRead, AfterTick
<1>5. AccessRead
  <2>1. ~AccessTaken /\ dcRegs.state = "A"
    BY DEF AccessTaken, DC!Init
  <2>2. Outstanding(addr_to_tag, dcRegs, access.line, "DRead", AccessTaken)
    BY <2>1 DEF Outstanding, Bus!Init
  <2>3. tx_queue = <<>> /\ Owed(addr_to_tag, dcRegs, access.line, "DRead", 0) = 0
    BY <2>1 DEF Owed, Bus!Init
  <2>4. Run(<<>>, "DRead", 0, ram[access.line], TRUE)
    BY <1>3, Zenon
  <2> QED
    BY <2>1, <2>2, <2>3, <2>4 DEF AccessRead, AfterTick
<1>6. DramInv
  BY DEF DramInv, Ordered, Has, Bus!Init
<1> QED
  BY <1>1, <1>2, <1>4, <1>5, <1>6 DEF RInv

(* The acknowledgement reaches the cache that drives the bus.                *)
LEMMA EdgeGrants ==
    ASSUME TypeOK, GrantInv, RequestInv, EvictInv, phase = "edge"
    PROVE  /\ ic_reqack \in BOOLEAN /\ dc_reqack \in BOOLEAN
           /\ ic_reqack <=> Driver = "ic"
           /\ dc_reqack <=> Driver = "dc"
           /\ Driver = "ic" => icRegs.reqcyc /\ icRegs.state = "D"
           /\ Driver = "dc" => dcRegs.reqcyc
           /\ FetchTaken <=> icRegs.state = "D" /\ ic_reqack
           /\ AccessTaken <=> dcRegs.state = "D" /\ dc_reqack
<1>1. /\ owner \in {"I", "A", "B"} /\ reqack \in BOOLEAN
      /\ icRegs.reqcyc \in BOOLEAN /\ dcRegs.reqcyc \in BOOLEAN
  BY DEF TypeOK, Arb!TypeOK, Arb!States, Bus!TypeOK, IC!TypeOK, IC!RegsType,
         DC!TypeOK, DC!RegsType
<1>2. /\ ic_reqack \in BOOLEAN /\ dc_reqack \in BOOLEAN
      /\ ic_reqack <=> Driver = "ic"
      /\ dc_reqack <=> Driver = "dc"
      /\ Driver = "ic" => icRegs.reqcyc
      /\ Driver = "dc" => dcRegs.reqcyc
  BY <1>1 DEF GrantInv, Driver, Arb!Driver, ic_reqack, Arb!IcReqack, dc_reqack,
              Arb!DcReqack
<1> QED
  BY <1>2 DEF RequestInv, FetchTaken, AccessTaken

(* A cache that is not reading has no beats and no tag, whatever its next    *)
(* line will be.                                                             *)
LEMMA IdleRead ==
    ASSUME NEW q, NEW map, NEW words, NEW wordsThen, NEW r, NEW line, NEW then,
           NEW tag, NEW exact, r.state # "E",
           BeforeTick(q, map, words, r, line, tag, exact)
    PROVE  BeforeTick(q, map, wordsThen, r, then, tag, exact)
<1>1. \A w : Owed(map, r, line, tag, w) = 0 /\ Owed(map, r, then, tag, w) = 0
  BY DEF Owed
<1>2. Run(q, tag, 0, words, exact) => Run(q, tag, 0, wordsThen, exact)
  BY DEF Run, RunData
<1>3. Outstanding(map, r, line, tag, FALSE) => Outstanding(map, r, then, tag, FALSE)
  BY DEF Outstanding
<1>4. Popping(q, map, r, line, tag) => Popping(q, map, r, then, tag)
  BY DEF Popping
<1>5. /\ Outstanding(map, r, line, tag, FALSE)
      /\ Popping(q, map, r, line, tag)
      /\ Run(q, tag, Owed(map, r, line, tag, IF r.respack THEN 1 ELSE 0), words, exact)
  BY DEF BeforeTick
<1>6. Run(q, tag, 0, wordsThen, exact)
  BY <1>1, <1>2, <1>5
<1>7. Run(q, tag, Owed(map, r, then, tag, IF r.respack THEN 1 ELSE 0), wordsThen, exact)
  BY <1>1, <1>6
<1> QED
  BY <1>3, <1>4, <1>5, <1>7 DEF BeforeTick

LEMMA IdleBetween ==
    ASSUME NEW q, NEW map, NEW words, NEW wordsThen, NEW r, NEW line, NEW then,
           NEW tag, NEW taken, ~taken, NEW exact, r.state # "E",
           AfterTick(q, map, words, r, line, tag, taken, exact)
    PROVE  AfterTick(q, map, wordsThen, r, then, tag, taken, exact)
<1>1. Owed(map, r, line, tag, 0) = 0 /\ Owed(map, r, then, tag, 0) = 0
  BY DEF Owed
<1>2. Run(q, tag, 0, words, exact) => Run(q, tag, 0, wordsThen, exact)
  BY DEF Run, RunData
<1>3. Outstanding(map, r, line, tag, taken) =>
         Outstanding(map, r, then, tag, taken)
  BY DEF Outstanding
<1> QED
  BY <1>1, <1>2, <1>3 DEF AfterTick

(* What the two lemmas on the caches say of a rising edge.                   *)
LEMMA EdgeReads ==
    ASSUME IInv, RInv, RisingEdge
    PROVE  /\ ReaderStep(icRegs, icRegs', ic_reqack, resp)
           /\ icRegs'.state = "E" => icRegs'.reqtag = icRegs.reqtag
           /\ icRegs'.reqcyc => /\ icRegs'.state = "D" /\ icRegs.state = "D"
                                /\ icRegs'.req = fetch.line /\ icRegs'.reqtag = "IRead"
           /\ ReaderStep(dcRegs, dcRegs', dc_reqack, resp)
           /\ dcRegs'.state = "E" => dcRegs'.reqtag = dcRegs.reqtag
           /\ dcRegs'.reqcyc /\ dcRegs'.state = "D" =>
                 dcRegs.state = "D" /\ dcRegs'.req = access.line
           /\ \A s \in Sets :
                 \/ dcRows'[s].tag = dcRows[s].tag
                 \/ /\ dcRegs.state = "D" /\ s = SetOf[access.line]
                    /\ dcRows'[s].tag = access.line
           /\ dcRegs'.state = "C" =>
                 \/ dcRegs.state = "B" /\ dcOut.dirty
                    /\ dcOut' = dcRows[SetOf[access.line]]
                 \/ dcRegs.state = "C" /\ dcOut' = dcRows[SetOf[access.line]]
<1>1. /\ IC!TypeOK /\ DC!TypeOK
      /\ fetch.up \in BOOLEAN /\ dcReq \in BOOLEAN
      /\ ic_reqack \in BOOLEAN /\ dc_reqack \in BOOLEAN
  BY DEF IInv, TypeOK, FetchOp, AccessOp, dcReq, ic_reqack, dc_reqack, Arb!IcReqack,
         Arb!DcReqack, Bus!TypeOK, DC!TypeOK, DC!RegsType
<1>2. dcReq \/ dcRegs.state # "A" => access \in Loads \cup Stores
  BY DEF IInv, AccessInv, dcReq
<1>3. /\ IC!Step(fetch.up, fetch.line, fetch.word, ic_reqack, resp)
      /\ DC!Step(dcReq, access, dc_reqack, resp)
  BY DEF RisingEdge
<1> QED
  BY <1>1, <1>2, <1>3, ICacheReads, DCacheReads

LEMMA ReaderTypes ==
    ASSUME IInv
    PROVE  Reader(icRegs) /\ Reader(dcRegs)
BY DEF IInv, TypeOK, FetchInv, AccessInv, IC!TypeOK, IC!RegsType, IC!Counter,
       DC!TypeOK, DC!RegsType, DC!Counter, Reader

LEMMA EdgeReplies ==
    ASSUME Separate, IInv, IInv', RInv, RisingEdge
    PROVE  RInv'
<1>1. /\ phase = "edge" /\ phase' = "high" /\ fetch' = fetch
      /\ ram' = ram /\ rx_count' = rx_count /\ addr_to_tag' = addr_to_tag
      /\ tx_queue' = tx_queue /\ resp' = resp /\ transq' = transq
      /\ aborted' = aborted /\ ~aborted
      /\ dcRegs.state # "A" => access' = access
  BY DEF RisingEdge, busVars, RInv, IInv, AccessInv, MemStage
<1>2. /\ ic_reqack \in BOOLEAN /\ dc_reqack \in BOOLEAN
      /\ ic_reqack <=> Driver = "ic"
      /\ dc_reqack <=> Driver = "dc"
      /\ Driver = "ic" => icRegs.reqcyc /\ icRegs.state = "D"
      /\ Driver = "dc" => dcRegs.reqcyc
      /\ FetchTaken <=> icRegs.state = "D" /\ ic_reqack
      /\ AccessTaken <=> dcRegs.state = "D" /\ dc_reqack
  BY <1>1, EdgeGrants DEF IInv, RInv
<1>3. /\ ReaderStep(icRegs, icRegs', ic_reqack, resp)
      /\ ReaderStep(dcRegs, dcRegs', dc_reqack, resp)
  BY EdgeReads
<1>4. Reader(icRegs) /\ Reader(dcRegs) /\ Reader(icRegs') /\ Reader(dcRegs')
  BY ReaderTypes DEF IInv, TypeOK, FetchInv, AccessInv, IC!TypeOK, IC!RegsType,
     IC!Counter, DC!TypeOK, DC!RegsType, DC!Counter, Reader
<1>5. RequestInv /\ Shows(resp, tx_queue) /\ tx_queue \in Seq(Bus!BeatType)
  BY DEF RInv, IInv, TypeOK, Bus!TypeOK
<1>6. RequestInv'
  <2>1. icRegs'.state = "E" =>
           icRegs.state = "E" \/ (icRegs.state = "D" /\ ic_reqack)
    BY <1>3 DEF ReaderStep, Elsewise, Grant, TakeBeat, NoBeat
  <2>2. icRegs'.state = "E" => icRegs'.reqtag = "IRead"
    BY <1>2, <1>5, <2>1, EdgeReads DEF RequestInv
  <2>3. dcRegs'.state = "E" =>
           dcRegs.state = "E" \/ (dcRegs.state = "D" /\ dc_reqack)
    BY <1>3 DEF ReaderStep, Elsewise, Grant, TakeBeat, NoBeat
  <2>4. dcRegs'.state = "E" => dcRegs'.reqtag = "DRead"
    BY <1>2, <1>5, <2>3, EdgeReads DEF RequestInv, IInv, EvictInv
  <2>5. dcRegs'.reqcyc /\ dcRegs'.state = "D" => dcRegs'.req = access'.line
    BY <1>1, EdgeReads
  <2>6. dcRegs'.state = "C" => dcOut'.dirty
    BY <1>5, EdgeReads DEF RequestInv, IInv, AccessInv
  <2>7. \A s \in Sets : /\ dcRows'[s].tag \in Lines /\ SetOf[dcRows'[s].tag] = s
                        /\ dcRows'[s].tag \in FetchLines => ~ResetApart
    <3> SUFFICES ASSUME NEW s \in Sets
                 PROVE  /\ dcRows'[s].tag \in Lines /\ SetOf[dcRows'[s].tag] = s
                        /\ dcRows'[s].tag \in FetchLines => ~ResetApart
      OBVIOUS
    <3>1. CASE dcRows'[s].tag = dcRows[s].tag
      BY <1>5, <3>1 DEF RequestInv
    <3>2. CASE /\ dcRegs.state = "D" /\ s = SetOf[access.line]
               /\ dcRows'[s].tag = access.line
      <4>1. access.line \in DataLines
        BY <3>2 DEF IInv, AccessInv, Loads, Stores, Presented
      <4> QED
        BY <3>2, <4>1 DEF Separate, Lines
    <3> QED
      BY <3>1, <3>2, EdgeReads
  <2> QED
    BY <1>1, <2>2, <2>4, <2>5, <2>6, <2>7, EdgeReads DEF RequestInv
<1>7. GrantInv'
  BY <1>1 DEF GrantInv
<1>8. StreamInv'
  <2>1. /\ DC!TypeOK /\ dcReq \in BOOLEAN
        /\ dcReq \/ dcRegs.state # "A" => access \in Loads \cup Stores
        /\ DC!Step(dcReq, access, dc_reqack, resp)
        /\ dcRegs.counter \in Nat
    BY DEF IInv, TypeOK, AccessInv, dcReq, AccessOp, DC!TypeOK, DC!RegsType, DC!Counter,
           RisingEdge
  <2>2. \/ dcRegs'.state = "C" => dcRegs'.counter <= 1
        \/ SendWord(access, dc_reqack) \/ HoldWord(access, dc_reqack)
    BY <1>2, <2>1, DCacheMoves
       DEF Elsewhere, DirtyMiss, CleanMiss, SendAddress, EndEviction, AskForLine
  <2>3. /\ dcRegs.state = "C" /\ dcRegs.counter > 1 => Driver = "dc"
        /\ dcRegs.state = "C" /\ Driver = "dc" =>
              rx_count = Beats + 1 - dcRegs.counter
    BY <1>1 DEF IInv, BurstInv
  <2>4. CASE SendWord(access, dc_reqack)
    BY <1>1, <1>2, <2>1, <2>3, <2>4 DEF SendWord, InEviction, StreamInv
  <2>5. CASE HoldWord(access, dc_reqack)
    BY <1>1, <1>2, <2>1, <2>3, <2>5 DEF HoldWord, InEviction, StreamInv
  <2>6. CASE dcRegs'.state = "C" => dcRegs'.counter <= 1
    <3>1. dcRegs'.counter \in Nat
      BY <1>4 DEF Reader
    <3> QED
      BY <2>6, <3>1 DEF StreamInv
  <2> QED
    BY <2>2, <2>4, <2>5, <2>6
<1>9. FetchRead'
  <2>1. AfterTick(tx_queue, addr_to_tag, ram[fetch.line], icRegs, fetch.line,
                  "IRead", FetchTaken, ResetApart)
    BY <1>1 DEF RInv, FetchRead
  <2>2. /\ FetchTaken \in BOOLEAN /\ ResetApart \in BOOLEAN
        /\ icRegs.state = "E" => icRegs.reqtag = "IRead"
    BY <1>5 DEF FetchTaken, ResetApart, RequestInv
  <2>3. BeforeTick(tx_queue, addr_to_tag, ram[fetch.line], icRegs', fetch.line,
                   "IRead", ResetApart)
    BY <1>2, <1>3, <1>4, <1>5, <2>1, <2>2, EdgeRead
  <2> QED
    BY <1>1, <2>3 DEF FetchRead
<1>10. AccessRead'
  <2> DEFINE sure == TRUE
  <2>1. AfterTick(tx_queue, addr_to_tag, ram[access.line], dcRegs, access.line,
                  "DRead", AccessTaken, sure)
    BY <1>1 DEF RInv, AccessRead
  <2>2. /\ AccessTaken \in BOOLEAN /\ sure \in BOOLEAN
        /\ dcRegs.state = "E" => dcRegs.reqtag = "DRead"
    BY <1>5 DEF AccessTaken, RequestInv
  <2> HIDE DEF sure
  <2>3. BeforeTick(tx_queue, addr_to_tag, ram[access.line], dcRegs', access.line,
                   "DRead", sure)
    BY <1>2, <1>3, <1>4, <1>5, <2>1, <2>2, EdgeRead
  <2>4. dcRegs.state = "A" => dcRegs'.state # "E"
    BY <1>3 DEF ReaderStep, Elsewise, Grant, TakeBeat, NoBeat
  <2>5. BeforeTick(tx_queue, addr_to_tag, ram[access'.line], dcRegs', access'.line,
                   "DRead", sure)
    <3>1. CASE dcRegs.state = "A"
      BY <2>3, <2>4, <3>1, IdleRead
    <3>2. CASE dcRegs.state # "A"
      BY <1>1, <2>3, <3>2
    <3> QED
      BY <3>1, <3>2
  <2> QED
    BY <1>1, <2>5 DEF AccessRead, sure
<1>11. DramInv'
  <2>1. Ordered(transq, addr_to_tag)
    BY DEF RInv, DramInv
  <2>2. SUFFICES ASSUME Has(transq, addr_to_tag, "DWrite")
                 PROVE  /\ WritePending'
                        /\ dcRegs'.state = "E" => Has(transq, addr_to_tag, "DRead")
    BY <1>1, <2>1 DEF DramInv, AccessTaken
  <2>3. /\ WritePending
        /\ dcRegs.state = "E" \/ AccessTaken => Has(transq, addr_to_tag, "DRead")
    BY <2>2 DEF RInv, DramInv
  <2>4. CASE dcRegs.state = "E"
    <3>1. PICK i \in 1 .. Len(transq) : Kind(transq[i], addr_to_tag) = "DRead"
      BY <2>3, <2>4 DEF Has
    <3>2. transq[i].line \in Lines /\ addr_to_tag[transq[i].line] = "DRead"
      <4>1. transq[i] \in Bus!Transaction
        BY DEF IInv, TypeOK, Bus!TypeOK
      <4> QED
        BY <3>1, <4>1 DEF Kind, Bus!Transaction
    <3>3. Outstanding(addr_to_tag, dcRegs, access.line, "DRead", AccessTaken)
      BY <1>1 DEF RInv, AccessRead, AfterTick
    <3>4. dcRegs.counter = 0
      BY <2>4, <3>2, <3>3 DEF Outstanding
    <3>5. dcRegs'.state = "E"
      BY <1>3, <2>4, <3>4 DEF ReaderStep, Elsewise, Grant, TakeBeat, NoBeat
    <3> QED
      BY <2>3, <2>4, <3>5 DEF WritePending
  <2>5. CASE dcRegs.state = "D"
    <3>1. dcRegs'.state \in {"D", "E"}
      <4>1. /\ DC!TypeOK /\ dcReq \in BOOLEAN
            /\ access \in Loads \cup Stores
            /\ DC!Step(dcReq, access, dc_reqack, resp)
        BY <2>5 DEF IInv, TypeOK, AccessInv, dcReq, AccessOp, DC!TypeOK, DC!RegsType,
               RisingEdge
      <4> QED
        BY <1>2, <2>5, <4>1, DCacheMoves
           DEF Elsewhere, DirtyMiss, CleanMiss, SendAddress, SendWord, HoldWord,
               InEviction, EndEviction, AskForLine
    <3>2. dcRegs'.state = "E" => AccessTaken
      BY <1>2, <1>3, <2>5 DEF ReaderStep, Elsewise, Grant, TakeBeat, NoBeat
    <3> QED
      BY <2>3, <3>1, <3>2 DEF WritePending
  <2>6. CASE dcRegs.state = "C"
    <3>1. /\ DC!TypeOK /\ dcReq \in BOOLEAN
          /\ access \in Loads \cup Stores
          /\ DC!Step(dcReq, access, dc_reqack, resp)
          /\ dcRegs.counter \in Nat
      BY <2>6 DEF IInv, TypeOK, AccessInv, dcReq, AccessOp, DC!TypeOK, DC!RegsType,
             DC!Counter, RisingEdge
    <3>2. dcRegs.counter > 1 \/ Driver = "dc"
      BY <2>3, <2>6 DEF WritePending
    <3>3. Driver = "dc"
      BY <1>1, <2>6, <3>2 DEF IInv, BurstInv
    <3>4. dcRegs.counter # 0
      BY <1>2, <2>6, <3>3 DEF IInv, EvictInv
    <3>5. SendWord(access, dc_reqack) \/ EndEviction(dc_reqack)
      <4>1. \/ Elsewhere(dcReq, access) \/ DirtyMiss(access) \/ CleanMiss
            \/ SendAddress(access) \/ SendWord(access, dc_reqack)
            \/ HoldWord(access, dc_reqack) \/ EndEviction(dc_reqack) \/ AskForLine(access)
        BY <1>2, <3>1, DCacheMoves
      <4>2. /\ ~Elsewhere(dcReq, access) /\ ~DirtyMiss(access) /\ ~CleanMiss
            /\ ~SendAddress(access) /\ ~AskForLine(access)
        BY <2>6, <3>4 DEF Elsewhere, DirtyMiss, CleanMiss, SendAddress, AskForLine
      <4>3. ~HoldWord(access, dc_reqack)
        BY <1>2, <3>3, <3>4 DEF HoldWord
      <4> QED
        BY <4>1, <4>2, <4>3
    <3> QED
      BY <3>1, <3>4, <3>5 DEF SendWord, InEviction, EndEviction, WritePending
  <2> QED
    BY <2>3, <2>4, <2>5, <2>6 DEF WritePending
<1> QED
  BY <1>1, <1>5, <1>6, <1>7, <1>8, <1>9, <1>10, <1>11 DEF RInv, Shows

-----------------------------------------------------------------------------
(* The DRAM queue after the update of a tick(1): the oldest transaction may  *)
(* have gone, and a read that completed was not waiting in it.               *)
LEMMA TickQueue ==
    ASSUME IInv, DramInv, NEW sched \in BOOLEAN, NEW done \in Lines \cup {NoLine},
           Bus!MaySchedule(sched), Bus!MayComplete(done)
    PROVE  LET queue == Bus!QueueAfter(sched)
               map   == Bus!MapAfter(done)
           IN  /\ queue \in Seq(Bus!Transaction) /\ map \in Tagged
               /\ Ordered(queue, map) /\ Len(queue) <= 3
               /\ \A kind : Has(queue, map, kind) => Has(transq, addr_to_tag, kind)
               /\ Has(queue, map, "DWrite") /\ Has(transq, addr_to_tag, "DRead") =>
                     Has(queue, map, "DRead")
<1> DEFINE queue == Bus!QueueAfter(sched)
           map == Bus!MapAfter(done)
<1>1. /\ transq \in Seq(Bus!Transaction) /\ addr_to_tag \in Tagged
      /\ Ordered(transq, addr_to_tag)
  BY DEF IInv, TypeOK, Bus!TypeOK, Tagged, DramInv
<1>2. map \in Tagged
  BY <1>1 DEF Bus!MapAfter, Tagged
<1>3. SameKinds(transq, addr_to_tag, map)
  <2> SUFFICES ASSUME NEW i \in 1 .. Len(transq)
               PROVE  Kind(transq[i], map) = Kind(transq[i], addr_to_tag)
    BY DEF SameKinds
  <2>1. transq[i] \in Bus!Transaction /\ i \in DOMAIN transq
    BY <1>1
  <2>2. CASE transq[i].write
    BY <2>2 DEF Kind
  <2>3. CASE ~transq[i].write
    <3>1. transq[i] = [write |-> FALSE, line |-> transq[i].line]
      BY <2>1, <2>3 DEF Bus!Transaction
    <3>2. transq[i].line # done
      <4>1. CASE done = NoLine
        BY <2>1, <4>1 DEF Bus!Transaction
      <4>2. CASE done # NoLine
        <5>1. done \in Bus!InFlight
          BY <4>2 DEF Bus!MayComplete
        <5>2. transq[i] # [write |-> FALSE, line |-> done]
          BY <2>1, <5>1 DEF Bus!InFlight
        <5> QED
          BY <3>1, <5>2
      <4> QED
        BY <4>1, <4>2
    <3>3. map[transq[i].line] = addr_to_tag[transq[i].line]
      BY <2>1, <3>2 DEF Bus!MapAfter, Bus!Transaction
    <3> QED
      BY <2>3, <3>3 DEF Kind
  <2> QED
    BY <2>2, <2>3
<1>4. /\ Ordered(transq, map)
      /\ \A kind : Has(transq, map, kind) <=> Has(transq, addr_to_tag, kind)
  BY <1>1, <1>3, QueueRetag
<1>5. CASE ~sched
  <2>1. queue = transq
    BY <1>5 DEF Bus!QueueAfter
  <2> HIDE DEF queue, map
  <2> QED
    BY <1>1, <1>2, <1>4, <2>1, QueueShort DEF queue, map
<1>6. CASE sched
  <2>1. queue = Tail(transq) /\ transq # <<>>
    BY <1>6 DEF Bus!QueueAfter, Bus!MaySchedule
  <2>2. Tail(transq) \in Seq(Bus!Transaction)
    BY <1>1, <2>1
  <2> HIDE DEF queue, map
  <2>3. /\ Ordered(Tail(transq), map)
        /\ \A kind : Has(Tail(transq), map, kind) => Has(transq, map, kind)
        /\ Has(Tail(transq), map, "DWrite") /\ Has(transq, map, "DRead") =>
              Has(Tail(transq), map, "DRead")
    BY <1>1, <1>2, <1>4, <2>1, QueueTail
  <2>4. Len(Tail(transq)) <= 3
    BY <1>2, <2>2, <2>3, QueueShort
  <2> QED
    BY <1>2, <1>4, <2>1, <2>2, <2>3, <2>4 DEF queue, map
<1> QED
  BY <1>5, <1>6

(* A read that waits in the DRAM is outstanding.                             *)
LEMMA HasRead ==
    ASSUME NEW q \in Seq(Bus!Transaction), NEW map, NEW tag, tag # "DWrite",
           Has(q, map, tag)
    PROVE  \E l \in Lines : map[l] = tag
<1>1. PICK i \in 1 .. Len(q) : Kind(q[i], map) = tag
  BY DEF Has
<1>2. q[i] \in Bus!Transaction
  OBVIOUS
<1> QED
  BY <1>1, <1>2 DEF Kind, Bus!Transaction

(* A completed read is a whole line for the cache that waits for it.         *)
LEMMA ReplyCompletes ==
    ASSUME IInv, NEW done \in Lines \cup {NoLine}, Bus!MayComplete(done),
           NEW tag \in {"IRead", "DRead"}, NEW r, NEW line,
           Outstanding(addr_to_tag, r, line, tag, FALSE)
    PROVE  /\ Bus!Reply(done) \in Seq(Bus!BeatType)
           /\ Completes(Bus!Reply(done), addr_to_tag, Bus!MapAfter(done), line, tag,
                        ram[line])
<1> DEFINE reply == Bus!Reply(done)
           map == Bus!MapAfter(done)
<1>1. CASE done = NoLine
  <2>1. reply = <<>>
    BY <1>1 DEF Bus!Reply
  <2>2. \A l \in Lines : map[l] = addr_to_tag[l]
    BY <1>1 DEF Bus!MapAfter
  <2> QED
    BY <2>1, <2>2 DEF Completes, Free
<1>2. CASE done # NoLine
  <2>1. done \in Lines /\ addr_to_tag[done] \in {"IRead", "DRead"}
    BY <1>2 DEF Bus!MayComplete, Bus!InFlight, IInv, TypeOK, Bus!TypeOK
  <2>2. /\ reply \in Seq(Bus!BeatType) /\ Len(reply) = Beats
        /\ \A i \in 1 .. Beats : /\ reply[i].tag = addr_to_tag[done]
                                 /\ reply[i].data = ram[done][i - 1]
    <3>1. \A i \in 1 .. Beats :
             [tag |-> addr_to_tag[done], data |-> ram[done][i - 1]] \in Bus!BeatType
      <4>1. \A i \in 1 .. Beats : ram[done][i - 1] \in Bus!Data
        BY <2>1 DEF IInv, TypeOK, Bus!TypeOK, Bus!Word
      <4> QED
        BY <2>1, <4>1 DEF Bus!BeatType, Bus!Tags
    <3>2. reply = [i \in 1 .. Beats |->
                     [tag |-> addr_to_tag[done], data |-> ram[done][i - 1]]]
      BY <1>2 DEF Bus!Reply
    <3> HIDE DEF reply
    <3> QED
      BY <3>1, <3>2
  <2>3. \A l \in Lines : map[l] = IF l = done THEN "none" ELSE addr_to_tag[l]
    BY DEF Bus!MapAfter
  <2> HIDE DEF reply, map
  <2>4. CASE addr_to_tag[done] = tag
    <3>1. \A l \in Lines : addr_to_tag[l] = tag => l = line
      BY DEF Outstanding
    <3>2. done = line
      BY <2>1, <2>4, <3>1
    <3>3. FullLine(reply, tag, ram[line])
      BY <2>2, <2>4, <3>2 DEF FullLine
    <3>4. \A l \in Lines : map[l] # tag
      BY <2>3, <3>1, <3>2
    <3> QED
      BY <2>1, <2>2, <2>4, <3>2, <3>3, <3>4 DEF Completes, reply, map
  <2>5. CASE addr_to_tag[done] # tag
    <3>1. Free(reply, tag)
      BY <2>2, <2>5 DEF Free
    <3>2. \A l \in Lines : map[l] = tag <=> addr_to_tag[l] = tag
      BY <2>3, <2>5
    <3> QED
      BY <2>2, <3>1, <3>2 DEF Completes, reply, map
  <2> QED
    BY <2>4, <2>5
<1> QED
  BY <1>1, <1>2

-----------------------------------------------------------------------------
(* What a tick(1) finds on the bus: nothing new, or a word of a write-back;  *)
(* the read of a fetch; the read of an access; the address of a victim.      *)
NothingAsked(sched, done) ==
    /\ Driver # "ic" /\ ~(Driver = "dc" /\ dcRegs.state = "D")
    /\ Driver = "none" => ~reqack'
    /\ addr_to_tag' = Bus!MapAfter(done)
    /\ transq' = Bus!QueueAfter(sched)

ReadAsked(sched, done, line, tag) ==
    /\ line \in Lines /\ Bus!MapAfter(done)[line] = "none"
    /\ ram' = ram
    /\ addr_to_tag' = [Bus!MapAfter(done) EXCEPT ![line] = tag]
    /\ transq' = Append(Bus!QueueAfter(sched), [write |-> FALSE, line |-> line])

FetchAsked(sched, done) ==
    /\ Driver = "ic" /\ icRegs.state = "D"
    /\ ReadAsked(sched, done, fetch.line, "IRead")

AccessAsked(sched, done) ==
    /\ Driver = "dc" /\ dcRegs.state = "D"
    /\ ReadAsked(sched, done, access.line, "DRead")

VictimAsked(sched, done) ==
    /\ Driver = "dc" /\ dcRegs.state = "C" /\ dcRegs.counter = 1
    /\ dcOut.tag \in Lines /\ ram' = ram
    /\ addr_to_tag' = Bus!MapAfter(done)
    /\ transq' \in {Bus!QueueAfter(sched),
                    Append(Bus!QueueAfter(sched), [write |-> TRUE, line |-> dcOut.tag])}

(* ram changes only under a write-back, in the line of the victim.           *)
Stored == dcRegs.state = "C" /\ \A l \in Lines : l # dcOut.tag => ram'[l] = ram[l]

LEMMA DriverWires ==
    ASSUME TypeOK
    PROVE  /\ bus_reqcyc <=> Driver # "none"
           /\ Driver = "ic" =>
                 icRegs.reqcyc /\ bus_req = icRegs.req /\ bus_reqtag = icRegs.reqtag
           /\ Driver = "dc" =>
                 dcRegs.reqcyc /\ bus_req = dcRegs.req /\ bus_reqtag = dcRegs.reqtag
BY DEF TypeOK, Arb!TypeOK, Arb!States, IC!TypeOK, IC!RegsType, DC!TypeOK, DC!RegsType,
       Driver, Arb!Driver, bus_reqcyc, bus_req, bus_reqtag

LEMMA TickOutcome ==
    ASSUME Separate, Roomy, IInv, RInv, NEW key \in BOOLEAN, NEW sched \in BOOLEAN,
           NEW done \in Lines \cup {NoLine}, High(key, sched, done)
    PROVE  /\ ~aborted'
           /\ \/ NothingAsked(sched, done) \/ FetchAsked(sched, done)
              \/ AccessAsked(sched, done) \/ VictimAsked(sched, done)
           /\ ram' = ram \/ Stored
<1> DEFINE queue == Bus!QueueAfter(sched)
           map == Bus!MapAfter(done)
           goal == /\ ~aborted'
                   /\ \/ NothingAsked(sched, done) \/ FetchAsked(sched, done)
                      \/ AccessAsked(sched, done) \/ VictimAsked(sched, done)
                   /\ ram' = ram \/ Stored
<1>1. /\ phase = "high" /\ ~aborted /\ TypeOK /\ DramInv
      /\ Bus!MaySchedule(sched) /\ Bus!MayComplete(done)
      /\ \/ ~bus_reqcyc /\ Bus!NoRequest(sched, done)
         \/ bus_reqcyc /\ Bus!WriteBeat(sched, done, bus_req)
         \/ bus_reqcyc /\ Bus!NewRequest(sched, done, bus_req, bus_reqtag)
  BY DEF High, Bus!TickHigh, RInv, IInv
<1>2. /\ bus_reqcyc <=> Driver # "none"
      /\ Driver = "ic" =>
            icRegs.reqcyc /\ bus_req = icRegs.req /\ bus_reqtag = icRegs.reqtag
      /\ Driver = "dc" =>
            dcRegs.reqcyc /\ bus_req = dcRegs.req /\ bus_reqtag = dcRegs.reqtag
  BY <1>1, DriverWires
<1>3. map \in Tagged /\ Len(queue) <= 3 /\ queue \in Seq(Bus!Transaction)
  BY <1>1, TickQueue
<1>4. Bus!HasRoom(queue)
  <2> HIDE DEF queue
  <2>1. Len(queue) \in Nat
    BY <1>3
  <2> QED
    BY <1>3, <2>1 DEF Bus!HasRoom, Roomy
<1>5. /\ Outstanding(addr_to_tag, icRegs, fetch.line, "IRead", FALSE)
      /\ Outstanding(addr_to_tag, dcRegs, access.line, "DRead", FALSE)
  BY <1>1 DEF RInv, FetchRead, AccessRead, BeforeTick
<1>6. \A l \in Lines : /\ map[l] \in {"none", "IRead", "DRead"}
                       /\ map[l] = "IRead" => l = fetch.line /\ icRegs.state = "E"
                       /\ map[l] = "DRead" => l = access.line /\ dcRegs.state = "E"
  <2>1. \A l \in Lines : map[l] # "none" => addr_to_tag[l] = map[l]
    BY DEF Bus!MapAfter
  <2> QED
    BY <1>3, <1>5, <2>1 DEF Outstanding, Tagged
<1>7. /\ icRegs.state # "A" => fetch.line \in FetchLines
      /\ dcRegs.state # "A" => access.line \in DataLines
  BY DEF IInv, FetchInv, AccessInv, Fetches, Loads, Stores, Presented
<1>8. RequestInv
  BY DEF RInv
<1> HIDE DEF queue, map, goal
<1>9. CASE ~bus_reqcyc /\ Bus!NoRequest(sched, done)
  BY <1>1, <1>2, <1>9 DEF Bus!NoRequest, NothingAsked, goal
<1>10. CASE bus_reqcyc /\ Bus!WriteBeat(sched, done, bus_req)
  <2>1. dcRegs.state = "C" /\ Driver = "dc" /\ xfer_addr = dcOut.tag
    BY <1>1, <1>10 DEF Bus!WriteBeat, IInv, BurstInv
  <2>2. Stored
    BY <1>1, <1>10, <2>1 DEF Bus!WriteBeat, Stored, TypeOK, Bus!TypeOK
  <2> QED
    BY <1>1, <1>10, <2>1, <2>2 DEF Bus!WriteBeat, NothingAsked, goal
<1>11. CASE bus_reqcyc /\ Bus!NewRequest(sched, done, bus_req, bus_reqtag)
  <2>1. CASE Driver = "ic"
    <3>1. icRegs.state = "D" /\ bus_req = fetch.line /\ bus_reqtag = "IRead"
      BY <1>2, <1>8, <2>1 DEF RequestInv
    <3>2. fetch.line \in FetchLines /\ fetch.line \in Lines
      BY <1>7, <3>1 DEF Lines
    <3>3. map[fetch.line] = "none"
      BY <1>6, <1>7, <3>1, <3>2 DEF Separate
    <3> QED
      BY <1>1, <1>4, <1>11, <2>1, <3>1, <3>2, <3>3
         DEF Bus!NewRequest, FetchAsked, ReadAsked, goal, queue, map
  <2>2. CASE Driver = "dc" /\ dcRegs.state = "D"
    <3>1. bus_req = access.line /\ bus_reqtag = "DRead"
      BY <1>2, <1>8, <2>2 DEF RequestInv, IInv, EvictInv
    <3>2. access.line \in DataLines /\ access.line \in Lines
      BY <1>7, <2>2 DEF Lines
    <3>3. map[access.line] = "none"
      BY <1>6, <1>7, <2>2, <3>2 DEF Separate
    <3> QED
      BY <1>1, <1>4, <1>11, <2>2, <3>1, <3>2, <3>3
         DEF Bus!NewRequest, AccessAsked, ReadAsked, goal, queue, map
  <2>3. CASE Driver = "dc" /\ dcRegs.state # "D"
    <3>1. dcRegs.state = "C" /\ dcRegs.reqcyc
      BY <1>2, <2>3 DEF IInv, EvictInv
    <3>2. dcRegs.counter = 1
      <4>1. dcRegs.counter \in 0 .. Beats + 1 /\ dcRegs.counter # 0
        BY <3>1 DEF IInv, EvictInv, TypeOK, DC!TypeOK, DC!RegsType, DC!Counter
      <4>2. rx_count = 0
        BY <1>11 DEF Bus!NewRequest
      <4>3. dcRegs.counter > 1 => rx_count = Beats + 2 - dcRegs.counter
        BY <1>1, <3>1 DEF RInv, StreamInv
      <4> DEFINE n == dcRegs.counter
      <4> HIDE DEF n
      <4>4. n \in 0 .. Beats + 1 /\ n # 0 /\ (n > 1 => 0 = Beats + 2 - n)
        BY <4>1, <4>2, <4>3 DEF n
      <4>5. n = 1
        BY <4>4
      <4> QED
        BY <4>5 DEF n
    <3>3. bus_req = dcOut.tag /\ bus_reqtag = "DWrite"
      BY <1>2, <2>3, <3>1, <3>2 DEF IInv, EvictInv
    <3>4. dcOut.tag \in Lines
      <4>1. access.line \in Lines /\ dcOut = dcRows[SetOf[access.line]]
        BY <1>7, <3>1 DEF Lines, IInv, AccessInv
      <4>2. SetOf[access.line] \in Sets
        BY <4>1
      <4> QED
        BY <1>8, <4>1, <4>2 DEF RequestInv
    <3>5. ~aborted' /\ ram' = ram
      BY <1>1, <1>4, <1>11, <3>3, <3>4 DEF Bus!NewRequest, queue, map
    <3>6. /\ addr_to_tag' = map
          /\ transq' \in {queue, Append(queue, [write |-> TRUE, line |-> dcOut.tag])}
      BY <1>1, <1>4, <1>11, <3>3, <3>4 DEF Bus!NewRequest, queue, map
    <3> QED
      BY <2>3, <3>1, <3>2, <3>4, <3>5, <3>6 DEF VictimAsked, goal, queue, map
  <2> QED
    BY <1>2, <1>11, <2>1, <2>2, <2>3, DriverRange
<1> QED
  BY <1>1, <1>9, <1>10, <1>11 DEF goal

(* The tags of the reads that are outstanding after the tick.                *)
LEMMA TickTags ==
    ASSUME TypeOK, NEW sched, NEW done \in Lines \cup {NoLine},
           phase = "high", phase' = "low", Driver' = Driver, dcRegs' = dcRegs,
           \/ NothingAsked(sched, done) \/ FetchAsked(sched, done)
           \/ AccessAsked(sched, done) \/ VictimAsked(sched, done)
    PROVE  /\ \A l \in Lines : addr_to_tag'[l] = "IRead" <=>
                 Bus!MapAfter(done)[l] = "IRead" \/ (FetchTaken' /\ l = fetch.line)
           /\ \A l \in Lines : addr_to_tag'[l] = "DRead" <=>
                 Bus!MapAfter(done)[l] = "DRead" \/ (AccessTaken' /\ l = access.line)
<1> DEFINE map == Bus!MapAfter(done)
<1>1. map \in Tagged
  BY DEF Bus!MapAfter, TypeOK, Bus!TypeOK, Tagged
<1>2. /\ FetchTaken' <=> Driver = "ic"
      /\ AccessTaken' <=> Driver = "dc" /\ dcRegs.state = "D"
  BY DEF FetchTaken, AccessTaken
<1> HIDE DEF map
<1>3. CASE NothingAsked(sched, done)
  BY <1>2, <1>3 DEF NothingAsked, map
<1>4. CASE FetchAsked(sched, done)
  BY <1>1, <1>2, <1>4 DEF FetchAsked, ReadAsked, map, Tagged
<1>5. CASE AccessAsked(sched, done)
  BY <1>1, <1>2, <1>5 DEF AccessAsked, ReadAsked, map, Tagged
<1>6. CASE VictimAsked(sched, done)
  BY <1>2, <1>6 DEF VictimAsked, map
<1> QED
  BY <1>3, <1>4, <1>5, <1>6

(* The reply side: both caches' reads, whatever was asked.                   *)
LEMMA TickReads ==
    ASSUME Separate, Roomy, IInv, RInv, NEW key \in BOOLEAN, NEW sched \in BOOLEAN,
           NEW done \in Lines \cup {NoLine}, High(key, sched, done)
    PROVE  FetchRead' /\ AccessRead' /\ Shows(resp', tx_queue')
<1> DEFINE extra == IF key THEN <<[tag |-> "Irq", data |-> NoValue]>> ELSE <<>>
           reply == Bus!Reply(done)
           map == Bus!MapAfter(done)
           queue == Bus!Delivered((tx_queue \o extra) \o reply, bus_respack)
<1>1. /\ phase = "high" /\ phase' = "low" /\ fetch' = fetch /\ access' = access
      /\ icRegs' = icRegs /\ dcRegs' = dcRegs /\ owner' = owner
      /\ Bus!MayComplete(done) /\ Bus!Respond(key, done, bus_respack)
  BY DEF High, portVars, cacheVars, Bus!TickHigh
<1>2. Driver' = Driver
  BY <1>1 DEF Driver, Arb!Driver
<1>3. tx_queue \in Seq(Bus!BeatType) /\ TypeOK
  BY DEF IInv, TypeOK, Bus!TypeOK
<1>4. /\ extra \in Seq(Bus!BeatType)
      /\ Free(extra, "IRead") /\ Free(extra, "DRead")
  <2>1. [tag |-> "Irq", data |-> NoValue] \in Bus!BeatType
    BY DEF Bus!BeatType, Bus!Tags, Bus!Data
  <2>2. CASE key
    BY <2>1, <2>2 DEF Free
  <2>3. CASE ~key
    BY <2>3 DEF Free
  <2> QED
    BY <2>2, <2>3
<1>5. tx_queue' = queue
  <2>1. tx_queue \o extra =
           IF key THEN Append(tx_queue, [tag |-> "Irq", data |-> NoValue]) ELSE tx_queue
    BY <1>3
  <2> HIDE DEF extra, reply
  <2> QED
    BY <1>1, <2>1 DEF Bus!Respond, Bus!Arrived, reply
<1>6. Shows(resp', tx_queue')
  BY <1>1 DEF Bus!Respond, Shows
<1> DEFINE sure == TRUE
           apart == ResetApart
           fetchAsked == FetchTaken'
           accessAsked == AccessTaken'
<1>7. /\ BeforeTick(tx_queue, addr_to_tag, ram[fetch.line], icRegs, fetch.line, "IRead", apart)
      /\ BeforeTick(tx_queue, addr_to_tag, ram[access.line], dcRegs, access.line, "DRead", sure)
  BY <1>1 DEF RInv, FetchRead, AccessRead
<1>8. /\ reply \in Seq(Bus!BeatType)
      /\ Completes(reply, addr_to_tag, map, fetch.line, "IRead", ram[fetch.line])
      /\ Completes(reply, addr_to_tag, map, access.line, "DRead", ram[access.line])
  <2>1. /\ Outstanding(addr_to_tag, icRegs, fetch.line, "IRead", FALSE)
        /\ Outstanding(addr_to_tag, dcRegs, access.line, "DRead", FALSE)
    BY <1>7 DEF BeforeTick
  <2> QED
    BY <1>1, <2>1, ReplyCompletes
<1>9. /\ icRegs.respack \in BOOLEAN /\ dcRegs.respack \in BOOLEAN
      /\ bus_respack \in BOOLEAN
      /\ bus_respack <=> icRegs.respack \/ dcRegs.respack
  BY <1>3 DEF TypeOK, IC!TypeOK, IC!RegsType, DC!TypeOK, DC!RegsType, bus_respack
<1>10. /\ Pops(tx_queue, icRegs, "IRead", bus_respack)
       /\ Pops(tx_queue, dcRegs, "DRead", bus_respack)
  BY <1>7, <1>9 DEF BeforeTick, Popping, Pops
<1>11. Reader(icRegs) /\ Reader(dcRegs)
  BY ReaderTypes
<1>12. /\ \/ NothingAsked(sched, done) \/ FetchAsked(sched, done)
          \/ AccessAsked(sched, done) \/ VictimAsked(sched, done)
       /\ ram' = ram \/ Stored
  BY TickOutcome
<1>13. /\ fetchAsked \in BOOLEAN /\ accessAsked \in BOOLEAN
       /\ apart \in BOOLEAN /\ sure \in BOOLEAN
       /\ fetchAsked => icRegs.state = "D"
       /\ accessAsked => dcRegs.state = "D"
  BY <1>1, <1>2, <1>12
     DEF FetchTaken, AccessTaken, ResetApart, FetchAsked, NothingAsked, AccessAsked,
         VictimAsked
<1>14. /\ \A l \in Lines : addr_to_tag'[l] = "IRead" <=>
             map[l] = "IRead" \/ (fetchAsked /\ l = fetch.line)
       /\ \A l \in Lines : addr_to_tag'[l] = "DRead" <=>
             map[l] = "DRead" \/ (accessAsked /\ l = access.line)
  BY <1>1, <1>2, <1>3, <1>12, TickTags
<1>15. /\ Takes(map, addr_to_tag', icRegs, fetch.line, "IRead", fetchAsked)
       /\ Takes(map, addr_to_tag', dcRegs, access.line, "DRead", accessAsked)
  BY <1>13, <1>14 DEF Takes
<1>16. /\ icRegs.state # "A" => fetch.line \in FetchLines /\ fetch.line \in Lines
       /\ dcRegs.state # "A" => access.line \in DataLines /\ access.line \in Lines
  BY DEF IInv, FetchInv, AccessInv, Fetches, Loads, Stores, Presented, Lines
<1> HIDE DEF extra, reply, map, queue, sure, apart, fetchAsked, accessAsked
<1>17. FetchRead'
  <2>1. ASSUME NEW words, apart => words = ram[fetch.line]
        PROVE  AfterTick(queue, addr_to_tag', words, icRegs, fetch.line, "IRead",
                         fetchAsked, apart)
    <3>1. icRegs.state = "E" \/ fetchAsked => fetch.line \in Lines
      BY <1>13, <1>16
    <3> QED
      BY <1>3, <1>4, <1>7, <1>8, <1>9, <1>10, <1>11, <1>13, <1>15, <2>1, <3>1,
         TickRead DEF queue
  <2>2. AfterTick(queue, addr_to_tag', ram'[fetch.line], icRegs, fetch.line, "IRead",
                  fetchAsked, apart)
    <3>1. CASE icRegs.state = "A"
      <4>1. AfterTick(queue, addr_to_tag', ram[fetch.line], icRegs, fetch.line,
                      "IRead", fetchAsked, apart)
        BY <2>1
      <4>2. ~fetchAsked /\ icRegs.state # "E"
        BY <1>13, <3>1
      <4> QED
        BY <4>1, <4>2, IdleBetween
    <3>2. CASE icRegs.state # "A"
      <4>1. ResetApart => ram'[fetch.line] = ram[fetch.line]
        <5>1. CASE Stored /\ ResetApart
          <6>1. dcOut = dcRows[SetOf[access.line]] /\ access.line \in Lines
            BY <1>16, <5>1 DEF Stored, IInv, AccessInv
          <6>2. SetOf[access.line] \in Sets
            BY <6>1
          <6>3. dcOut.tag \notin FetchLines
            BY <5>1, <6>1, <6>2 DEF RInv, RequestInv
          <6> QED
            BY <1>16, <3>2, <5>1, <6>3 DEF Stored
        <5> QED
          BY <1>12, <5>1
      <4> QED
        BY <2>1, <4>1 DEF apart
    <3> QED
      BY <3>1, <3>2
  <2> QED
    BY <1>1, <1>5, <2>2 DEF FetchRead, fetchAsked, apart
<1>18. AccessRead'
  <2>1. AfterTick(queue, addr_to_tag', ram[access.line], dcRegs, access.line, "DRead",
                  accessAsked, sure)
    <3>1. dcRegs.state = "E" \/ accessAsked => access.line \in Lines
      BY <1>13, <1>16
    <3> QED
      BY <1>3, <1>4, <1>7, <1>8, <1>9, <1>10, <1>11, <1>13, <1>15, <3>1,
         TickRead DEF queue
  <2>2. AfterTick(queue, addr_to_tag', ram'[access.line], dcRegs, access.line, "DRead",
                  accessAsked, sure)
    <3>1. CASE ram' = ram
      BY <2>1, <3>1
    <3>2. CASE Stored
      <4>1. dcRegs.state # "E" /\ ~accessAsked
        BY <1>13, <3>2 DEF Stored
      <4> QED
        BY <2>1, <4>1, IdleBetween
    <3> QED
      BY <1>12, <3>1, <3>2
  <2> QED
    BY <1>1, <1>5, <2>2 DEF AccessRead, accessAsked, sure
<1> QED
  BY <1>6, <1>17, <1>18

(* A new read queues behind whatever waits, with a tag no other has.         *)
LEMMA ReadQueued ==
    ASSUME NEW q \in Seq(Bus!Transaction), NEW map \in Tagged, Ordered(q, map),
           NEW line \in Lines, map[line] = "none", NEW tag \in {"IRead", "DRead"},
           \A l \in Lines : map[l] # tag
    PROVE  LET then == [map EXCEPT ![line] = tag]
               all  == Append(q, [write |-> FALSE, line |-> line])
           IN  /\ Ordered(all, then)
               /\ \A kind : Has(all, then, kind) <=> Has(q, map, kind) \/ kind = tag
<1> DEFINE then == [map EXCEPT ![line] = tag]
           t == [write |-> FALSE, line |-> line]
<1>1. then \in Tagged /\ t \in Bus!Transaction /\ Kind(t, then) = tag
  BY DEF Tagged, Bus!Transaction, Kind
<1>2. SameKinds(q, map, then)
  <2> SUFFICES ASSUME NEW i \in 1 .. Len(q)
               PROVE  Kind(q[i], then) = Kind(q[i], map)
    BY DEF SameKinds
  <2>1. q[i] \in Bus!Transaction
    OBVIOUS
  <2>2. q[i].line \in Lines /\ (q[i].write \/ map[q[i].line] # "none")
    BY <2>1 DEF Bus!Transaction, Ordered, Kind
  <2>3. q[i].write \/ then[q[i].line] = map[q[i].line]
    BY <2>2 DEF Tagged
  <2> QED
    BY <2>3 DEF Kind
<1> HIDE DEF then, t
<1>3. /\ Ordered(q, then)
      /\ \A kind : Has(q, then, kind) <=> Has(q, map, kind)
  BY <1>2, QueueRetag
<1>4. ~Has(q, map, tag)
  BY HasRead
<1>5. /\ Ordered(Append(q, t), then)
      /\ \A kind : Has(Append(q, t), then, kind) <=>
                      Has(q, then, kind) \/ kind = Kind(t, then)
  BY <1>1, <1>3, <1>4, QueueAppend
<1> QED
  BY <1>1, <1>3, <1>5 DEF then, t

(* The request side: what waits in the DRAM after the tick.                  *)
LEMMA TickDram ==
    ASSUME Separate, Roomy, IInv, RInv, NEW key \in BOOLEAN, NEW sched \in BOOLEAN,
           NEW done \in Lines \cup {NoLine}, High(key, sched, done)
    PROVE  DramInv'
<1> DEFINE queue == Bus!QueueAfter(sched)
           map == Bus!MapAfter(done)
<1>1. /\ phase = "high" /\ phase' = "low" /\ dcRegs' = dcRegs /\ Driver' = Driver
      /\ Bus!MaySchedule(sched) /\ Bus!MayComplete(done) /\ DramInv
  BY DEF High, cacheVars, Bus!TickHigh, Driver, Arb!Driver, RInv
<1>2. /\ queue \in Seq(Bus!Transaction) /\ map \in Tagged
      /\ Ordered(queue, map)
      /\ \A kind : Has(queue, map, kind) => Has(transq, addr_to_tag, kind)
      /\ Has(queue, map, "DWrite") /\ Has(transq, addr_to_tag, "DRead") =>
            Has(queue, map, "DRead")
  BY <1>1, TickQueue
<1>3. /\ \A l \in Lines : map[l] = "IRead" => icRegs.state = "E"
      /\ \A l \in Lines : map[l] = "DRead" => dcRegs.state = "E"
  <2>1. \A l \in Lines : map[l] # "none" => addr_to_tag[l] = map[l]
    BY DEF Bus!MapAfter
  <2> QED
    BY <1>1, <2>1 DEF RInv, FetchRead, AccessRead, BeforeTick, Outstanding
<1>4. Has(queue, map, "DWrite") =>
        \/ dcRegs.state = "D"
        \/ dcRegs.state = "E" /\ Has(queue, map, "DRead")
        \/ dcRegs.state = "C" /\ dcRegs.counter > 1
  BY <1>1, <1>2 DEF DramInv, WritePending
<1>5. \/ NothingAsked(sched, done) \/ FetchAsked(sched, done)
      \/ AccessAsked(sched, done) \/ VictimAsked(sched, done)
  BY TickOutcome
<1>6. AccessTaken' <=> Driver = "dc" /\ dcRegs.state = "D"
  BY <1>1 DEF AccessTaken
<1> HIDE DEF queue, map
<1>7. CASE transq' = queue /\ addr_to_tag' = map /\ ~AccessTaken'
  BY <1>1, <1>2, <1>4, <1>7 DEF DramInv, WritePending
<1>8. CASE FetchAsked(sched, done)
  <2>1. \A l \in Lines : map[l] # "IRead"
    BY <1>3, <1>8 DEF FetchAsked
  <2>2. fetch.line \in Lines /\ map[fetch.line] = "none"
    BY <1>8 DEF FetchAsked, ReadAsked, map
  <2>3. /\ addr_to_tag' = [map EXCEPT ![fetch.line] = "IRead"]
        /\ transq' = Append(queue, [write |-> FALSE, line |-> fetch.line])
    BY <1>8 DEF FetchAsked, ReadAsked, queue, map
  <2>4. /\ Ordered(transq', addr_to_tag')
        /\ \A kind : Has(transq', addr_to_tag', kind) <=>
                        Has(queue, map, kind) \/ kind = "IRead"
    BY <1>2, <2>1, <2>2, <2>3, ReadQueued
  <2>5. ~AccessTaken'
    BY <1>6, <1>8 DEF FetchAsked
  <2> QED
    BY <1>1, <1>4, <2>4, <2>5 DEF DramInv, WritePending
<1>9. CASE AccessAsked(sched, done)
  <2>1. \A l \in Lines : map[l] # "DRead"
    BY <1>3, <1>9 DEF AccessAsked
  <2>2. access.line \in Lines /\ map[access.line] = "none"
    BY <1>9 DEF AccessAsked, ReadAsked, map
  <2>3. /\ addr_to_tag' = [map EXCEPT ![access.line] = "DRead"]
        /\ transq' = Append(queue, [write |-> FALSE, line |-> access.line])
    BY <1>9 DEF AccessAsked, ReadAsked, queue, map
  <2>4. /\ Ordered(transq', addr_to_tag')
        /\ \A kind : Has(transq', addr_to_tag', kind) <=>
                        Has(queue, map, kind) \/ kind = "DRead"
    BY <1>2, <2>1, <2>2, <2>3, ReadQueued
  <2>5. dcRegs.state = "D"
    BY <1>9 DEF AccessAsked
  <2> QED
    BY <1>1, <2>4, <2>5 DEF DramInv, WritePending
<1>10. CASE VictimAsked(sched, done) /\ transq' # queue
  <2> DEFINE t == [write |-> TRUE, line |-> dcOut.tag]
  <2>1. /\ Driver = "dc" /\ dcRegs.state = "C" /\ dcRegs.counter = 1
        /\ t \in Bus!Transaction
        /\ addr_to_tag' = map /\ transq' = Append(queue, t)
    BY <1>10 DEF VictimAsked, Bus!Transaction, queue, map
  <2>2. Kind(t, map) = "DWrite"
    BY DEF Kind
  <2> HIDE DEF t
  <2>3. ~Has(queue, map, "DWrite")
    BY <1>4, <2>1
  <2>4. ~Has(queue, map, "DRead")
    <3>1. \A l \in Lines : map[l] # "DRead"
      BY <1>3, <2>1
    <3> QED
      BY <1>2, <3>1, HasRead
  <2>5. Ordered(transq', addr_to_tag')
    BY <1>2, <2>1, <2>2, <2>3, <2>4, QueueAppend
  <2>6. WritePending' /\ dcRegs'.state # "E" /\ ~AccessTaken'
    BY <1>1, <1>6, <2>1 DEF WritePending
  <2> QED
    BY <2>5, <2>6 DEF DramInv
<1>11. CASE NothingAsked(sched, done)
  BY <1>6, <1>7, <1>11 DEF NothingAsked, queue, map
<1>12. CASE VictimAsked(sched, done) /\ transq' = queue
  BY <1>6, <1>7, <1>12 DEF VictimAsked, map
<1> QED
  BY <1>5, <1>8, <1>9, <1>10, <1>11, <1>12

LEMMA HighReplies ==
    ASSUME Separate, Roomy, IInv, RInv, NEW key \in BOOLEAN, NEW sched \in BOOLEAN,
           NEW done \in Lines \cup {NoLine}, High(key, sched, done)
    PROVE  RInv'
<1>1. /\ phase' = "low" /\ fetch' = fetch /\ access' = access
      /\ icRegs' = icRegs /\ dcRegs' = dcRegs /\ dcRows' = dcRows /\ dcOut' = dcOut
      /\ Driver' = Driver
  BY DEF High, portVars, cacheVars, Driver, Arb!Driver
<1>2. FetchRead' /\ AccessRead' /\ Shows(resp', tx_queue')
  BY TickReads
<1>3. DramInv'
  BY TickDram
<1>4. RequestInv'
  BY <1>1 DEF RInv, RequestInv
<1>5. GrantInv' /\ StreamInv' /\ ~aborted'
  <2>1. Driver = "none" => ~reqack'
    BY TickOutcome DEF NothingAsked, FetchAsked, AccessAsked, VictimAsked
  <2>2. ~aborted'
    BY TickOutcome
  <2> QED
    BY <1>1, <2>1, <2>2 DEF GrantInv, StreamInv
<1> QED
  BY <1>2, <1>3, <1>4, <1>5 DEF RInv, Shows

-----------------------------------------------------------------------------
(* The falling edge: the DRAM queue has room, and a fetch that changes is    *)
(* not under way.                                                            *)
LEMMA FallReplies ==
    ASSUME Separate, Roomy, IInv, RInv, FallingEdge
    PROVE  RInv'
<1>1. /\ phase = "low" /\ phase' = "edge" /\ access' = access
      /\ icRegs' = icRegs /\ dcRegs' = dcRegs /\ dcRows' = dcRows /\ dcOut' = dcOut
      /\ owner' = owner /\ ram' = ram /\ addr_to_tag' = addr_to_tag
      /\ tx_queue' = tx_queue /\ resp' = resp /\ transq' = transq
  BY DEF FallingEdge, cacheVars, Bus!TickLow
<1>2. Driver' = Driver /\ (bus_reqcyc <=> Driver # "none")
  BY <1>1, DriverWires DEF Driver, Arb!Driver, IInv
<1>3. Bus!HasRoom(transq)
  <2>1. transq \in Seq(Bus!Transaction) /\ addr_to_tag \in Tagged
    BY DEF IInv, TypeOK, Bus!TypeOK, Tagged
  <2>2. Len(transq) <= 3 /\ Len(transq) \in Nat
    BY <2>1, QueueShort DEF RInv, DramInv
  <2> QED
    BY <2>2 DEF Bus!HasRoom, Roomy
<1>4. /\ reqack' = IF bus_reqcyc THEN TRUE ELSE reqack
      /\ ~aborted'
  <2> DEFINE room == Bus!HasRoom(transq)
  <2>1. /\ reqack' = IF bus_reqcyc THEN room ELSE reqack
        /\ aborted' = (aborted \/ (bus_reqcyc /\ rx_count # 0 /\ ~room))
    BY DEF FallingEdge, Bus!TickLow
  <2>2. room = TRUE /\ ~aborted
    BY <1>3 DEF RInv, Bus!HasRoom
  <2> HIDE DEF room
  <2> QED
    BY <2>1, <2>2
<1>5. icRegs.state # "A" => fetch' = fetch
  BY DEF FallingEdge, FetchUnit, IInv, FetchInv
<1>6. GrantInv' /\ StreamInv'
  BY <1>1, <1>2, <1>4 DEF RInv, GrantInv, StreamInv
<1>7. RequestInv'
  BY <1>1, <1>5 DEF RInv, RequestInv
<1>8. FetchTaken' = FetchTaken /\ AccessTaken' = AccessTaken
  BY <1>1, <1>2 DEF FetchTaken, AccessTaken
<1>9. FetchRead'
  <2> DEFINE taken == FetchTaken
  <2>1. AfterTick(tx_queue, addr_to_tag, ram[fetch.line], icRegs, fetch.line, "IRead",
                  taken, ResetApart)
    BY <1>1 DEF RInv, FetchRead
  <2>2. taken => icRegs.state = "D"
    BY DriverWires DEF FetchTaken, IInv, RInv, RequestInv
  <2> HIDE DEF taken
  <2>3. AfterTick(tx_queue, addr_to_tag, ram[fetch'.line], icRegs, fetch'.line, "IRead",
                  taken, ResetApart)
    <3>1. CASE icRegs.state = "A"
      BY <2>1, <2>2, <3>1, IdleBetween
    <3>2. CASE icRegs.state # "A"
      BY <1>5, <2>1, <3>2
    <3> QED
      BY <3>1, <3>2
  <2> QED
    BY <1>1, <1>8, <2>3 DEF FetchRead, taken
<1>10. AccessRead'
  BY <1>1, <1>8 DEF RInv, AccessRead
<1>11. DramInv'
  BY <1>1, <1>8, <1>2 DEF RInv, DramInv, WritePending
<1> QED
  BY <1>1, <1>4, <1>6, <1>7, <1>9, <1>10, <1>11 DEF RInv, Shows

-----------------------------------------------------------------------------
(* The split transactions are kept in every reachable state.                 *)
THEOREM RepliesInvariance ==
    ASSUME Separate, Roomy
    PROVE  Spec => [](IInv /\ HaltInv /\ RInv)
<1> DEFINE Basic == IInv /\ HaltInv
<1>1. Init => RInv
  BY InitReplies
<1>2. Basic /\ Basic' /\ RInv /\ [Next]_vars => RInv'
  <2> SUFFICES ASSUME IInv, IInv', RInv, [Next]_vars
               PROVE  RInv'
    OBVIOUS
  <2>1. CASE RisingEdge
    BY <2>1, EdgeReplies
  <2>2. CASE TickHigh
    <3>1. PICK key \in BOOLEAN, sched \in BOOLEAN, done \in Lines \cup {NoLine} :
             High(key, sched, done)
      BY <2>2 DEF TickHigh
    <3> QED
      BY <3>1, HighReplies
  <2>3. CASE FallingEdge
    BY <2>3, FallReplies
  <2>4. CASE UNCHANGED vars
    <3>1. /\ phase' = phase /\ fetch' = fetch /\ access' = access
          /\ icRegs' = icRegs /\ dcRegs' = dcRegs /\ dcRows' = dcRows
          /\ dcOut' = dcOut /\ ram' = ram /\ rx_count' = rx_count
          /\ addr_to_tag' = addr_to_tag /\ tx_queue' = tx_queue
          /\ reqack' = reqack /\ resp' = resp /\ transq' = transq
          /\ aborted' = aborted /\ owner' = owner
      BY <2>4 DEF vars, portVars, cacheVars, busVars
    <3>2. Driver' = Driver
      BY <3>1 DEF Driver, Arb!Driver
    <3>3. FetchTaken' = FetchTaken /\ AccessTaken' = AccessTaken
      BY <3>1, <3>2 DEF FetchTaken, AccessTaken
    <3>4. RequestInv' /\ GrantInv' /\ StreamInv'
      BY <3>1, <3>2 DEF RInv, RequestInv, GrantInv, StreamInv
    <3>5. FetchRead' /\ AccessRead'
      BY <3>1, <3>3 DEF RInv, FetchRead, AccessRead
    <3>6. DramInv'
      BY <3>1, <3>2, <3>3 DEF RInv, DramInv, WritePending
    <3> QED
      BY <3>1, <3>4, <3>5, <3>6 DEF RInv, Shows
  <2> QED
    BY <2>1, <2>2, <2>3, <2>4 DEF Next
<1>3. Spec => []Basic
  BY Invariance
<1> HIDE DEF Basic
<1>4. Spec => []RInv
  BY <1>1, <1>2, <1>3, PTL DEF Spec
<1> QED
  BY <1>3, <1>4, PTL DEF Basic

(* No assert of System::tick fails (system.cpp:94, 168 and 172), however     *)
(* long a line is and however many rows and lines there are: no word of a    *)
(* write-back is taken for an address, and addTransaction always has room.   *)
THEOREM NothingRefused ==
    ASSUME Separate, Roomy
    PROVE  Spec => []NoAssertFails
<1>1. IInv /\ HaltInv /\ RInv => NoAssertFails
  BY DEF RInv, NoAssertFails
<1> QED
  BY <1>1, RepliesInvariance, PTL

(* At most three transactions wait in the DRAM: a read of each cache and the *)
(* write-back in front of the D-cache's read.                                *)
THEOREM QueueBounded ==
    ASSUME Separate, Roomy
    PROVE  Spec => []DramQueueBounded
<1>1. IInv /\ HaltInv /\ RInv => DramQueueBounded
  <2> SUFFICES ASSUME IInv, RInv PROVE Len(transq) <= 3
    BY DEF DramQueueBounded
  <2>1. transq \in Seq(Bus!Transaction) /\ addr_to_tag \in Tagged
    BY DEF IInv, TypeOK, Bus!TypeOK, Tagged
  <2> QED
    BY <2>1, QueueShort DEF RInv, DramInv
<1> QED
  BY <1>1, RepliesInvariance, PTL

(* Every reply has exactly one taker and comes exactly once: the beats in    *)
(* tx_queue are those its cache, waiting in STATEE, has still to take, so    *)
(* that addr_to_tag, tx_queue and the two beat counters never disagree.      *)
THEOREM RepliesCounted ==
    ASSUME Separate, Roomy
    PROVE  Spec => []RepliesAccounted
<1>1. IInv /\ HaltInv /\ RInv => RepliesAccounted
  <2> SUFFICES ASSUME IInv, RInv PROVE RepliesAccounted
    OBVIOUS
  <2>1. /\ tx_queue \in Seq(Bus!BeatType) /\ phase \in {"edge", "high", "low"}
        /\ icRegs.respack \in BOOLEAN /\ dcRegs.respack \in BOOLEAN
    BY DEF IInv, TypeOK, Bus!TypeOK, IC!TypeOK, IC!RegsType, DC!TypeOK, DC!RegsType
  <2>2. ASSUME NEW r, NEW line, NEW tag, NEW words, NEW exact, NEW taken,
               Reader(r), r.respack \in BOOLEAN,
               IF phase = "high"
               THEN BeforeTick(tx_queue, addr_to_tag, words, r, line, tag, exact)
               ELSE AfterTick(tx_queue, addr_to_tag, words, r, line, tag, taken, exact)
        PROVE  RepliesMatch(r, line, tag)
    <3>1. CASE phase = "high"
      <4> DEFINE n == Owed(addr_to_tag, r, line, tag, IF r.respack THEN 1 ELSE 0)
      <4>1. /\ Run(tx_queue, tag, n, words, exact)
            /\ Popping(tx_queue, addr_to_tag, r, line, tag)
        BY <2>2, <3>1 DEF BeforeTick
      <4>2. n \in Nat
        BY <2>2 DEF Owed, Reader
      <4>3. BeatsQueued(tag) = n
        <5> HIDE DEF n
        <5> QED
          BY <2>1, <4>1, <4>2, RunCount DEF BeatsQueued
      <4> QED
        BY <2>2, <3>1, <4>1, <4>3 DEF RepliesMatch, Unpopped, Owed, Popping
    <3>2. CASE phase # "high"
      <4> DEFINE n == Owed(addr_to_tag, r, line, tag, 0)
      <4>1. Run(tx_queue, tag, n, words, exact)
        BY <2>2, <3>2 DEF AfterTick
      <4>2. n \in Nat
        BY <2>2 DEF Owed, Reader
      <4>3. BeatsQueued(tag) = n
        <5> HIDE DEF n
        <5> QED
          BY <2>1, <4>1, <4>2, RunCount DEF BeatsQueued
      <4> QED
        BY <2>2, <3>2, <4>3 DEF RepliesMatch, Unpopped, Owed
    <3> QED
      BY <3>1, <3>2
  <2>3. Reader(icRegs) /\ Reader(dcRegs)
    BY ReaderTypes
  <2>4. RepliesMatch(icRegs, fetch.line, "IRead")
    BY <2>1, <2>2, <2>3 DEF RInv, FetchRead
  <2>5. RepliesMatch(dcRegs, access.line, "DRead")
    <3> DEFINE sure == TRUE
    <3>1. IF phase = "high"
          THEN BeforeTick(tx_queue, addr_to_tag, ram[access.line], dcRegs, access.line,
                          "DRead", sure)
          ELSE AfterTick(tx_queue, addr_to_tag, ram[access.line], dcRegs, access.line,
                         "DRead", AccessTaken, sure)
      BY DEF RInv, AccessRead
    <3> HIDE DEF sure
    <3> QED
      BY <2>1, <2>2, <2>3, <3>1
  <2> QED
    BY <2>4, <2>5 DEF RepliesAccounted
<1> QED
  BY <1>1, RepliesInvariance, PTL
=============================================================================
