------------------------- MODULE ProgramOrderProofs -------------------------
(***************************************************************************)
(* Proofs about Pipeline for the programs that it supports: every stage     *)
(* holds the instruction that the program order puts there, and so the      *)
(* pipeline implements Sequential, for every program, every size of the     *)
(* register file and every timing of the caches.                            *)
(***************************************************************************)
EXTENDS PipelineProofs, Progress

-----------------------------------------------------------------------------
(* Programs by themselves.  The definitions of Sequential with the program   *)
(* as a parameter.                                                           *)

SettledIn(p, n) ==
    LET after[k \in 0 .. Spare] ==
            IF k = 0 THEN n
            ELSE IF after[k - 1].pc \in DOMAIN p /\ p[after[k - 1].pc].op = "nop"
                 THEN Pass(after[k - 1]) ELSE after[k - 1]
    IN after[Spare]

Branching(n, i, z) ==
    [pc |-> n.npc, npc |-> IF Taken(i, z) THEN i.target ELSE n.npc + 1]

FollowIn(p, n, i, z) ==
    SettledIn(p, IF Annuls(i, z) THEN Pass(Branching(n, i, z)) ELSE Branching(n, i, z))

LEMMA SettledIs == \A n : Settled(n) = SettledIn(prog, n)
BY DEF Settled, SettledIn, InProgram

LEMMA FollowIs == \A n, i, z : Follow(n, i, z) = FollowIn(prog, n, i, z)
BY SettledIs DEF Follow, FollowIn, Branching

(* The successor of an address is the next one, or the target of a transfer  *)
(* in whose delay slot the address is.                                       *)
Sound(p, n) ==
    /\ n \in Point
    /\ \/ n.npc = n.pc + 1
       \/ /\ n.pc - 1 \in DOMAIN p
          /\ Transfers(p[n.pc - 1])
          /\ n.npc = p[n.pc - 1].target

(* A walk passes one nop after the other. *)
Walks(p, n, f) ==
    /\ f \in [Nat -> Point]
    /\ f[0] = n
    /\ \A k \in Nat : f[k + 1] = IF AtNop(p, f[k]) THEN Pass(f[k]) ELSE f[k]

LEMMA PassPoint == \A n \in Point : Pass(n) \in Point
BY DEF Pass, Point

LEMMA WalkExists ==
    ASSUME NEW p, NEW n \in Point
    PROVE  \E f : Walks(p, n, f)
<1> DEFINE g == [x \in Nat \X Point |-> IF AtNop(p, x[2]) THEN Pass(x[2]) ELSE x[2]]
<1>1. IsRule(g, Point)
  BY PassPoint DEF IsRule
<1>2. \A i \in Nat, m \in Point : g[<<i, m>>] = IF AtNop(p, m) THEN Pass(m) ELSE m
  OBVIOUS
<1> HIDE DEF g
<1>3. PICK f : Recurses(f, Point, n, g)
  BY <1>1, Recursion
<1>4. Walks(p, n, f)
  BY <1>2, <1>3 DEF Recurses, Walks
<1> QED BY <1>4

LEMMA WalkSettles ==
    ASSUME NEW p, NEW n \in Point, NEW f, Walks(p, n, f)
    PROVE  SettledIn(p, n) = f[Spare]
<1> DEFINE Good(h) == h = [k \in 0 .. Spare |->
                              IF k = 0 THEN n
                              ELSE IF h[k - 1].pc \in DOMAIN p /\ p[h[k - 1].pc].op = "nop"
                                   THEN Pass(h[k - 1]) ELSE h[k - 1]]
           after == CHOOSE h : Good(h)
           e == [k \in 0 .. Spare |-> f[k]]
<1>1. Spare \in Nat
  BY ProgramAssumption
<1>2. SettledIn(p, n) = after[Spare]
  BY DEF SettledIn
<1>3. Good(e)
  <2>1. ASSUME NEW k \in 0 .. Spare, k # 0
        PROVE  e[k] = IF AtNop(p, e[k - 1]) THEN Pass(e[k - 1]) ELSE e[k - 1]
    <3>1. k - 1 \in Nat /\ (k - 1) + 1 = k /\ k - 1 \in 0 .. Spare
      BY <1>1, <2>1
    <3>2. f[(k - 1) + 1] = IF AtNop(p, f[k - 1]) THEN Pass(f[k - 1]) ELSE f[k - 1]
      BY <3>1 DEF Walks
    <3> QED BY <3>1, <3>2
  <2>2. e[0] = n
    BY <1>1 DEF Walks
  <2> QED BY <2>1, <2>2 DEF AtNop, NopAt
<1> HIDE DEF after, e
<1>4. Good(after)
  BY <1>3 DEF after
<1> DEFINE S == {k \in Nat : k <= Spare => after[k] = f[k]}
<1>5. S \in SUBSET Nat /\ 0 \in S
  BY <1>1, <1>4 DEF Walks
<1>6. ASSUME NEW k \in S PROVE k + 1 \in S
  <2>1. k \in Nat /\ (k <= Spare => after[k] = f[k])
    OBVIOUS
  <2>2. SUFFICES ASSUME k + 1 <= Spare PROVE after[k + 1] = f[k + 1]
    BY <2>1
  <2>3. k + 1 \in 0 .. Spare /\ k + 1 # 0 /\ (k + 1) - 1 = k /\ after[k] = f[k]
    BY <1>1, <2>1, <2>2
  <2>4. after[k + 1] = IF AtNop(p, after[k]) THEN Pass(after[k]) ELSE after[k]
    BY <1>4, <2>3 DEF AtNop, NopAt
  <2> QED BY <2>1, <2>3, <2>4 DEF Walks
<1> HIDE DEF S
<1>7. S = Nat
  BY <1>5, <1>6, Induction
<1> QED BY <1>1, <1>2, <1>7 DEF S

(* A walk that is at no nop has come to an end.                              *)
LEMMA WalkStays ==
    ASSUME NEW p, NEW n \in Point, NEW f, Walks(p, n, f), NEW j \in Nat, ~AtNop(p, f[j]),
           NEW m \in Nat, j <= m
    PROVE  f[m] = f[j]
<1> DEFINE S == {i \in Nat : f[j + i] = f[j]}
<1>1. S \in SUBSET Nat /\ 0 \in S
  OBVIOUS
<1>2. ASSUME NEW i \in S PROVE i + 1 \in S
  <2>1. i \in Nat /\ f[j + i] = f[j] /\ j + i \in Nat /\ j + (i + 1) = (j + i) + 1
    OBVIOUS
  <2>2. f[(j + i) + 1] = f[j + i]
    BY <2>1 DEF Walks
  <2> QED BY <2>1, <2>2
<1> HIDE DEF S
<1>3. S = Nat
  BY <1>1, <1>2, Induction
<1>4. m - j \in Nat /\ j + (m - j) = m
  OBVIOUS
<1>5. f[j + (m - j)] = f[j]
  BY <1>3, <1>4 DEF S
<1> QED BY <1>4, <1>5

(* Spare is enough: behind the passed instruction the nops of the program    *)
(* follow one another.                                                       *)
LEMMA SettledAtNoNop ==
    ASSUME NEW p \in Programs, NEW n \in Point
    PROVE  SettledIn(p, n) \in Point /\ ~AtNop(p, SettledIn(p, n))
<1>1. PICK f : Walks(p, n, f)
  BY WalkExists
<1>2. SettledIn(p, n) = f[Spare] /\ Spare \in Nat /\ f[Spare] \in Point
  BY <1>1, WalkSettles, ProgramAssumption DEF Walks
<1>3. SUFFICES ASSUME AtNop(p, f[Spare]) PROVE FALSE
  BY <1>2
<1>4. ASSUME NEW k \in 0 .. Spare PROVE AtNop(p, f[k])
  <2>1. SUFFICES ASSUME ~AtNop(p, f[k]) PROVE FALSE
    OBVIOUS
  <2>2. k \in Nat /\ k <= Spare
    BY <1>2
  <2>3. f[Spare] = f[k]
    BY <1>1, <1>2, <2>1, <2>2, WalkStays
  <2> QED BY <1>3, <2>1, <2>3
<1> DEFINE S == {j \in Nat : j < Spare => f[j + 1] = [pc |-> n.npc + j, npc |-> n.npc + j + 1]}
<1>5. n.npc \in Nat
  BY DEF Point
<1>6. S \in SUBSET Nat
  OBVIOUS
<1>7. 0 \in S
  <2>1. f[0] = n /\ f[0 + 1] = IF AtNop(p, f[0]) THEN Pass(f[0]) ELSE f[0]
    BY <1>1 DEF Walks
  <2>2. AtNop(p, f[0])
    BY <1>2, <1>4
  <2> QED BY <1>5, <2>1, <2>2 DEF Pass
<1>8. ASSUME NEW j \in S PROVE j + 1 \in S
  <2>1. j \in Nat /\ j + 1 \in Nat
    OBVIOUS
  <2>2. SUFFICES ASSUME j + 1 < Spare
                 PROVE  f[(j + 1) + 1] = [pc |-> n.npc + (j + 1), npc |-> n.npc + (j + 1) + 1]
    BY <2>1
  <2>3. f[j + 1] = [pc |-> n.npc + j, npc |-> n.npc + j + 1]
    BY <1>2, <2>1, <2>2
  <2>4. AtNop(p, f[j + 1])
    BY <1>2, <1>4, <2>1, <2>2
  <2>5. f[(j + 1) + 1] = Pass(f[j + 1])
    BY <1>1, <2>1, <2>4 DEF Walks
  <2> QED BY <1>5, <2>1, <2>3, <2>5 DEF Pass
<1> HIDE DEF S
<1>9. S = Nat
  BY <1>6, <1>7, <1>8, Induction
<1>10. n.pc \in DOMAIN p
  <2>1. f[0] = n
    BY <1>1 DEF Walks
  <2> QED BY <1>2, <1>4, <2>1 DEF AtNop, NopAt
<1>11. Spare # 0
  BY <1>10, ProgramAssumption
<1>12. n.npc \in DOMAIN p
  <2>0. 0 \in S /\ 0 < Spare
    BY <1>2, <1>9, <1>11
  <2>1. f[0 + 1] = [pc |-> n.npc + 0, npc |-> n.npc + 0 + 1]
    BY <2>0 DEF S
  <2>2. AtNop(p, f[0 + 1])
    BY <1>2, <1>4, <1>11
  <2> QED BY <1>5, <2>1, <2>2 DEF AtNop, NopAt
<1>13. PICK j \in 0 .. Spare - 1 : n.npc + j \in DOMAIN p => p[n.npc + j].op # "nop"
  BY <1>12, ProgramAssumption
<1>14. f[j + 1] = [pc |-> n.npc + j, npc |-> n.npc + j + 1]
  BY <1>2, <1>9, <1>13 DEF S
<1>15. AtNop(p, f[j + 1])
  BY <1>2, <1>4, <1>13
<1> QED BY <1>13, <1>14, <1>15 DEF AtNop, NopAt

LEMMA SettledStays ==
    ASSUME NEW p, NEW n \in Point, ~AtNop(p, n)
    PROVE  SettledIn(p, n) = n
<1>1. PICK f : Walks(p, n, f)
  BY WalkExists
<1>2. SettledIn(p, n) = f[Spare] /\ Spare \in Nat /\ f[0] = n
  BY <1>1, WalkSettles, ProgramAssumption DEF Walks
<1>3. f[Spare] = f[0]
  <2>1. ~AtNop(p, f[0]) /\ 0 \in Nat /\ 0 <= Spare
    BY <1>2
  <2> QED BY <1>1, <1>2, <2>1, WalkStays
<1> QED BY <1>2, <1>3

LEMMA SettledPasses ==
    ASSUME NEW p \in Programs, NEW n \in Point, AtNop(p, n)
    PROVE  SettledIn(p, Pass(n)) = SettledIn(p, n)
<1>1. PICK f : Walks(p, n, f)
  BY WalkExists
<1> DEFINE g == [k \in Nat |-> f[k + 1]]
<1>2. Pass(n) \in Point
  BY PassPoint
<1>3. f[0 + 1] = Pass(n)
  BY <1>1 DEF Walks
<1>4. Walks(p, Pass(n), g)
  <2>1. g \in [Nat -> Point] /\ g[0] = Pass(n)
    BY <1>1, <1>3 DEF Walks
  <2>2. \A k \in Nat : g[k + 1] = IF AtNop(p, g[k]) THEN Pass(g[k]) ELSE g[k]
    BY <1>1 DEF Walks
  <2> HIDE DEF g
  <2> QED BY <2>1, <2>2 DEF Walks
<1>5. Spare \in Nat
  BY ProgramAssumption
<1>6. SettledIn(p, Pass(n)) = g[Spare]
  BY <1>2, <1>4, WalkSettles
<1>7. SettledIn(p, n) = f[Spare]
  BY <1>1, WalkSettles
<1>8. f[Spare + 1] = f[Spare]
  BY <1>1, <1>5, <1>7, SettledAtNoNop DEF Walks
<1> QED BY <1>5, <1>6, <1>7, <1>8

LEMMA SettledSound ==
    ASSUME NEW p, NEW n, Sound(p, n)
    PROVE  Sound(p, SettledIn(p, n))
<1>0. n \in Point
  BY DEF Sound
<1>1. PICK f : Walks(p, n, f)
  BY <1>0, WalkExists
<1> DEFINE S == {k \in Nat : Sound(p, f[k])}
<1>2. S \in SUBSET Nat /\ 0 \in S
  BY <1>1 DEF Walks
<1>3. ASSUME NEW k \in S PROVE k + 1 \in S
  <2>1. k \in Nat /\ k + 1 \in Nat /\ Sound(p, f[k]) /\ f[k + 1] \in Point
    BY <1>1 DEF Walks
  <2>2. f[k + 1] = IF AtNop(p, f[k]) THEN Pass(f[k]) ELSE f[k]
    BY <1>1, <2>1 DEF Walks
  <2>3. Sound(p, f[k + 1])
    BY <2>1, <2>2 DEF Sound, Pass
  <2> QED BY <2>1, <2>3
<1> HIDE DEF S
<1>4. S = Nat
  BY <1>2, <1>3, Induction
<1>5. SettledIn(p, n) = f[Spare] /\ Spare \in Nat
  BY <1>0, <1>1, WalkSettles, ProgramAssumption
<1> QED BY <1>4, <1>5 DEF S

-----------------------------------------------------------------------------
(* The addresses that Following reaches in k passes. *)
Reached(p, s) == s \cup UNION {Near(p, j) : j \in {x \in s : p[x].op = "nop"}}

Reaches(p, a, r) ==
    /\ r \in [0 .. Spare -> SUBSET DOMAIN p]
    /\ r[0] = Near(p, a)
    /\ \A k \in 0 .. Spare : k # 0 => r[k] = Reached(p, r[k - 1])

LEMMA ReachExists ==
    ASSUME NEW p, NEW a
    PROVE  \E r : Reaches(p, a, r) /\ Following(p, a) = {j \in r[Spare] : p[j].op # "nop"}
<1> DEFINE V == SUBSET DOMAIN p
           g == [x \in Nat \X V |-> Reached(p, x[2])]
           Good(h) == h = [n \in 0 .. Spare |->
                              IF n = 0 THEN Near(p, a)
                              ELSE h[n - 1] \cup UNION {Near(p, j) : j \in {x \in h[n - 1] : p[x].op = "nop"}}]
           reach == CHOOSE h : Good(h)
<1>1. Spare \in Nat
  BY ProgramAssumption
<1>2. \A j : Near(p, j) \in V
  BY DEF Near
<1>3. \A s \in V : Reached(p, s) \in V
  BY <1>2 DEF Reached
<1>4. IsRule(g, V)
  BY <1>3 DEF IsRule
<1>5. \A i \in Nat, s \in V : g[<<i, s>>] = Reached(p, s)
  OBVIOUS
<1> HIDE DEF g
<1>6. PICK f : RecursesUpTo(f, Spare, V, Near(p, a), g)
  BY <1>1, <1>2, <1>4, RecursionUpTo
<1>7. \A k \in 0 .. Spare : f[k] = IF k = 0 THEN Near(p, a) ELSE Reached(p, f[k - 1])
  <2> TAKE k \in 0 .. Spare
  <2>1. f[k] = IF k = 0 THEN Near(p, a) ELSE g[<<k - 1, f[k - 1]>>]
    BY <1>6 DEF RecursesUpTo
  <2>2. CASE k = 0
    BY <2>1, <2>2
  <2>3. CASE k # 0
    <3>1. k - 1 \in Nat /\ k - 1 \in 0 .. Spare
      BY <1>1, <2>3
    <3>2. f[k - 1] \in V
      BY <1>6, <3>1 DEF RecursesUpTo
    <3>3. g[<<k - 1, f[k - 1]>>] = Reached(p, f[k - 1])
      BY <1>5, <3>1, <3>2
    <3> QED BY <2>1, <2>3, <3>3
  <2> QED BY <2>2, <2>3
<1>8. Good(f)
  BY <1>6, <1>7 DEF RecursesUpTo, Reached
<1>9. Following(p, a) = {j \in reach[Spare] : p[j].op # "nop"}
  BY DEF Following
<1> HIDE DEF reach
<1>10. Good(reach)
  BY <1>8 DEF reach
<1>11. \A k \in 0 .. Spare : reach[k] = IF k = 0 THEN Near(p, a) ELSE Reached(p, reach[k - 1])
  BY <1>10 DEF Reached
<1> HIDE DEF Good
<1> DEFINE S == {k \in Nat : k <= Spare => reach[k] = f[k]}
<1>12. S \in SUBSET Nat /\ 0 \in S
  <2>1. 0 \in 0 .. Spare
    BY <1>1
  <2>2. reach[0] = Near(p, a) /\ f[0] = Near(p, a)
    BY <1>7, <1>11, <2>1
  <2> QED BY <2>2
<1>13. ASSUME NEW k \in S PROVE k + 1 \in S
  <2>1. k \in Nat /\ (k <= Spare => reach[k] = f[k])
    OBVIOUS
  <2>2. SUFFICES ASSUME k + 1 <= Spare PROVE reach[k + 1] = f[k + 1]
    BY <2>1
  <2>3. k + 1 \in 0 .. Spare /\ k + 1 # 0 /\ (k + 1) - 1 = k /\ reach[k] = f[k]
    BY <1>1, <2>1, <2>2
  <2>4. reach[k + 1] = Reached(p, reach[k]) /\ f[k + 1] = Reached(p, f[k])
    BY <1>7, <1>11, <2>3
  <2> QED BY <2>3, <2>4
<1> HIDE DEF S
<1>14. S = Nat
  BY <1>12, <1>13, Induction
<1>15. f[Spare] = reach[Spare]
  BY <1>1, <1>14 DEF S
<1>16. Reaches(p, a, f)
  <2>1. f \in [0 .. Spare -> SUBSET DOMAIN p]
    BY <1>6 DEF RecursesUpTo
  <2>2. f[0] = Near(p, a)
    BY <1>1, <1>7
  <2>3. \A k \in 0 .. Spare : k # 0 => f[k] = Reached(p, f[k - 1])
    BY <1>7
  <2> QED BY <2>1, <2>2, <2>3 DEF Reaches
<1> QED BY <1>9, <1>15, <1>16

LEMMA WalkReaches ==
    ASSUME NEW p \in Programs, NEW a, NEW n, Sound(p, n), n.pc \in DOMAIN p => n.pc \in Near(p, a),
           SettledIn(p, n).pc \in DOMAIN p
    PROVE  SettledIn(p, n).pc \in Following(p, a)
<1>0. n \in Point /\ Spare \in Nat
  BY ProgramAssumption DEF Sound
<1>1. PICK f : Walks(p, n, f)
  BY <1>0, WalkExists
<1>2. PICK r : Reaches(p, a, r) /\ Following(p, a) = {j \in r[Spare] : p[j].op # "nop"}
  BY ReachExists
<1> DEFINE In(k) == Sound(p, f[k]) /\ (f[k].pc \in DOMAIN p => f[k].pc \in r[k])
           S == {k \in Nat : k <= Spare => In(k)}
<1>3. S \in SUBSET Nat
  OBVIOUS
<1>4. 0 \in S
  <2>1. f[0] = n /\ r[0] = Near(p, a)
    BY <1>1, <1>2 DEF Walks, Reaches
  <2> QED BY <2>1
<1>5. ASSUME NEW k \in S PROVE k + 1 \in S
  <2>1. k \in Nat /\ (k <= Spare => In(k))
    OBVIOUS
  <2>2. SUFFICES ASSUME k + 1 <= Spare PROVE In(k + 1)
    BY <2>1
  <2>3. /\ k \in 0 .. Spare /\ k + 1 \in 0 .. Spare /\ k + 1 # 0 /\ (k + 1) - 1 = k
        /\ In(k)
    BY <1>0, <2>1, <2>2
  <2>4. r[k + 1] = Reached(p, r[k]) /\ r[k] \subseteq DOMAIN p
    BY <1>2, <2>3 DEF Reaches
  <2>5. f[k + 1] = (IF AtNop(p, f[k]) THEN Pass(f[k]) ELSE f[k]) /\ f[k] \in Point
    BY <1>1, <2>3 DEF Walks
  <2>6. CASE ~AtNop(p, f[k])
    BY <2>3, <2>4, <2>5, <2>6 DEF Reached
  <2>7. CASE AtNop(p, f[k])
    <3>1. f[k + 1] = [pc |-> f[k].npc, npc |-> f[k].npc + 1]
      BY <2>5, <2>7 DEF Pass
    <3>2. f[k].npc \in Successors(p, f[k].pc)
      BY <2>3 DEF Sound, Successors
    <3>3. f[k].pc \in r[k] /\ p[f[k].pc].op = "nop"
      BY <2>3, <2>7 DEF AtNop, NopAt
    <3>4. f[k].npc \in DOMAIN p => f[k].npc \in Reached(p, r[k])
      BY <3>2, <3>3 DEF Near, Reached
    <3>5. Sound(p, f[k + 1])
      BY <2>5, <3>1 DEF Sound, Point
    <3> QED BY <2>4, <3>1, <3>4, <3>5
  <2> QED BY <2>6, <2>7
<1> HIDE DEF S
<1>6. S = Nat
  BY <1>3, <1>4, <1>5, Induction
<1>7. In(Spare)
  BY <1>0, <1>6 DEF S
<1>8. SettledIn(p, n) = f[Spare]
  BY <1>0, <1>1, WalkSettles
<1>9. ~AtNop(p, f[Spare])
  BY <1>0, <1>8, SettledAtNoNop
<1> QED BY <1>2, <1>7, <1>8, <1>9 DEF AtNop, NopAt

LEMMA InstructionOf ==
    ASSUME NEW p \in Programs, NEW k \in DOMAIN p
    PROVE  k \in Nat \ {0} /\ p[k] \in Instruction
BY ProgramAssumption

(* A transfer is in no delay slot; its own is the next instruction.          *)
LEMMA TransferSound ==
    ASSUME NEW p \in Programs, Supported(p), NEW n, Sound(p, n), n.pc \in DOMAIN p,
           Transfers(p[n.pc])
    PROVE  /\ n.npc = n.pc + 1
           /\ n.npc \in DOMAIN p
           /\ ~Transfers(p[n.npc])
           /\ p[n.pc].target # n.npc
<1>1. n.pc \in Nat /\ n.npc \in Nat
  BY DEF Sound, Point
<1>2. n.npc = n.pc + 1
  <2>1. SUFFICES ASSUME n.pc - 1 \in DOMAIN p, Transfers(p[n.pc - 1]) PROVE FALSE
    BY DEF Sound
  <2>2. (n.pc - 1) + 1 = n.pc
    BY <1>1
  <2> QED BY <2>1, <2>2 DEF Supported
<1> QED BY <1>2 DEF Supported

LEMMA BranchSound ==
    ASSUME NEW p \in Programs, Supported(p), NEW n, Sound(p, n), n.pc \in DOMAIN p, NEW z
    PROVE  LET m == Branching(n, p[n.pc], z)
           IN /\ Sound(p, m) /\ Sound(p, Pass(m))
              /\ m.pc \in DOMAIN p => m.pc \in Near(p, n.pc)
              /\ Annuls(p[n.pc], z) /\ m.npc \in DOMAIN p => m.npc \in Near(p, n.pc)
<1> DEFINE i == p[n.pc]
           m == Branching(n, i, z)
<1>1. n.pc \in Nat /\ n.npc \in Nat /\ i.target \in Nat
  BY InstructionOf DEF Sound, Point, Instruction
<1>2. Taken(i, z) \/ Annuls(i, z) => Transfers(i)
  BY DEF Taken, Annuls, Branch, Transfers
<1>3. Transfers(i) => n.npc = n.pc + 1
  BY TransferSound
<1>4. m = [pc |-> n.npc, npc |-> IF Taken(i, z) THEN i.target ELSE n.npc + 1]
  BY DEF Branching
<1>5. Sound(p, m)
  <2>1. m \in Point
    BY <1>1, <1>4 DEF Point
  <2>2. CASE Taken(i, z)
    <3>1. m.pc - 1 = n.pc /\ m.npc = i.target
      BY <1>1, <1>2, <1>3, <1>4, <2>2
    <3> HIDE DEF m
    <3> QED BY <1>2, <2>1, <2>2, <3>1 DEF Sound
  <2>3. CASE ~Taken(i, z)
    BY <1>4, <2>1, <2>3 DEF Sound
  <2> QED BY <2>2, <2>3
<1>6. Sound(p, Pass(m))
  BY <1>1, <1>4 DEF Sound, Pass, Point
<1>7. n.npc \in Successors(p, n.pc)
  BY DEF Sound, Successors
<1>8. Annuls(i, z) => m.npc \in Successors(p, n.pc)
  <2>1. Annuls(i, z) => i.annul /\ n.npc = n.pc + 1
    BY <1>2, <1>3 DEF Annuls
  <2>2. n.npc = n.pc + 1 => n.npc + 1 = n.pc + 2
    BY <1>1
  <2> QED BY <1>4, <2>1, <2>2 DEF Successors
<1> QED BY <1>4, <1>5, <1>6, <1>7, <1>8 DEF Near

(* What follows an instruction in program order is one of Following.         *)
LEMMA FollowReaches ==
    ASSUME NEW p \in Programs, Supported(p), NEW n, Sound(p, n), n.pc \in DOMAIN p, NEW z
    PROVE  LET q == FollowIn(p, n, p[n.pc], z)
           IN Sound(p, q) /\ ~AtNop(p, q) /\ (q.pc \in DOMAIN p => q.pc \in Following(p, n.pc))
<1> DEFINE i == p[n.pc]
           m == Branching(n, i, z)
           s == IF Annuls(i, z) THEN Pass(m) ELSE m
<1>1. /\ Sound(p, m) /\ Sound(p, Pass(m))
      /\ m.pc \in DOMAIN p => m.pc \in Near(p, n.pc)
      /\ Annuls(i, z) /\ m.npc \in DOMAIN p => m.npc \in Near(p, n.pc)
  BY BranchSound
<1>2. Pass(m).pc = m.npc
  BY DEF Pass
<1>3. FollowIn(p, n, i, z) = SettledIn(p, s)
  BY DEF FollowIn
<1> HIDE DEF m
<1>4. Sound(p, s) /\ (s.pc \in DOMAIN p => s.pc \in Near(p, n.pc))
  BY <1>1, <1>2
<1> HIDE DEF s
<1>5. s \in Point
  BY <1>4 DEF Sound
<1> QED BY <1>3, <1>4, <1>5, SettledSound, SettledAtNoNop, WalkReaches

-----------------------------------------------------------------------------
(* The stages behind decode. *)

(* An instruction waits in execute only for a load or store that is in the   *)
(* memory stage or has just left it; annul_in is never up meanwhile.         *)
BackInv ==
    /\ mem.st = "A" <=> mem.slot = Bubble
    /\ mem.st = "B" => Accesses(mem.slot) /\ exmem = Bubble /\ memwb.slot = Bubble
    /\ memwb.slot # Bubble => exmem = Bubble /\ memwb.pair = Pair(memwb.slot)
    /\ exmem # Bubble => Working = Bubble
    /\ ex.st = "B" <=> ex.slot # Bubble
    /\ ex.st = "B" => Accesses(Older)
    /\ ex.annul => mem.st = "A" /\ ~Accesses(exmem) /\ ex.ready

Taking == [pc |-> Decoded, operands |-> Operands(prog[Decoded])]

LEMMA WorkingMoves ==
    ASSUME HandOver, AnnulInv, BehindInv, BackInv, NEW yBit \in BOOLEAN, DecodeStep(yBit), ExStep
    PROVE  /\ ExReady <=> ex.st = "A"
           /\ Passes(yBit) => Working = Bubble /\ ex.st = "A" /\ Taking # Bubble
           /\ Working' = IF Passes(yBit) THEN Taking
                         ELSE IF MemReady THEN Bubble ELSE Working
           /\ ex'.st = (IF Working # Bubble /\ ~MemReady THEN "B" ELSE "A")
           /\ ex'.st = "B" <=> ex'.slot # Bubble
           /\ ex'.st = "B" => ex'.slot = Working
<1>1. ex.st \in {"A", "B"}
  BY DEF HandOver, FormInv
<1>2. ExReady <=> ex.st = "A"
  BY DEF ExReady, AnnulInv, BackInv
<1>3. Passes(yBit) => Decoded # None /\ ex.st = "A"
  BY <1>2 DEF Passes
<1>4. decode.st = "A" => Decoded = ifid
  BY DEF Decoded, IdReady
<1>5. Passes(yBit) => Working = Bubble
  <2>1. idex # Bubble => Decoded = None
    BY <1>4 DEF BehindInv
  <2> QED BY <1>3, <2>1 DEF Working
<1>6. Passes(yBit) => Taking # Bubble
  <2>1. Decoded # None => Taking.pc # Bubble.pc
    BY DEF Taking, Bubble
  <2> QED BY <1>3, <2>1
<1>7. idex' = IF Passes(yBit) THEN Taking ELSE Bubble
  <2>1. idex' = CASE ~ExReady     -> idex
                  [] Passes(yBit) -> Taking
                  [] OTHER        -> Bubble
    BY DEF DecodeStep, Taking
  <2>2. CASE Passes(yBit)
    BY <1>2, <1>3, <2>1, <2>2
  <2>3. CASE ~Passes(yBit) /\ ExReady
    BY <2>1, <2>3
  <2>4. CASE ~ExReady
    <3>1. ~Passes(yBit) /\ idex' = idex
      BY <2>1, <2>4 DEF Passes
    <3>2. idex = Bubble
      BY <1>1, <1>2, <2>4 DEF BehindInv, NothingBehindWaiting
    <3> QED BY <3>1, <3>2
  <2> QED BY <2>2, <2>3, <2>4
<1>8. /\ ex'.st = (IF Working # Bubble /\ ~MemReady THEN "B" ELSE "A")
      /\ ex'.slot = (IF Working # Bubble /\ ~MemReady THEN Working ELSE Bubble)
  BY DEF ExStep
<1> HIDE DEF Bubble, Taking
<1>9. Working' = IF Passes(yBit) THEN Taking ELSE IF MemReady THEN Bubble ELSE Working
  BY <1>5, <1>7, <1>8 DEF Working
<1> QED BY <1>2, <1>3, <1>5, <1>6, <1>8, <1>9

(* The older instruction stays where it is or goes on, without meeting the   *)
(* one in execute; or the pipeline moves by one.                             *)
LEMMA OlderMoves ==
    ASSUME TypeOK, BackInv, ExStep, NEW ack \in BOOLEAN, ack => DataAnswer, MemStep(ack)
    PROVE  /\ \/ memwb.slot = Bubble /\ Older' = Older /\ (MemReady => Working = Bubble)
              \/ MemReady /\ exmem = Bubble /\ Older = memwb.slot /\ Older' = ExOut
           /\ mem'.st = "A" <=> mem'.slot = Bubble
           /\ mem'.st = "B" => mem'.slot = Older /\ Accesses(mem'.slot) /\ exmem' = Bubble
                               /\ memwb'.slot = Bubble /\ Older' = Older
           /\ mem'.st = "B" => mem.st = "B" \/ Accesses(exmem)
           /\ memwb'.slot # Bubble => /\ exmem' = Bubble /\ memwb'.pair = Pair(memwb'.slot)
                                      /\ memwb'.slot = Older /\ memwb.slot = Bubble
                                      /\ Accesses(memwb'.slot) \/ memwb'.slot = exmem
           /\ exmem' # Bubble => MemReady /\ exmem' = ExOut
<1>0. mem.st \in {"A", "B"}
  BY DEF TypeOK
<1>1. exmem' = IF MemReady THEN ExOut ELSE exmem
  BY DEF ExStep
<1>2. Working = Bubble => ExOut = Bubble
  BY DEF ExOut
<1>3. ~Accesses(Bubble)
  BY DEF Accesses
<1> HIDE DEF Bubble
<1> USE DEF MemReady
<1>4. CASE mem.st = "A" /\ Accesses(exmem)
  <2>1. mem' = [st |-> "B", slot |-> exmem, seen |-> FALSE] /\ memwb'.slot = Bubble
    BY <1>4 DEF MemStep
  <2>2. exmem # Bubble
    BY <1>3, <1>4
  <2> QED BY <1>1, <1>2, <1>4, <2>1, <2>2 DEF Older, BackInv
<1>5. CASE mem.st = "A" /\ ~Accesses(exmem)
  <2>1. mem' = mem /\ memwb' = [slot |-> exmem, pair |-> Pair(exmem)]
    BY <1>5 DEF MemStep
  <2> QED BY <1>1, <1>2, <1>5, <2>1 DEF Older, BackInv
<1>6. CASE mem.st = "B" /\ ack
  <2>1. mem' = [st |-> "A", slot |-> Bubble, seen |-> FALSE]
        /\ memwb' = [slot |-> mem.slot, pair |-> Pair(mem.slot)]
    BY <1>6 DEF MemStep
  <2> QED BY <1>1, <1>3, <1>6, <2>1 DEF Older, BackInv
<1>7. CASE mem.st = "B" /\ ~ack
  <2>1. mem'.st = mem.st /\ mem'.slot = mem.slot /\ memwb'.slot = Bubble
    BY <1>7 DEF MemStep, TypeOK
  <2> QED BY <1>1, <1>3, <1>7, <2>1 DEF Older, BackInv
<1> QED BY <1>0, <1>4, <1>5, <1>6, <1>7

-----------------------------------------------------------------------------
(* Places in the program order.                                              *)

ZedIn(p, s) == s.operands.icc \in DOMAIN p /\ p[s.operands.icc].zero

(* The place behind the instruction in slot s, if there is one, that is at n. *)
AfterIn(p, n, s) == IF s = Bubble THEN n ELSE FollowIn(p, n, p[s.pc], ZedIn(p, s))

(* The places of the instructions that execute and decode work on.           *)
AtExecute == AfterIn(prog, next, Older)
AtDecode == AfterIn(prog, AtExecute, ExOut)

(* What is behind decode is at its place in the program order, and what is   *)
(* annulled neither branches nor turns the window.                           *)
OrderInv ==
    /\ Sound(prog, next)
    /\ Older # Bubble => Older.pc = next.pc
    /\ ExOut # Bubble => ExOut.pc = AtExecute.pc
    /\ ex.annul /\ Working # Bubble => ~Transfers(At(Working)) /\ Turn(At(Working)) = "none"
    /\ last # Bubble /\ InProgram(next.pc) => next.pc \in Following(prog, last.pc)

LEMMA Slots ==
    ASSUME TypeOK
    PROVE  /\ IsSlot(Older) /\ IsSlot(Working) /\ IsSlot(ExOut)
           /\ IsSlot(memwb.slot) /\ IsSlot(last)
<1>1. IsSlot(Bubble)
  BY DEF IsSlot
<1>2. IsSlot(memwb.slot) /\ IsSlot(mem.slot) /\ IsSlot(exmem) /\ IsSlot(idex) /\ IsSlot(ex.slot)
      /\ IsSlot(last)
  BY DEF TypeOK
<1> QED BY <1>1, <1>2 DEF Older, Working, ExOut

LEMMA AfterSlot ==
    ASSUME TypeOK, Supported(prog), NEW s, IsSlot(s), NEW n, Sound(prog, n),
           s # Bubble => s.pc = n.pc
    PROVE  LET q == AfterIn(prog, n, s)
           IN /\ Sound(prog, q)
              /\ s # Bubble => /\ ~AtNop(prog, q)
                               /\ InProgram(q.pc) => q.pc \in Following(prog, s.pc)
<1>1. prog \in Programs
  BY DEF TypeOK
<1>2. CASE s = Bubble
  BY <1>2 DEF AfterIn
<1>3. CASE s # Bubble
  <2>1. n.pc \in DOMAIN prog /\ s.pc = n.pc
    BY <1>3, SlotAt DEF InProgram
  <2>2. AfterIn(prog, n, s) = FollowIn(prog, n, prog[n.pc], ZedIn(prog, s))
    BY <1>3, <2>1 DEF AfterIn
  <2> QED BY <1>1, <2>1, <2>2, FollowReaches DEF InProgram
<1> QED BY <1>2, <1>3

(* Next after a load or store there is no annulling branch and no turn.      *)
LEMMA NotBehindAccess ==
    ASSUME TypeOK, Supported(prog), OrderInv, Accesses(Older), ExOut # Bubble
    PROVE  /\ ~At(ExOut).annul
           /\ Turn(At(ExOut)) = "none"
<1>1. Older # Bubble /\ MemoryOp(prog[Older.pc]) /\ Older.pc = next.pc /\ Sound(prog, next)
  BY DEF Accesses, At, OrderInv
<1>2. InProgram(ExOut.pc) /\ InProgram(Older.pc)
  BY <1>1, Slots, SlotAt
<1>3. ExOut.pc = AtExecute.pc
  BY DEF OrderInv
<1>4. ExOut.pc \in Following(prog, Older.pc)
  BY <1>1, <1>2, <1>3, Slots, AfterSlot DEF AtExecute
<1>5. ExOut.pc \in Nearby(prog, Older.pc)
  BY <1>4 DEF Nearby
<1> QED BY <1>1, <1>2, <1>4, <1>5 DEF Supported, At, InProgram

(* annul_out is up exactly when there is a slot to be annulled.              *)
LEMMA AnnulOutIs ==
    ASSUME TypeOK, Supported(prog), AnnulInv, BackInv, OrderInv
    PROVE  /\ AnnulOut <=> Pending
           /\ Pending => MemReady /\ ex.st = "A" /\ ~Accesses(exmem) /\ ~Accesses(ExOut)
           /\ ex.annul => MemReady
<1>0. ex.st \in {"A", "B"} /\ mem.st \in {"A", "B"}
  BY DEF TypeOK
<1>1. Working = Bubble => ex.st = "A"
  BY <1>0 DEF Working, BackInv
<1>2. ex.annul => MemReady
  BY DEF BackInv, MemReady
<1>3. CASE Working = Bubble
  <2>1. ExOut = Bubble
    BY <1>3 DEF ExOut
  <2>2. ~Accesses(ExOut)
    BY <2>1 DEF Accesses
  <2> QED BY <1>1, <1>2, <1>3, <2>2 DEF AnnulOut, Pending, BackInv
<1>4. CASE Working # Bubble /\ ex.annul
  <2>1. ex.st = "A" /\ ~Annuls(At(Working), Zed(Working))
    BY <1>4 DEF AnnulInv, OrderInv, Annuls, Transfers, Branch
  <2> QED BY <1>2, <1>4, <2>1 DEF AnnulOut, Pending
<1>5. CASE Working # Bubble /\ ~ex.annul
  <2>1. ExOut = Working
    BY <1>5 DEF ExOut
  <2>2. mem.st = "B" \/ ex.st = "B" => Accesses(Older)
    <3>1. mem.st = "B" => Older = mem.slot
      BY DEF BackInv, Older
    <3> QED BY <3>1 DEF BackInv
  <2>3. mem.st = "B" \/ ex.st = "B" => ~At(Working).annul
    BY <1>5, <2>1, <2>2, NotBehindAccess
  <2>4. Annuls(At(Working), Zed(Working)) => Branch(At(Working)) /\ At(Working).annul
    BY DEF Annuls
  <2>5. Branch(At(Working)) => ~MemoryOp(At(Working))
    BY DEF Branch, MemoryOp
  <2>6. exmem = Bubble
    BY <1>5 DEF BackInv
  <2>7. ~Accesses(exmem)
    BY <2>6 DEF Accesses
  <2>8. CASE mem.st = "B" \/ ex.st = "B"
    BY <1>0, <1>5, <2>3, <2>4, <2>8 DEF AnnulOut, Pending
  <2>9. CASE mem.st = "A" /\ ex.st = "A"
    BY <1>5, <2>1, <2>4, <2>5, <2>7, <2>9 DEF AnnulOut, Pending, MemReady, Accesses
  <2> QED BY <1>0, <1>5, <2>8, <2>9
<1> QED BY <1>2, <1>3, <1>4, <1>5

-----------------------------------------------------------------------------
(* The place that the front end has reached (Front). *)

(* What decode has or gets next is, nops apart, at the place behind execute; *)
(* or it is in the delay slot that will be annulled, and that place is next  *)
(* after it.                                                                 *)
LinkInv ==
    /\ Sound(prog, Front)
    /\ ~Pending => SettledIn(prog, Front) = AtDecode
    /\ Pending => /\ SettledIn(prog, Pass(Front)) = AtDecode
                  /\ InProgram(Front.pc)
                  /\ ~AtNop(prog, Front)
                  /\ ~Transfers(prog[Front.pc])
                  /\ Turn(prog[Front.pc]) = "none"

(* What fetch, IFIDReg and decode hold.                                      *)
ItemInv ==
    /\ fetch.st \in {"C", "S"} => InProgram(fetch.pc) /\ fetch.item = Fetched
    /\ fetch.st = "A" /\ fetch.item # None => InProgram(fetch.pc) /\ fetch.item = fetch.pc
    /\ \A a \in {fetch.item, ifid, decode.item} : a # None => InProgram(a) /\ prog[a].op # "nop"
    /\ decode.st # "A" => decode.item # None
    /\ fetch.st = "S" => decode.st = "A" /\ ifid = None

(* A branch in execute has not been moved past by fetch.                     *)
AimInv ==
    /\ fetch.st = "A" /\ Holding => Wanted = npc
    /\ Decoded # None => FetchNpc = FetchPc + 1
    /\ ~Holding /\ npc = fetch.pc /\ MuxSel => Tgt = npc

Base == TypeOK /\ HandOver /\ AnnulInv /\ BehindInv /\ BackInv /\ Supported(prog)

LEMMA DecodedPlace ==
    ASSUME Base, OrderInv, ItemInv, LinkInv, Decoded # None
    PROVE  /\ Front = [pc |-> Decoded, npc |-> FetchPc]
           /\ InProgram(Decoded)
           /\ prog[Decoded].op # "nop"
           /\ ~Pending => Front = AtDecode
<1>1. Front = [pc |-> Decoded, npc |-> FetchPc] /\ Front.pc = Decoded
  BY DEF Front
<1>2. Decoded \in {ifid, decode.item}
  BY DEF Decoded
<1>3. InProgram(Decoded) /\ prog[Decoded].op # "nop"
  BY <1>2 DEF ItemInv
<1>4. ~AtNop(prog, Front)
  BY <1>1, <1>3 DEF AtNop, NopAt, InProgram
<1>5. ~Pending => Front = AtDecode
  BY <1>4, SettledStays DEF LinkInv, Sound
<1> QED BY <1>1, <1>3, <1>5

(* The machine behind decode in one cycle. *)
BackMoves(dAck, yBit) ==
    /\ prog' = prog
    /\ dAck \in BOOLEAN /\ (dAck => DataAnswer)
    /\ yBit \in BOOLEAN
    /\ DecodeStep(yBit)
    /\ ExStep
    /\ MemStep(dAck)
    /\ Retire(TurnOut(yBit))

LEMMA BackStep ==
    ASSUME Base, OrderInv, NEW dAck, NEW yBit, BackMoves(dAck, yBit)
    PROVE  BackInv'
<1>0. TypeOK /\ HandOver /\ AnnulInv /\ BehindInv /\ BackInv /\ Supported(prog)
  BY DEF Base
<1>1. /\ prog' = prog /\ dAck \in BOOLEAN /\ (dAck => DataAnswer) /\ yBit \in BOOLEAN
      /\ DecodeStep(yBit) /\ ExStep /\ MemStep(dAck)
  BY DEF BackMoves
<1>2. /\ ExReady <=> ex.st = "A"
      /\ Passes(yBit) => Working = Bubble
      /\ Working' = IF Passes(yBit) THEN Taking
                    ELSE IF MemReady THEN Bubble ELSE Working
      /\ ex'.st = (IF Working # Bubble /\ ~MemReady THEN "B" ELSE "A")
      /\ ex'.st = "B" <=> ex'.slot # Bubble
  BY <1>0, <1>1, WorkingMoves
<1>3. /\ \/ memwb.slot = Bubble /\ Older' = Older /\ (MemReady => Working = Bubble)
         \/ MemReady /\ exmem = Bubble /\ Older = memwb.slot /\ Older' = ExOut
      /\ mem'.st = "A" <=> mem'.slot = Bubble
      /\ mem'.st = "B" => mem'.slot = Older /\ Accesses(mem'.slot) /\ exmem' = Bubble
                          /\ memwb'.slot = Bubble /\ Older' = Older
      /\ mem'.st = "B" => mem.st = "B" \/ Accesses(exmem)
      /\ memwb'.slot # Bubble => exmem' = Bubble /\ memwb'.pair = Pair(memwb'.slot)
      /\ exmem' # Bubble => MemReady /\ exmem' = ExOut
  BY <1>0, <1>1, OlderMoves
<1>4. /\ AnnulOut <=> Pending
      /\ Pending => MemReady /\ ex.st = "A" /\ ~Accesses(exmem) /\ ~Accesses(ExOut)
  BY <1>0, AnnulOutIs
<1>5. mem.st \in {"A", "B"} /\ mem'.st \in {"A", "B"}
  BY <1>0, <1>1 DEF TypeOK, MemStep
<1>6. Bubble' = Bubble
  BY DEF Bubble
<1>7. exmem' # Bubble => Working' = Bubble
  <2>1. ExOut # Bubble => Working # Bubble
    BY DEF ExOut
  <2> HIDE DEF Bubble
  <2> QED BY <1>2, <1>3, <2>1
<1>8. ex'.st = "B" => Accesses(Older')
  <2> HIDE DEF Bubble
  <2> SUFFICES ASSUME ex'.st = "B" PROVE Accesses(Older')
    OBVIOUS
  <2>1. Working # Bubble /\ mem.st = "B" /\ memwb.slot = Bubble
    BY <1>0, <1>2, <1>5 DEF MemReady, BackInv
  <2> QED BY <1>0, <1>3, <2>1 DEF MemReady, BackInv, Older
<1>9. ex'.annul => mem'.st = "A" /\ ~Accesses(exmem') /\ ex'.ready
  <2> SUFFICES ASSUME ex'.annul PROVE mem'.st = "A" /\ ~Accesses(exmem') /\ ex'.ready
    OBVIOUS
  <2>1. Pending /\ ex'.ready = ExReady /\ exmem' = IF MemReady THEN ExOut ELSE exmem
    BY <1>1, <1>4 DEF ExStep
  <2> HIDE DEF Bubble
  <2> QED BY <1>2, <1>3, <1>4, <1>5, <2>1 DEF MemReady
<1> HIDE DEF Bubble
<1> QED BY <1>1, <1>2, <1>3, <1>6, <1>7, <1>8, <1>9 DEF BackInv, Accesses, At, Pair

(* One cycle, in terms of places. *)
LEMMA PlaceStep ==
    ASSUME Base, OrderInv, ItemInv, LinkInv, NEW dAck, NEW yBit, BackMoves(dAck, yBit)
    PROVE  /\ ExOut' = IF Passes(yBit) /\ ~Pending THEN Taking
                       ELSE IF MemReady THEN Bubble ELSE ExOut
           /\ AtExecute' = IF MemReady THEN AtDecode ELSE AtExecute
           /\ AtDecode' = IF Passes(yBit) /\ ~Pending THEN AfterIn(prog, AtDecode, Taking)
                          ELSE AtDecode
           /\ Pending' <=> IF Passes(yBit)
                           THEN ~Pending /\ Annuls(prog[Decoded], ZedIn(prog, Taking))
                           ELSE Pending
           /\ Passes(yBit) => ExOut = Bubble /\ AtDecode = AtExecute
<1>0. TypeOK /\ HandOver /\ AnnulInv /\ BehindInv /\ BackInv /\ Supported(prog)
  BY DEF Base
<1>1. /\ prog' = prog /\ dAck \in BOOLEAN /\ (dAck => DataAnswer) /\ yBit \in BOOLEAN
      /\ DecodeStep(yBit) /\ ExStep /\ MemStep(dAck) /\ Retire(TurnOut(yBit))
  BY DEF BackMoves
<1>2. /\ Passes(yBit) => Working = Bubble /\ Taking # Bubble
      /\ Working' = IF Passes(yBit) THEN Taking
                    ELSE IF MemReady THEN Bubble ELSE Working
  BY <1>0, <1>1, WorkingMoves
<1>3. \/ memwb.slot = Bubble /\ Older' = Older /\ (MemReady => Working = Bubble)
      \/ MemReady /\ exmem = Bubble /\ Older = memwb.slot /\ Older' = ExOut
  BY <1>0, <1>1, OlderMoves
<1>4. /\ AnnulOut <=> Pending
      /\ Pending => MemReady
      /\ ex.annul => MemReady
  BY <1>0, AnnulOutIs
<1>5. ex'.annul = AnnulOut
  BY <1>1 DEF ExStep
<1>6. ExOut' = IF Pending THEN Bubble ELSE Working'
  BY <1>4, <1>5 DEF ExOut, Bubble
<1>7. ExOut = (IF ex.annul THEN Bubble ELSE Working)
      /\ (Passes(yBit) => ExOut = Bubble /\ AtDecode = AtExecute)
  BY <1>2 DEF ExOut, AtDecode, AfterIn
<1>8. next' = AfterIn(prog, next, memwb.slot)
  <2>1. memwb.slot = Bubble => next' = next
    BY <1>1 DEF Retire
  <2>2. memwb.slot # Bubble => next' = FollowIn(prog, next, prog[memwb.slot.pc], ZedIn(prog, memwb.slot))
    BY <1>1, FollowIs DEF Retire, At, Zed, Zero, ZedIn
  <2> QED BY <2>1, <2>2 DEF AfterIn
<1> HIDE DEF Bubble
<1>9. ExOut' = IF Passes(yBit) /\ ~Pending THEN Taking
               ELSE IF MemReady THEN Bubble ELSE ExOut
  BY <1>2, <1>4, <1>6, <1>7
<1>10. AtExecute' = AfterIn(prog, next', Older')
  BY <1>1 DEF AtExecute
<1>11. AtExecute' = IF MemReady THEN AtDecode ELSE AtExecute
  <2>1. \A n : AfterIn(prog, n, Bubble) = n
    BY DEF AfterIn
  <2> HIDE DEF AfterIn
  <2>2. CASE memwb.slot = Bubble /\ Older' = Older /\ (MemReady => Working = Bubble)
    <3>1. next' = next
      BY <1>8, <2>1, <2>2
    <3>2. AtExecute' = AtExecute
      BY <1>10, <2>2, <3>1 DEF AtExecute
    <3>3. MemReady => AtDecode = AtExecute
      BY <1>7, <2>1, <2>2 DEF AtDecode
    <3> QED BY <3>2, <3>3
  <2>3. CASE MemReady /\ exmem = Bubble /\ Older = memwb.slot /\ Older' = ExOut
    BY <1>8, <1>10, <2>3 DEF AtExecute, AtDecode
  <2> QED BY <1>3, <2>2, <2>3
<1>12. AtDecode' = AfterIn(prog, AtExecute', ExOut')
  BY <1>1 DEF AtDecode
<1>13. AtDecode' = IF Passes(yBit) /\ ~Pending THEN AfterIn(prog, AtDecode, Taking) ELSE AtDecode
  <2>1. \A n : AfterIn(prog, n, Bubble) = n
    BY DEF AfterIn
  <2>2. AtDecode = AfterIn(prog, AtExecute, ExOut)
    BY DEF AtDecode
  <2> HIDE DEF AfterIn
  <2>3. CASE Passes(yBit)
    BY <1>2, <1>4, <1>7, <1>9, <1>11, <1>12, <2>1, <2>3
  <2>4. CASE ~Passes(yBit)
    BY <1>9, <1>11, <1>12, <2>1, <2>2, <2>4
  <2> QED BY <2>3, <2>4
<1>14. Pending' <=> IF Passes(yBit)
                    THEN ~Pending /\ Annuls(prog[Decoded], ZedIn(prog, Taking))
                    ELSE Pending
  <2>0. Bubble' = Bubble
    BY DEF Bubble
  <2>1. Pending' <=> IF Pending THEN Working' = Bubble
                     ELSE Working' # Bubble /\ Annuls(prog[Working'.pc], ZedIn(prog, Working'))
    BY <1>1, <1>4, <1>5, <2>0 DEF Pending, At, Zed, Zero, ZedIn
  <2>2. Taking.pc = Decoded
    BY DEF Taking
  <2>3. CASE Passes(yBit)
    BY <1>2, <2>1, <2>2, <2>3
  <2>4. CASE ~Passes(yBit) /\ MemReady
    BY <1>2, <2>1, <2>4
  <2>5. CASE ~Passes(yBit) /\ ~MemReady
    <3>1. ~Pending /\ ~ex.annul /\ Working' = Working
      BY <1>2, <1>4, <2>5
    <3> QED BY <2>1, <2>5, <3>1 DEF Pending, At, Zed, Zero, ZedIn
  <2> QED BY <2>3, <2>4, <2>5
<1> QED BY <1>7, <1>9, <1>11, <1>13, <1>14

LEMMA OrderStep ==
    ASSUME Base, OrderInv, ItemInv, LinkInv, NEW dAck, NEW yBit, BackMoves(dAck, yBit)
    PROVE  OrderInv'
<1>0. TypeOK /\ HandOver /\ AnnulInv /\ BehindInv /\ BackInv /\ Supported(prog)
  BY DEF Base
<1>1. /\ prog' = prog /\ dAck \in BOOLEAN /\ (dAck => DataAnswer) /\ yBit \in BOOLEAN
      /\ DecodeStep(yBit) /\ ExStep /\ MemStep(dAck) /\ Retire(TurnOut(yBit))
  BY DEF BackMoves
<1>2. /\ Passes(yBit) => Working = Bubble /\ Taking # Bubble
      /\ Working' = IF Passes(yBit) THEN Taking
                    ELSE IF MemReady THEN Bubble ELSE Working
  BY <1>0, <1>1, WorkingMoves
<1>3. \/ memwb.slot = Bubble /\ Older' = Older /\ (MemReady => Working = Bubble)
      \/ MemReady /\ exmem = Bubble /\ Older = memwb.slot /\ Older' = ExOut
  BY <1>0, <1>1, OlderMoves
<1>4. /\ ex'.annul <=> Pending
      /\ Pending => MemReady
      /\ ex.annul => MemReady
  BY <1>0, <1>1, AnnulOutIs DEF ExStep
<1>5. /\ ExOut' = IF Passes(yBit) /\ ~Pending THEN Taking
                  ELSE IF MemReady THEN Bubble ELSE ExOut
      /\ AtExecute' = IF MemReady THEN AtDecode ELSE AtExecute
      /\ Passes(yBit) => ExOut = Bubble /\ AtDecode = AtExecute
  BY PlaceStep
<1>6. Passes(yBit) => /\ Decoded # None
                      /\ Front.pc = Decoded
                      /\ ~Pending => Decoded = AtDecode.pc
  BY DecodedPlace DEF Passes
<1>7. /\ memwb.slot = Bubble => next' = next /\ last' = last
      /\ memwb.slot # Bubble => /\ next' = AfterIn(prog, next, memwb.slot)
                                /\ last' = memwb.slot
                                /\ Older = memwb.slot
  <2>1. memwb.slot = Bubble => next' = next /\ last' = last
    BY <1>1 DEF Retire
  <2>2. memwb.slot # Bubble => /\ next' = FollowIn(prog, next, prog[memwb.slot.pc], ZedIn(prog, memwb.slot))
                               /\ last' = memwb.slot
    BY <1>1, FollowIs DEF Retire, At, Zed, Zero, ZedIn
  <2> QED BY <2>1, <2>2 DEF AfterIn, Older
<1>8. Bubble' = Bubble /\ Taking.pc = Decoded
  BY DEF Bubble, Taking
<1> HIDE DEF Bubble, Taking
<1>9. Sound(prog', next')
  BY <1>0, <1>1, <1>7, Slots, AfterSlot DEF OrderInv
<1>10. Older' # Bubble => Older'.pc = next'.pc
  <2>1. CASE memwb.slot = Bubble /\ Older' = Older
    BY <1>7, <2>1 DEF OrderInv
  <2>2. CASE MemReady /\ exmem = Bubble /\ Older = memwb.slot /\ Older' = ExOut
    <3>1. next' = AtExecute
      BY <1>7, <2>2 DEF AtExecute, AfterIn
    <3> QED BY <2>2, <3>1 DEF OrderInv
  <2> QED BY <1>3, <2>1, <2>2
<1>11. ExOut' # Bubble => ExOut'.pc = AtExecute'.pc
  <2>1. CASE Passes(yBit) /\ ~Pending
    BY <1>5, <1>6, <1>8, <2>1
  <2>2. CASE ~(Passes(yBit) /\ ~Pending)
    BY <1>5, <2>2 DEF OrderInv
  <2> QED BY <2>1, <2>2
<1>12. ex'.annul /\ Working' # Bubble => ~Transfers(prog[Working'.pc]) /\ Turn(prog[Working'.pc]) = "none"
  <2> SUFFICES ASSUME Pending, Working' # Bubble
               PROVE  ~Transfers(prog[Working'.pc]) /\ Turn(prog[Working'.pc]) = "none"
    BY <1>4
  <2>1. Passes(yBit) /\ Working' = Taking
    BY <1>2, <1>4
  <2> QED BY <1>6, <1>8, <2>1 DEF LinkInv
<1>13. last' # Bubble /\ next'.pc \in DOMAIN prog => next'.pc \in Following(prog, last'.pc)
  <2>1. CASE memwb.slot = Bubble
    BY <1>7, <2>1 DEF OrderInv, InProgram
  <2>2. CASE memwb.slot # Bubble
    <3>1. memwb.slot.pc = next.pc /\ Sound(prog, next)
      BY <1>7, <2>2 DEF OrderInv
    <3> QED BY <1>0, <1>7, <2>2, <3>1, Slots, AfterSlot DEF InProgram
  <2> QED BY <2>1, <2>2
<1> QED BY <1>1, <1>8, <1>9, <1>10, <1>11, <1>12, <1>13 DEF OrderInv, At, InProgram

-----------------------------------------------------------------------------
(* One cycle of the front end. *)

FrontMoves(iAck) ==
    /\ iAck \in BOOLEAN /\ (iAck => InstructionAnswer)
    /\ FetchStep(iAck)
    /\ NpcStep
    /\ IfIdStep

(* Fetch goes back to STATEA with a nop, which nobody gets to see.           *)
Drops == /\ fetch.st # "A" /\ fetch'.st = "A" /\ fetch'.item = None
         /\ InProgram(fetch.pc) /\ prog[fetch.pc].op = "nop"

(* The cases of FetchStep, nPC included. *)
LEMMA FetchMoves ==
    ASSUME Base, ItemInv, NEW iAck, FrontMoves(iAck)
    PROVE  /\ \/ /\ fetch.st = "A" /\ npc = fetch.pc
                 /\ fetch'.st = "A" /\ fetch'.item = None /\ fetch'.pc = fetch.pc
              \/ /\ fetch.st = "A" /\ npc # fetch.pc
                 /\ fetch'.st = "B" /\ fetch'.pc = npc /\ fetch'.item = fetch.item
              \/ /\ fetch.st # "A" /\ fetch'.pc = fetch.pc
                 /\ \/ fetch'.st # "A" \/ fetch'.item # None
                    \/ Drops
           /\ npc' = IF MuxSel THEN Tgt ELSE IF fetch.st = "A" THEN npc + 1 ELSE npc
           /\ fetch.st # "A" /\ fetch'.st = "A" => Decoded = None /\ decode.st = "A"
           /\ fetch'.st = "S" => decode.st = "A" /\ Decoded = None /\ fetch.st # "A"
           /\ fetch'.st \in {"C", "S"} =>
                  InProgram(fetch'.pc)
                  /\ fetch'.item = IF prog[fetch'.pc].op = "nop" THEN None ELSE fetch'.pc
           /\ fetch'.st = "A" /\ fetch'.item # None => InProgram(fetch'.pc) /\ fetch'.item = fetch'.pc
           /\ fetch'.item # None => InProgram(fetch'.item) /\ prog[fetch'.item].op # "nop"
           /\ fetch.st = "A" /\ fetch.item # None => Decoded = None /\ decode.st = "A"
<1>0. TypeOK /\ HandOver
  BY DEF Base
<1>1. iAck \in BOOLEAN /\ (iAck => fetch.st = "B" /\ fetch.seen /\ InProgram(fetch.pc))
      /\ FetchStep(iAck) /\ NpcStep
  BY DEF FrontMoves, InstructionAnswer
<1>2. fetch = [st |-> fetch.st, pc |-> fetch.pc, item |-> fetch.item,
               branch |-> fetch.branch, seen |-> fetch.seen]
      /\ fetch.st \in {"A", "B", "C", "S"}
  BY <1>0 DEF HandOver, FormInv
<1>3. decode.st = "A" => Decoded = ifid
  BY DEF Decoded, IdReady
<1>4. ifid # None => \/ fetch.st = "A" /\ fetch.item = None
                     \/ fetch.st = "B" /\ ~fetch.seen
  BY <1>0 DEF HandOver, GivenInv
<1>5. fetch.st \in {"A", "S"} /\ fetch.item # None => decode.st = "A" /\ ifid = None
  BY <1>0 DEF HandOver, ShowInv
<1>6. npc' = IF MuxSel THEN Tgt ELSE IF fetch.st = "A" THEN npc + 1 ELSE npc
  <2>1. CASE MuxSel
    BY <1>1, <2>1 DEF NpcStep, Tgt
  <2>2. CASE ~MuxSel
    BY <1>1, <2>2 DEF NpcStep, IfReady
  <2> QED BY <2>1, <2>2
<1>7. InProgram(fetch.pc) => fetch.pc # None
  BY <1>0, InstructionAt DEF None
<1>8. /\ fetch.st \in {"C", "S"} => InProgram(fetch.pc) /\ fetch.item = Fetched
      /\ fetch.item # None => InProgram(fetch.item) /\ prog[fetch.item].op # "nop"
      /\ fetch.st = "S" => decode.st = "A" /\ ifid = None
  BY DEF ItemInv
<1>9. Fetched = IF prog[fetch.pc].op = "nop" THEN None ELSE fetch.pc
  BY DEF Fetched
<1>10. \A i : /\ Home(i).st \in {"A", "S"} /\ Home(i).item = i /\ Home(i).pc = fetch.pc
  BY <1>2 DEF Home
<1> HIDE DEF None
<1>11. CASE fetch.st = "A" /\ npc = fetch.pc
  <2>1. fetch' = [fetch EXCEPT !.item = None]
    BY <1>1, <1>11 DEF FetchStep
  <2>2. fetch'.st = "A" /\ fetch'.item = None /\ fetch'.pc = fetch.pc
    BY <1>2, <1>11, <2>1
  <2> QED BY <1>3, <1>5, <1>6, <1>11, <2>2
<1>12. CASE fetch.st = "A" /\ npc # fetch.pc
  <2>1. fetch' = [fetch EXCEPT !.st = "B", !.pc = npc, !.seen = FALSE]
    BY <1>1, <1>12 DEF FetchStep
  <2>2. fetch'.st = "B" /\ fetch'.item = fetch.item /\ fetch'.pc = npc
    BY <1>2, <2>1
  <2> QED BY <1>3, <1>5, <1>6, <1>8, <1>12, <2>2
<1>13. CASE fetch.st = "B" /\ ~iAck
  <2>1. fetch' = [fetch EXCEPT !.seen = TRUE]
    BY <1>1, <1>13 DEF FetchStep
  <2>2. fetch'.st = "B" /\ fetch'.item = fetch.item /\ fetch'.pc = fetch.pc
    BY <1>2, <1>13, <2>1
  <2> QED BY <1>6, <1>8, <1>13, <2>2
<1>14. CASE fetch.st = "B" /\ iAck /\ decode.st = "A"
  <2>1. fetch' = Home(Fetched)
    BY <1>1, <1>14 DEF FetchStep, IdReady
  <2>2. fetch'.st \in {"A", "S"} /\ fetch'.item = Fetched /\ fetch'.pc = fetch.pc
    BY <1>10, <2>1
  <2>3. ifid = None /\ Decoded = None /\ InProgram(fetch.pc)
    BY <1>1, <1>3, <1>4, <1>14
  <2> QED BY <1>6, <1>7, <1>9, <1>14, <2>2, <2>3 DEF Drops
<1>15. CASE fetch.st = "B" /\ iAck /\ decode.st # "A"
  <2>1. fetch' = [fetch EXCEPT !.st = "C", !.item = Fetched]
    BY <1>1, <1>15 DEF FetchStep, IdReady
  <2>2. fetch'.st = "C" /\ fetch'.item = Fetched /\ fetch'.pc = fetch.pc
    BY <1>2, <2>1
  <2> QED BY <1>1, <1>6, <1>7, <1>9, <1>15, <2>2
<1>16. CASE fetch.st = "C" /\ decode.st = "A"
  <2>1. fetch' = Home(fetch.item)
    BY <1>1, <1>16 DEF FetchStep, IdReady
  <2>2. fetch'.st \in {"A", "S"} /\ fetch'.item = Fetched /\ fetch'.pc = fetch.pc
    BY <1>8, <1>10, <1>16, <2>1
  <2>3. ifid = None /\ Decoded = None /\ InProgram(fetch.pc)
    BY <1>3, <1>4, <1>8, <1>16
  <2> QED BY <1>6, <1>7, <1>9, <1>16, <2>2, <2>3 DEF Drops
<1>17. CASE fetch.st = "C" /\ decode.st # "A"
  <2>1. fetch' = fetch
    BY <1>1, <1>17 DEF FetchStep, IdReady
  <2> QED BY <1>6, <1>7, <1>8, <1>9, <1>17, <2>1
<1>18. CASE fetch.st = "S"
  <2>1. fetch' = [fetch EXCEPT !.st = "A"]
    BY <1>1, <1>18 DEF FetchStep
  <2>2. fetch'.st = "A" /\ fetch'.item = fetch.item /\ fetch'.pc = fetch.pc
    BY <1>2, <2>1
  <2> QED BY <1>3, <1>6, <1>7, <1>8, <1>9, <1>18, <2>2 DEF Drops
<1> QED BY <1>2, <1>11, <1>12, <1>13, <1>14, <1>15, <1>16, <1>17, <1>18

LEMMA DecodedMoves ==
    ASSUME Base, ItemInv, NEW iAck, FrontMoves(iAck), NEW yBit \in BOOLEAN, DecodeStep(yBit)
    PROVE  /\ Decoded' = IF Passes(yBit) THEN None
                         ELSE IF Decoded # None THEN Decoded
                         ELSE IF fetch.st = "A" THEN fetch.item ELSE None
           /\ Passes(yBit) => Decoded # None
           /\ decode'.item = Decoded
           /\ decode'.st # "A" => Decoded # None
           /\ ifid' \in {None, fetch.item}
           /\ Decoded = None /\ fetch.st # "A" => decode'.st = "A" /\ ifid' = None
<1>0. TypeOK /\ HandOver
  BY DEF Base
<1>1. IfIdStep
  BY DEF FrontMoves
<1>2. decode.st \in {"A", "B", "S"}
  BY <1>0 DEF TypeOK
<1>3. decode' = [st   |-> CASE Decoded = None -> "A"
                            [] Stalls(yBit)   -> "S"
                            [] Passes(yBit)   -> "A"
                            [] OTHER          -> "B",
                 item |-> Decoded]
  BY DEF DecodeStep
<1>4. /\ Passes(yBit) => Decoded # None /\ ~Stalls(yBit)
      /\ Stalls(yBit) => Decoded # None
  BY DEF Passes, Stalls
<1>5. /\ decode'.item = Decoded
      /\ decode'.st = IF Decoded = None \/ Passes(yBit) THEN "A" ELSE IF Stalls(yBit) THEN "S" ELSE "B"
  BY <1>3, <1>4
<1>6. ifid' = IF decode.st # "A" THEN ifid ELSE IF fetch.st = "A" THEN fetch.item ELSE None
  BY <1>1 DEF IfIdStep, IdReady, IfReady
<1>7. Decoded = IF decode.st = "A" THEN ifid ELSE decode.item
  BY DEF Decoded, IdReady
<1>8. Decoded' = IF decode'.st = "A" THEN ifid' ELSE decode'.item
  BY DEF Decoded, IdReady
<1>9. /\ decode.st # "A" => ifid = None /\ decode.item # None
      /\ ifid # None => (fetch.st = "A" /\ fetch.item = None) \/ fetch.st = "B"
  BY <1>0 DEF ItemInv, HandOver, BusyInv, GivenInv
<1>10. Decoded # None => ifid' = None
  BY <1>6, <1>7, <1>9
<1> HIDE DEF None
<1>11. CASE Decoded # None
  BY <1>4, <1>5, <1>6, <1>8, <1>9, <1>10, <1>11
<1>12. CASE Decoded = None
  BY <1>4, <1>5, <1>6, <1>7, <1>8, <1>9, <1>12
<1> QED BY <1>11, <1>12

LEMMA ItemStep ==
    ASSUME Base, ItemInv, prog' = prog, NEW iAck, FrontMoves(iAck),
           NEW yBit \in BOOLEAN, DecodeStep(yBit)
    PROVE  ItemInv'
<1>1. /\ fetch'.st = "S" => decode.st = "A" /\ Decoded = None /\ fetch.st # "A"
      /\ fetch'.st \in {"C", "S"} =>
             InProgram(fetch'.pc)
             /\ fetch'.item = IF prog[fetch'.pc].op = "nop" THEN None ELSE fetch'.pc
      /\ fetch'.st = "A" /\ fetch'.item # None => InProgram(fetch'.pc) /\ fetch'.item = fetch'.pc
      /\ fetch'.item # None => InProgram(fetch'.item) /\ prog[fetch'.item].op # "nop"
  BY FetchMoves
<1>2. /\ decode'.item = Decoded
      /\ decode'.st # "A" => Decoded # None
      /\ ifid' \in {None, fetch.item}
      /\ Decoded = None /\ fetch.st # "A" => decode'.st = "A" /\ ifid' = None
  BY DecodedMoves
<1>3. \A a \in {fetch.item, ifid, decode.item} : a # None => InProgram(a) /\ prog[a].op # "nop"
  BY DEF ItemInv
<1>4. Decoded \in {ifid, decode.item}
  BY DEF Decoded
<1>5. None' = None
  BY DEF None
<1>6. \A a \in {fetch'.item, ifid', decode'.item} : a # None => InProgram(a) /\ prog[a].op # "nop"
  BY <1>1, <1>2, <1>3, <1>4
<1> HIDE DEF None
<1> QED BY <1>1, <1>2, <1>5, <1>6 DEF ItemInv, InProgram, Fetched

(* A branch is decided in the cycle in which it reaches execute. *)
LEMMA MuxMoves ==
    ASSUME Base, OrderInv, ItemInv, LinkInv, NEW dAck, NEW yBit, BackMoves(dAck, yBit)
    PROVE  /\ Passes(yBit) => /\ ~MuxSel
                              /\ MuxSel' <=> ~Pending /\ Taken(prog[Decoded], ZedIn(prog, Taking))
                              /\ MuxSel' => Tgt' = prog[Decoded].target
           /\ ~Passes(yBit) => (MuxSel' => MuxSel /\ Tgt' = Tgt)
<1>0. TypeOK /\ HandOver /\ AnnulInv /\ BehindInv /\ BackInv /\ Supported(prog)
  BY DEF Base
<1>1. prog' = prog /\ yBit \in BOOLEAN /\ DecodeStep(yBit) /\ ExStep
  BY DEF BackMoves
<1>2. Passes(yBit) => Taking # Bubble
  BY <1>0, <1>1, WorkingMoves
<1>3. /\ ExOut' = IF Passes(yBit) /\ ~Pending THEN Taking
                  ELSE IF MemReady THEN Bubble ELSE ExOut
      /\ Passes(yBit) => ExOut = Bubble
  BY PlaceStep
<1>4. MuxSel' <=> ExOut' # Bubble /\ Taken(prog[ExOut'.pc], ZedIn(prog, ExOut'))
  BY <1>1 DEF MuxSel, At, Zed, Zero, ZedIn, Bubble
<1>5. MuxSel <=> ExOut # Bubble /\ Taken(prog[ExOut.pc], ZedIn(prog, ExOut))
  BY DEF MuxSel, At, Zed, Zero, ZedIn, Bubble
<1>6. Tgt' = prog[ExOut'.pc].target /\ Tgt = prog[ExOut.pc].target
  BY <1>1 DEF Tgt, At
<1>7. Taking.pc = Decoded
  BY DEF Taking
<1> HIDE DEF Bubble, Taking
<1> QED BY <1>2, <1>3, <1>4, <1>5, <1>6, <1>7

(* When decode keeps what it has, or has nothing, the front end stays where  *)
(* it is, except to pass a nop.                                              *)
LEMMA FrontWaits ==
    ASSUME Base, OrderInv, ItemInv, LinkInv, AimInv, NEW iAck, FrontMoves(iAck),
           NEW dAck, NEW yBit, BackMoves(dAck, yBit), ~Passes(yBit)
    PROVE  /\ \/ Front' = Front /\ ~Drops
              \/ Drops /\ Front.pc = fetch.pc /\ Front' = Pass(Front)
           /\ AimInv'
<1>0. npc \in Nat /\ fetch.pc \in Nat /\ None = 0
  BY DEF Base, TypeOK, None
<1>1. /\ \/ /\ fetch.st = "A" /\ npc = fetch.pc
            /\ fetch'.st = "A" /\ fetch'.item = None /\ fetch'.pc = fetch.pc
         \/ /\ fetch.st = "A" /\ npc # fetch.pc
            /\ fetch'.st = "B" /\ fetch'.pc = npc /\ fetch'.item = fetch.item
         \/ /\ fetch.st # "A" /\ fetch'.pc = fetch.pc
            /\ \/ fetch'.st # "A" \/ fetch'.item # None
               \/ Drops
      /\ npc' = IF MuxSel THEN Tgt ELSE IF fetch.st = "A" THEN npc + 1 ELSE npc
      /\ fetch.st # "A" /\ fetch'.st = "A" => Decoded = None
      /\ fetch.st = "A" /\ fetch.item # None => Decoded = None
  BY FetchMoves
<1>2. Decoded' = IF Decoded # None THEN Decoded
                 ELSE IF fetch.st = "A" THEN fetch.item ELSE None
  BY DecodedMoves DEF BackMoves
<1>3. MuxSel' => MuxSel /\ Tgt' = Tgt
  BY MuxMoves
<1>4. fetch.st = "A" /\ fetch.item # None => fetch.item = fetch.pc
  BY DEF ItemInv
<1>5. None' = None
  BY DEF None
<1>d. fetch.st = "A" \/ fetch'.st # "A" \/ fetch'.item # None => ~Drops
  BY DEF Drops
<1> HIDE DEF None
<1> USE DEF Holding, Wanted, FetchPc, FetchNpc
<1>6. CASE fetch.st = "A" /\ npc = fetch.pc
  <2>1. fetch'.st = "A" /\ fetch'.item = None /\ fetch'.pc = fetch.pc
        /\ npc' = IF MuxSel THEN Tgt ELSE npc + 1
    BY <1>1, <1>6
  <2>2. ~Holding'
    BY <1>5, <2>1
  <2>3. FetchPc' = fetch.pc + 1
    BY <1>0, <1>6, <2>1, <2>2 DEF AimInv
  <2>4. FetchNpc' = FetchPc' + 1
    BY <1>0, <1>3, <1>6, <2>1, <2>2, <2>3 DEF AimInv
  <2>5. AimInv'
    BY <1>0, <1>3, <1>6, <2>1, <2>2, <2>4 DEF AimInv
  <2>6. CASE fetch.item = None
    <3>1. FetchPc = fetch.pc + 1 /\ FetchNpc = FetchPc + 1
      BY <1>0, <1>6, <2>6 DEF AimInv
    <3>2. Decoded' = Decoded
      BY <1>2, <1>6, <2>6
    <3> QED BY <1>d, <1>6, <1>5, <2>3, <2>4, <2>5, <3>1, <3>2 DEF Front
  <2>7. CASE fetch.item # None
    <3>1. FetchPc = fetch.pc /\ FetchNpc = fetch.pc + 1 /\ Decoded = None /\ Decoded' = fetch.pc
      BY <1>0, <1>1, <1>2, <1>4, <1>6, <2>7 DEF AimInv
    <3>2. Decoded' # None
      BY <1>2, <1>6, <2>7, <3>1
    <3> QED BY <1>d, <1>6, <1>5, <2>3, <2>4, <2>5, <3>1, <3>2 DEF Front
  <2> QED BY <2>6, <2>7
<1>7. CASE fetch.st = "A" /\ npc # fetch.pc
  <2>1. fetch'.st = "B" /\ fetch'.pc = npc
        /\ npc' = IF MuxSel THEN Tgt ELSE npc + 1
    BY <1>1, <1>7
  <2>2. Holding' /\ FetchPc' = npc
    BY <2>1
  <2>3. Wanted' = IF MuxSel THEN Tgt ELSE npc + 1
    BY <1>3, <2>1
  <2>4. FetchNpc' = IF MuxSel /\ npc # Tgt THEN Tgt ELSE npc + 1
    BY <1>0, <2>1, <2>2, <2>3
  <2>5. CASE fetch.item = None
    <3>1. FetchPc = npc /\ FetchNpc = IF MuxSel /\ npc # Tgt THEN Tgt ELSE npc + 1
      BY <1>7, <2>5
    <3>2. Decoded' = Decoded
      BY <1>2, <1>7, <2>5
    <3>3. AimInv'
      BY <1>5, <2>1, <2>2, <2>4, <3>1, <3>2 DEF AimInv
    <3> QED BY <1>d, <1>7, <1>5, <2>2, <2>4, <3>1, <3>2, <3>3 DEF Front
  <2>6. CASE fetch.item # None
    <3>1. FetchPc = fetch.pc /\ FetchNpc = npc /\ Decoded = None /\ Decoded' = fetch.pc
          /\ Wanted = npc
      BY <1>1, <1>2, <1>4, <1>7, <2>6 DEF AimInv
    <3>2. Decoded' # None
      BY <1>2, <1>7, <2>6, <3>1
    <3>3. FetchNpc' = FetchPc' + 1
      BY <2>2, <2>4, <3>1
    <3>4. AimInv'
      BY <1>5, <2>1, <2>2, <3>3 DEF AimInv
    <3> QED BY <1>d, <1>7, <1>5, <2>2, <3>1, <3>2, <3>4 DEF Front
  <2> QED BY <2>5, <2>6
<1>8. CASE fetch.st # "A" /\ (fetch'.st # "A" \/ fetch'.item # None)
  <2>1. fetch'.pc = fetch.pc /\ npc' = IF MuxSel THEN Tgt ELSE npc
    BY <1>1, <1>8
  <2>2. Holding /\ Holding' /\ Wanted' = Wanted /\ npc' = Wanted
    BY <1>3, <1>5, <1>8, <2>1
  <2>3. FetchPc' = FetchPc /\ FetchNpc' = FetchNpc
    BY <2>1, <2>2
  <2>4. Decoded' = Decoded
    BY <1>2, <1>8
  <2>5. AimInv'
    BY <1>5, <2>2, <2>3, <2>4 DEF AimInv
  <2> QED BY <1>d, <1>8, <1>5, <2>3, <2>4, <2>5 DEF Front
<1>9. CASE fetch.st # "A" /\ Drops /\ fetch'.pc = fetch.pc
  <2>1. fetch'.pc = fetch.pc /\ npc' = (IF MuxSel THEN Tgt ELSE npc) /\ ~Holding'
    BY <1>1, <1>5, <1>9 DEF Drops
  <2>2. Holding /\ npc' = Wanted
    BY <1>9, <2>1
  <2>3. Decoded = None /\ Decoded' = None
    BY <1>1, <1>2, <1>9 DEF Drops
  <2>4. Front = [pc |-> fetch.pc, npc |-> FetchNpc]
    BY <2>2, <2>3 DEF Front
  <2>5. FetchPc' = FetchNpc
    BY <2>1, <2>2
  <2>6. FetchNpc' = FetchPc' + 1
    BY <1>3, <2>1
  <2>7. Front' = Pass(Front)
    BY <1>5, <2>3, <2>4, <2>5, <2>6 DEF Front, Pass
  <2>8. AimInv'
    BY <1>3, <1>5, <2>1, <2>3 DEF AimInv
  <2> QED BY <1>9, <2>4, <2>7, <2>8
<1> QED BY <1>1, <1>6, <1>7, <1>8, <1>9

(* When an instruction passes on to execute, fetch is behind it; a branch    *)
(* turns it towards the target.                                              *)
LEMMA FrontPasses ==
    ASSUME Base, OrderInv, ItemInv, LinkInv, AimInv, NEW iAck, FrontMoves(iAck),
           NEW dAck, NEW yBit, BackMoves(dAck, yBit), Passes(yBit)
    PROVE  /\ Front = [pc |-> Decoded, npc |-> FetchPc]
           /\ Front' = [pc  |-> FetchPc,
                        npc |-> IF ~Pending /\ Taken(prog[Decoded], ZedIn(prog, Taking))
                                THEN prog[Decoded].target ELSE FetchPc + 1]
           /\ AimInv'
<1> DEFINE turns == ~Pending /\ Taken(prog[Decoded], ZedIn(prog, Taking))
           target == prog[Decoded].target
<1>0. npc \in Nat /\ fetch.pc \in Nat /\ None = 0
  BY DEF Base, TypeOK, None
<1>1. /\ \/ /\ fetch.st = "A" /\ npc = fetch.pc
            /\ fetch'.st = "A" /\ fetch'.item = None /\ fetch'.pc = fetch.pc
         \/ /\ fetch.st = "A" /\ npc # fetch.pc
            /\ fetch'.st = "B" /\ fetch'.pc = npc /\ fetch'.item = fetch.item
         \/ /\ fetch.st # "A" /\ fetch'.pc = fetch.pc
            /\ \/ fetch'.st # "A" \/ fetch'.item # None
               \/ Drops
      /\ npc' = IF MuxSel THEN Tgt ELSE IF fetch.st = "A" THEN npc + 1 ELSE npc
      /\ fetch.st # "A" /\ fetch'.st = "A" => Decoded = None
      /\ fetch.st = "A" /\ fetch.item # None => Decoded = None
  BY FetchMoves
<1>2. Decoded' = None /\ Decoded # None
  BY DecodedMoves DEF BackMoves
<1>3. ~MuxSel /\ (MuxSel' <=> turns) /\ (MuxSel' => Tgt' = target)
  BY MuxMoves
<1>4. Front = [pc |-> Decoded, npc |-> FetchPc] /\ InProgram(Decoded)
      /\ (~Pending => Front = AtDecode)
  BY <1>2, DecodedPlace
<1>5. turns => target # FetchPc
  <2>1. turns => Transfers(prog[Decoded])
    BY DEF Taken, Transfers
  <2>2. Sound(prog, Front) /\ Front.pc = Decoded /\ Front.npc = FetchPc
    BY <1>4 DEF LinkInv
  <2>3. prog \in Programs /\ Supported(prog)
    BY DEF Base, TypeOK
  <2> QED BY <1>4, <2>1, <2>2, <2>3, TransferSound DEF InProgram
<1>6. None' = None
  BY DEF None
<1>7. FetchNpc = FetchPc + 1
  BY <1>2 DEF AimInv
<1> HIDE DEF None, turns, target
<1> USE DEF Holding, Wanted, FetchPc, FetchNpc
<1>8. FetchPc' = FetchPc /\ FetchNpc' = (IF turns THEN target ELSE FetchPc + 1) /\ AimInv'
  <2>1. CASE fetch.st = "A" /\ npc = fetch.pc
    <3>1. fetch'.st = "A" /\ fetch'.item = None /\ fetch'.pc = fetch.pc /\ npc' = npc + 1
          /\ fetch.item = None
      BY <1>1, <1>2, <1>3, <2>1
    <3>2. ~Holding' /\ FetchPc' = fetch.pc + 1 /\ FetchPc = fetch.pc + 1
      BY <1>0, <1>6, <2>1, <3>1
    <3>3. FetchNpc' = IF turns THEN target ELSE FetchPc + 1
      BY <1>0, <1>3, <1>5, <2>1, <3>1, <3>2
    <3> QED BY <1>0, <1>2, <1>6, <2>1, <3>1, <3>2, <3>3 DEF AimInv
  <2>2. CASE fetch.st = "A" /\ npc # fetch.pc
    <3>1. fetch'.st = "B" /\ fetch'.pc = npc /\ npc' = npc + 1 /\ fetch.item = None
      BY <1>1, <1>2, <1>3, <2>2
    <3>2. Holding' /\ FetchPc' = npc /\ FetchPc = npc
      BY <2>2, <3>1
    <3>3. FetchNpc' = IF turns THEN target ELSE FetchPc + 1
      BY <1>0, <1>3, <1>5, <3>1, <3>2
    <3> QED BY <1>2, <1>6, <3>1, <3>2, <3>3 DEF AimInv
  <2>3. CASE fetch.st # "A"
    <3>1. fetch'.st # "A" /\ fetch'.pc = fetch.pc /\ npc' = npc
      BY <1>1, <1>2, <1>3, <2>3
    <3>2. Holding /\ Holding' /\ FetchPc' = fetch.pc /\ FetchPc = fetch.pc
      BY <2>3, <3>1
    <3>3. FetchNpc' = IF turns THEN target ELSE FetchPc + 1
      BY <1>0, <1>3, <1>5, <1>7, <3>1, <3>2
    <3> QED BY <1>2, <1>6, <3>1, <3>2, <3>3 DEF AimInv
  <2> QED BY <2>1, <2>2, <2>3
<1>9. Front' = [pc |-> FetchPc, npc |-> IF turns THEN target ELSE FetchPc + 1]
  BY <1>2, <1>6, <1>8 DEF Front
<1> QED BY <1>4, <1>8, <1>9 DEF turns, target

LEMMA LinkStep ==
    ASSUME Base, OrderInv, ItemInv, LinkInv, AimInv, NEW iAck, FrontMoves(iAck),
           NEW dAck, NEW yBit, BackMoves(dAck, yBit)
    PROVE  LinkInv'
<1>1. prog' = prog /\ prog \in Programs /\ Supported(prog)
  BY DEF BackMoves, Base, TypeOK
<1>2. /\ AtDecode' = IF Passes(yBit) /\ ~Pending THEN AfterIn(prog, AtDecode, Taking)
                     ELSE AtDecode
      /\ Pending' <=> IF Passes(yBit)
                      THEN ~Pending /\ Annuls(prog[Decoded], ZedIn(prog, Taking))
                      ELSE Pending
  BY PlaceStep
<1> DEFINE Linked(r, at, pend) ==
               /\ Sound(prog, r)
               /\ ~pend => SettledIn(prog, r) = at
               /\ pend => /\ SettledIn(prog, Pass(r)) = at
                          /\ r.pc \in DOMAIN prog
                          /\ ~AtNop(prog, r)
                          /\ ~Transfers(prog[r.pc])
                          /\ Turn(prog[r.pc]) = "none"
<1>3. Linked(Front, AtDecode, Pending)
  BY DEF LinkInv, InProgram
<1>4. LinkInv' <=> Linked(Front', AtDecode', Pending')
  BY <1>1 DEF LinkInv, InProgram
<1>5. CASE ~Passes(yBit)
  <2>1. \/ Front' = Front
        \/ Drops /\ Front.pc = fetch.pc /\ Front' = Pass(Front)
    BY <1>5, FrontWaits
  <2>2. AtDecode' = AtDecode /\ (Pending' <=> Pending)
    BY <1>2, <1>5
  <2>3. CASE Front' = Front
    BY <1>3, <1>4, <2>2, <2>3
  <2>4. CASE Drops /\ Front.pc = fetch.pc /\ Front' = Pass(Front)
    <3>1. AtNop(prog, Front) /\ Front \in Point
      BY <1>3, <2>4 DEF Drops, AtNop, NopAt, InProgram, Sound
    <3>2. ~Pending
      BY <1>3, <3>1
    <3>3. SettledIn(prog, Pass(Front)) = SettledIn(prog, Front)
      BY <1>1, <3>1, SettledPasses
    <3>4. Sound(prog, Pass(Front))
      BY <3>1, PassPoint DEF Sound, Pass
    <3> QED BY <1>3, <1>4, <2>2, <2>4, <3>2, <3>3, <3>4
  <2> QED BY <2>1, <2>3, <2>4
<1>6. CASE Passes(yBit)
  <2> DEFINE i == prog[Decoded]
             z == ZedIn(prog, Taking)
  <2>1. /\ Front = [pc |-> Decoded, npc |-> FetchPc]
        /\ Front' = [pc  |-> FetchPc,
                     npc |-> IF ~Pending /\ Taken(i, z) THEN i.target ELSE FetchPc + 1]
    BY <1>6, FrontPasses
  <2>2. Decoded # None /\ InProgram(Decoded) /\ (~Pending => Front = AtDecode)
    <3>1. Decoded # None
      BY <1>6 DEF Passes
    <3> QED BY <3>1, DecodedPlace
  <2>3. CASE Pending
    <3>1. Front' = Pass(Front)
      BY <2>1, <2>3 DEF Pass
    <3>2. Sound(prog, Pass(Front))
      BY <1>3, PassPoint DEF Sound, Pass
    <3> QED BY <1>2, <1>3, <1>4, <1>6, <2>3, <3>1, <3>2
  <2>4. CASE ~Pending
    <3>1. Front' = Branching(Front, i, z)
      BY <2>1, <2>4 DEF Branching
    <3>2. AtDecode' = FollowIn(prog, Front, i, z)
      <4>1. Taking.pc = Decoded /\ Taking # Bubble
        BY <2>2 DEF Taking, Bubble
      <4> HIDE DEF Bubble
      <4> QED BY <1>2, <1>6, <2>2, <2>4, <4>1 DEF AfterIn
    <3>3. Sound(prog, Front) /\ Front.pc = Decoded /\ Decoded \in DOMAIN prog /\ Front.npc = FetchPc
      BY <1>3, <2>1, <2>2 DEF InProgram
    <3>4. Sound(prog, Front')
      BY <1>1, <3>1, <3>3, BranchSound
    <3>5. CASE ~Annuls(i, z)
      BY <1>2, <1>4, <1>6, <2>4, <3>1, <3>2, <3>4, <3>5 DEF FollowIn
    <3>6. CASE Annuls(i, z)
      <4>1. Transfers(i) /\ i.annul
        BY <3>6 DEF Annuls, Branch, Transfers
      <4>2. /\ FetchPc = Decoded + 1
            /\ FetchPc \in DOMAIN prog
            /\ ~Transfers(prog[FetchPc])
        BY <1>1, <3>3, <4>1, TransferSound
      <4>3. prog[FetchPc].op # "nop" /\ Turn(prog[FetchPc]) = "none"
        BY <1>1, <3>3, <4>1, <4>2 DEF Supported
      <4>4. Front'.pc = FetchPc
        BY <2>1
      <4> QED BY <1>2, <1>4, <1>6, <2>4, <3>1, <3>2, <3>4, <3>6, <4>2, <4>3, <4>4 DEF FollowIn, AtNop, NopAt
    <3> QED BY <3>5, <3>6
  <2> QED BY <2>3, <2>4
<1> QED BY <1>5, <1>6

-----------------------------------------------------------------------------
(* The register window, and the distance between window instructions and     *)
(* loads and stores.                                                         *)

TurnIn(p, s) == IF s = Bubble THEN "none" ELSE Turn(p[s.pc])

(* Decode has turned the window for every instruction that has left it.      *)
WindowInv == cwp = Turned(Turned(acwp, TurnIn(prog, Older)), TurnIn(prog, Working))

(* Instructions follow one another in neighbouring stages only where a load  *)
(* or store has held them up.                                                *)
SpaceInv ==
    /\ memwb.slot # Bubble /\ Working # Bubble => Accesses(memwb.slot) \/ Accesses(last)
    /\ exmem # Bubble /\ Decoded # None => Accesses(last)
    /\ idex # Bubble => ~(fetch.st \in {"A", "S"} /\ fetch.item # None)

LEMMA WindowStep ==
    ASSUME Base, OrderInv, WindowInv, NEW dAck, NEW yBit, BackMoves(dAck, yBit)
    PROVE  WindowInv'
<1>0. TypeOK /\ HandOver /\ AnnulInv /\ BehindInv /\ BackInv /\ Supported(prog)
  BY DEF Base
<1>1. /\ prog' = prog /\ dAck \in BOOLEAN /\ (dAck => DataAnswer) /\ yBit \in BOOLEAN
      /\ DecodeStep(yBit) /\ ExStep /\ MemStep(dAck) /\ Retire(TurnOut(yBit))
  BY DEF BackMoves
<1>2. /\ Passes(yBit) => Working = Bubble /\ Taking # Bubble
      /\ Working' = IF Passes(yBit) THEN Taking
                    ELSE IF MemReady THEN Bubble ELSE Working
  BY <1>0, <1>1, WorkingMoves
<1>3. \/ memwb.slot = Bubble /\ Older' = Older /\ (MemReady => Working = Bubble)
      \/ MemReady /\ exmem = Bubble /\ Older = memwb.slot /\ Older' = ExOut
  BY <1>0, <1>1, OlderMoves
<1> DEFINE T(s) == TurnIn(prog, s)
<1>4. \A w : Turned(w, "none") = w
  BY DEF Turned
<1>5. T(Bubble) = "none" /\ T(ExOut) = T(Working)
  <2>1. T(Bubble) = "none"
    BY DEF TurnIn
  <2>2. CASE ex.annul /\ Working # Bubble
    <3>1. Turn(prog[Working.pc]) = "none"
      BY <2>2 DEF OrderInv, At
    <3> QED BY <2>1, <2>2, <3>1 DEF ExOut, TurnIn
  <2>3. CASE ~(ex.annul /\ Working # Bubble)
    <3>1. ExOut = Working
      BY <2>3 DEF ExOut
    <3> QED BY <2>1, <3>1
  <2> QED BY <2>1, <2>2, <2>3
<1>6. cwp' = Turned(cwp, IF Passes(yBit) THEN T(Taking) ELSE "none")
  <2>1. cwp' = Turned(cwp, TurnOut(yBit))
    BY <1>1 DEF Retire, Write
  <2>2. Passes(yBit) => T(Taking) = Turn(prog[Decoded])
    <3>1. Taking.pc = Decoded
      BY DEF Taking
    <3> HIDE DEF Taking
    <3> QED BY <1>2, <3>1 DEF TurnIn
  <2> QED BY <2>1, <2>2 DEF TurnOut
<1>7. acwp' = Turned(acwp, T(memwb.slot))
  BY <1>1, <1>4 DEF Retire, TurnIn, At
<1>8. cwp = Turned(Turned(acwp, T(Older)), T(Working))
  BY DEF WindowInv
<1>9. WindowInv' <=> cwp' = Turned(Turned(acwp', T(Older')), T(Working'))
  BY <1>1 DEF WindowInv
<1> HIDE DEF T, Bubble, Taking
<1>10. CASE memwb.slot = Bubble /\ Older' = Older /\ (MemReady => Working = Bubble)
  BY <1>2, <1>4, <1>5, <1>6, <1>7, <1>8, <1>9, <1>10
<1>11. CASE MemReady /\ exmem = Bubble /\ Older = memwb.slot /\ Older' = ExOut
  <2>1. acwp' = Turned(acwp, T(Older)) /\ T(Older') = T(Working)
    BY <1>5, <1>7, <1>11
  <2>2. CASE Passes(yBit)
    BY <1>2, <1>4, <1>5, <1>6, <1>8, <1>9, <2>1, <2>2
  <2>3. CASE ~Passes(yBit)
    <3>1. Working' = Bubble
      BY <1>2, <1>11, <2>3
    <3> QED BY <1>4, <1>5, <1>6, <1>8, <1>9, <2>1, <2>3, <3>1
  <2> QED BY <2>2, <2>3
<1> QED BY <1>3, <1>10, <1>11

LEMMA SpaceStep ==
    ASSUME Base, OrderInv, ItemInv, LinkInv, SpaceInv, NEW iAck, FrontMoves(iAck),
           NEW dAck, NEW yBit, BackMoves(dAck, yBit)
    PROVE  SpaceInv'
<1>0. TypeOK /\ HandOver /\ AnnulInv /\ BehindInv /\ BackInv /\ Supported(prog)
  BY DEF Base
<1>1. /\ prog' = prog /\ dAck \in BOOLEAN /\ (dAck => DataAnswer) /\ yBit \in BOOLEAN
      /\ DecodeStep(yBit) /\ ExStep /\ MemStep(dAck) /\ Retire(TurnOut(yBit))
  BY DEF BackMoves
<1>2. /\ ExReady <=> ex.st = "A"
      /\ Passes(yBit) => Working = Bubble
      /\ Working' = IF Passes(yBit) THEN Taking
                    ELSE IF MemReady THEN Bubble ELSE Working
  BY <1>0, <1>1, WorkingMoves
<1>3. /\ memwb'.slot # Bubble => /\ memwb'.slot = Older /\ memwb.slot = Bubble
                                 /\ Accesses(memwb'.slot) \/ memwb'.slot = exmem
      /\ exmem' # Bubble => MemReady /\ exmem' = ExOut
  BY <1>0, <1>1, OlderMoves
<1>4. /\ Decoded' = IF Passes(yBit) THEN None
                    ELSE IF Decoded # None THEN Decoded
                    ELSE IF fetch.st = "A" THEN fetch.item ELSE None
      /\ Passes(yBit) => Decoded # None
  BY <1>1, DecodedMoves
<1>5. /\ memwb.slot = Bubble => last' = last
      /\ memwb.slot # Bubble => last' = memwb.slot
  BY <1>1 DEF Retire
<1>6. Bubble' = Bubble /\ None' = None /\ mem.st \in {"A", "B"} /\ ex.st \in {"A", "B"}
  BY <1>0 DEF Bubble, None, TypeOK
<1> DEFINE Acc(s) == s # Bubble /\ MemoryOp(prog[s.pc])
<1>7. \A s : Accesses(s) <=> Acc(s)
  BY DEF Accesses, At
<1>8. memwb'.slot # Bubble /\ Working' # Bubble => Acc(memwb'.slot) \/ Acc(last')
  <2> SUFFICES ASSUME memwb'.slot # Bubble, Working' # Bubble, ~Acc(memwb'.slot) PROVE Acc(last')
    OBVIOUS
  <2>1. memwb.slot = Bubble /\ memwb'.slot = exmem /\ last' = last
    BY <1>3, <1>5, <1>7
  <2>2. MemReady
    <3>1. mem.st # "B"
      BY <1>0, <2>1 DEF BackInv
    <3> QED BY <1>6, <3>1 DEF MemReady
  <2>3. Passes(yBit)
    BY <1>2, <2>2
  <2> QED BY <1>4, <1>7, <2>1, <2>3 DEF SpaceInv
<1>9. exmem' # Bubble /\ Decoded' # None => Acc(last')
  <2> SUFFICES ASSUME exmem' # Bubble, Decoded' # None PROVE Acc(last')
    OBVIOUS
  <2>1. MemReady /\ ExOut # Bubble
    BY <1>3
  <2>2. Working # Bubble /\ exmem = Bubble
    BY <1>0, <2>1 DEF ExOut, BackInv
  <2>3. ~Passes(yBit)
    BY <1>2, <2>2
  <2>4. CASE ex.st = "B"
    <3>1. Accesses(Older)
      BY <1>0, <2>4 DEF BackInv
    <3>2. Older = memwb.slot /\ Older # Bubble
      BY <1>7, <2>1, <2>2, <3>1 DEF MemReady, Older
    <3> QED BY <1>5, <1>7, <3>1, <3>2
  <2>5. CASE ex.st = "A"
    <3>1. idex # Bubble
      BY <2>2, <2>5 DEF Working
    <3>2. Decoded = None
      BY <1>0, <3>1 DEF BehindInv, Decoded, IdReady
    <3>3. fetch.st = "A" /\ fetch.item # None
      BY <1>4, <2>3, <3>2
    <3> QED BY <3>1, <3>3 DEF SpaceInv
  <2> QED BY <1>6, <2>4, <2>5
<1>10. idex' # Bubble => ~(fetch'.st \in {"A", "S"} /\ fetch'.item # None)
  <2>1. idex' # Bubble => Passes(yBit)
    <3>1. idex' = CASE ~ExReady     -> idex
                    [] Passes(yBit) -> Taking
                    [] OTHER        -> Bubble
      BY <1>1 DEF DecodeStep, Taking
    <3>2. ~ExReady => idex = Bubble
      BY <1>0, <1>2, <1>6 DEF BehindInv, NothingBehindWaiting
    <3>3. ~ExReady => idex' = idex
      BY <3>1 DEF Passes
    <3>4. ExReady /\ ~Passes(yBit) => idex' = Bubble
      BY <3>1
    <3> QED BY <3>2, <3>3, <3>4
  <2>2. /\ fetch.st # "A" /\ fetch'.st = "A" => Decoded = None
        /\ fetch'.st = "S" => Decoded = None
        /\ fetch.st = "A" => fetch'.st = "B" \/ fetch'.item = None
    BY FetchMoves
  <2> QED BY <1>4, <2>1, <2>2
<1> HIDE DEF Bubble, None
<1>11. \A s : Accesses(s) <=> Acc(s)
  BY <1>7
<1> QED BY <1>1, <1>6, <1>8, <1>9, <1>10 DEF SpaceInv, Accesses, At

LEMMA WindowKept ==
    ASSUME Base, OrderInv, WindowInv, SpaceInv
    PROVE  WindowInOrder
<1>0. TypeOK /\ BackInv /\ Supported(prog)
  BY DEF Base
<1> SUFFICES ASSUME memwb.slot # Bubble
             PROVE  cwp = Turned(acwp, Turn(At(memwb.slot)))
  BY DEF WindowInOrder
<1>1. Older = memwb.slot /\ TurnIn(prog, Older) = Turn(At(memwb.slot))
  BY DEF Older, TurnIn, At
<1>2. \A w : Turned(w, "none") = w
  BY DEF Turned
<1>3. TurnIn(prog, Working) = "none"
  <2>1. CASE Working = Bubble
    BY <2>1 DEF TurnIn
  <2>2. CASE Working # Bubble /\ ex.annul
    BY <2>2 DEF OrderInv, TurnIn, At
  <2>3. CASE Working # Bubble /\ ~ex.annul
    <3>1. ExOut = Working /\ ExOut # Bubble /\ TurnIn(prog, Working) = Turn(At(ExOut))
      BY <2>3 DEF ExOut, TurnIn, At
    <3>2. CASE Accesses(memwb.slot)
      BY <1>0, <1>1, <3>1, <3>2, NotBehindAccess
    <3>3. CASE Accesses(last)
      <4>1. Older.pc = next.pc /\ Sound(prog, next) /\ ExOut.pc = AtExecute.pc
            /\ (InProgram(next.pc) => next.pc \in Following(prog, last.pc))
        BY <1>1, <3>1, <3>3 DEF OrderInv, Accesses
      <4>2. InProgram(next.pc) /\ InProgram(ExOut.pc) /\ InProgram(last.pc)
        BY <1>0, <1>1, <3>1, <3>3, <4>1, Slots, SlotAt DEF Accesses
      <4>3. ExOut.pc \in Following(prog, next.pc)
        BY <1>0, <1>1, <4>1, <4>2, Slots, AfterSlot DEF AtExecute
      <4>4. ExOut.pc \in Nearby(prog, last.pc)
        BY <4>1, <4>2, <4>3 DEF Nearby
      <4> QED BY <1>0, <3>1, <3>3, <4>2, <4>4 DEF Supported, Accesses, At, InProgram
    <3> QED BY <2>3, <3>2, <3>3 DEF SpaceInv
  <2> QED BY <2>1, <2>2, <2>3
<1> QED BY <1>1, <1>2, <1>3 DEF WindowInv

-----------------------------------------------------------------------------
(* Operands. *)

LEMMA OnceAround ==
    ASSUME NEW k \in Nat, NEW n \in Nat \ {0}, k < 2 * n
    PROVE  k % n = IF k < n THEN k ELSE k - n
OBVIOUS

(* The registers of one window are kept in places of their own. *)
LEMMA CellsApart ==
    ASSUME NEW r \in Reg, NEW q \in Reg, r >= Globals, q >= Globals, NEW w \in Window,
           CellOf(r, w) = CellOf(q, w)
    PROVE  r = q
<1> DEFINE n == 2 * Half * Windows
           b == 2 * Half * w
           j == r - Globals
           k == q - Globals
<1>1. /\ Globals \in Nat \ {0} /\ Half \in Nat \ {0} /\ Windows \in Nat \ {0, 1}
      /\ w \in Nat /\ w <= Windows - 1
  BY RegisterAssumption DEF Window
<1>2. b \in Nat /\ n \in Nat \ {0} /\ b + 2 * Half <= n /\ 4 * Half <= n
  <2>1. Half * w \in Nat /\ Half * Windows \in Nat
    BY <1>1
  <2>2. Half * w <= Half * (Windows - 1)
    BY <1>1
  <2>3. Half * 2 <= Half * Windows
    BY <1>1
  <2>4. Half * (Windows - 1) = Half * Windows - Half
    BY <1>1
  <2>5. b = 2 * (Half * w) /\ n = 2 * (Half * Windows)
    BY <1>1
  <2> HIDE DEF b, n
  <2> QED BY <1>1, <2>1, <2>2, <2>3, <2>4, <2>5
<1>3. j \in 0 .. 3 * Half - 1 /\ k \in 0 .. 3 * Half - 1
  BY <1>1 DEF Reg
<1>4. CellOf(r, w) = (j + b) % n /\ CellOf(q, w) = (k + b) % n
  BY DEF CellOf
<1> HIDE DEF n, b
<1>5. (j + b) % n = IF j + b < n THEN j + b ELSE (j + b) - n
  <2>1. j + b \in Nat /\ j + b < 2 * n
    BY <1>1, <1>2, <1>3
  <2> QED BY <1>2, <2>1, OnceAround
<1>6. (k + b) % n = IF k + b < n THEN k + b ELSE (k + b) - n
  <2>1. k + b \in Nat /\ k + b < 2 * n
    BY <1>1, <1>2, <1>3
  <2> QED BY <1>2, <2>1, OnceAround
<1>7. j = k
  <2> HIDE DEF j, k
  <2>1. (IF j + b < n THEN j + b ELSE (j + b) - n) = IF k + b < n THEN k + b ELSE (k + b) - n
    BY <1>4, <1>5, <1>6
  <2>2. j \in Nat /\ k \in Nat /\ j < n /\ k < n
    BY <1>1, <1>2, <1>3
  <2> QED BY <1>2, <2>1, <2>2
<1> QED BY <1>1, <1>7 DEF Reg

LEMMA DestsAreRegisters ==
    ASSUME NEW i \in Instruction
    PROVE  Dests(i) \subseteq Reg
<1>1. i.rd \in Reg /\ (i.op = "ldd" => i.rd + 1 \in Reg)
  BY DEF Instruction
<1>2. CallReg \in Reg /\ TrapReg \in Reg
  BY CallingConvention
<1> HIDE DEF Reg
<1> QED BY <1>1, <1>2 DEF Dests, Dest, WritesPair

(* An instruction that reads none of the registers that are written reads    *)
(* the same as before, if both go through one window.                        *)
LEMMA WriteLeaves ==
    ASSUME RegTypeOK, NEW w \in Window, NEW d \in SUBSET Reg, NEW s,
           NEW r \in Reg, r \notin d \ {0}
    PROVE  Content(WriteGlobals(globals, d, s), WriteWindow(windowed, d, s, w), r, w)
               = Content(globals, windowed, r, w)
<1>1. Globals \in Nat \ {0} /\ r \in Nat /\ d \subseteq Nat
  BY RegisterAssumption DEF Reg
<1>2. CASE r < Globals
  <2>1. r \in DOMAIN globals
    BY <1>1, <1>2 DEF RegTypeOK
  <2> QED BY <1>2, <2>1 DEF Content, WriteGlobals
<1>3. CASE ~(r < Globals)
  <2>1. r >= Globals /\ r # 0
    BY <1>1, <1>3
  <2>2. CellOf(r, w) \in DOMAIN windowed
    BY <1>1, <2>1, CellInRange DEF RegTypeOK
  <2>3. ~\E q \in d : q >= Globals /\ CellOf(r, w) = CellOf(q, w)
    BY <2>1, CellsApart
  <2>4. WriteWindow(windowed, d, s, w)[CellOf(r, w)] = windowed[CellOf(r, w)]
    BY <2>2, <2>3 DEF WriteWindow
  <2> QED BY <1>3, <2>4 DEF Content
<1> QED BY <1>2, <1>3

(* Instruction i reads nothing that instruction j writes.                    *)
Apart(i, j) ==
    /\ Sources(i) \cap (Dests(j) \ {0}) = {}
    /\ i.op = "be" => ~WritesIcc(j)
    /\ i.op = "rdy" => ~WritesY(j)

(* The dependences that decode does not see, between neighbours.             *)
Visible(i, j) ==
    /\ i.op = "rdy" => ~WritesY(j)
    /\ WritesPair(j) /\ j.rd + 1 \in TrapArgs /\ j.rd \notin TrapArgs => i.op # "trap"

LEMMA NotStalled ==
    ASSUME NEW i \in Instruction, NEW j \in Instruction, NEW w,
           w.reg = WritesReg(j), w.rd = Dest(j), w.pair = WritesPair(j), w.icc = WritesIcc(j),
           ~InstructionDep(i, w), ~StoreDep(i, w), ~TrapDep(i, w), ~CcDep(i, w),
           Visible(i, j)
    PROVE  Apart(i, j)
<1>1. ASSUME NEW r \in Sources(i), r \in Dests(j), r # 0 PROVE FALSE
  <2>1. \/ r = w.rd /\ w.reg
        \/ r = w.rd + 1 /\ w.reg /\ w.pair
    BY <1>1 DEF Dests
  <2>2. \/ r \in {i.rs1, i.rs2}
        \/ i.op = "st" /\ r = i.rd
        \/ i.op = "std" /\ r \in {i.rd, i.rd + 1}
        \/ i.op = "trap" /\ r \in TrapArgs
    BY <1>1 DEF Sources
  <2>3. CASE r \in {i.rs1, i.rs2}
    BY <1>1, <2>1, <2>3 DEF InstructionDep
  <2>4. CASE i.op = "st" /\ r = i.rd
    BY <2>1, <2>4 DEF StoreDep
  <2>5. CASE i.op = "std" /\ r \in {i.rd, i.rd + 1}
    BY <2>1, <2>5 DEF StoreDep
  <2>6. CASE i.op = "trap" /\ r \in TrapArgs
    <3>1. w.rd \notin TrapArgs /\ r = w.rd + 1 /\ w.pair
      BY <2>1, <2>6 DEF TrapDep
    <3>2. w.rd = j.rd
      BY <3>1 DEF WritesPair, Dest
    <3> QED BY <2>6, <3>1, <3>2 DEF Visible
  <2> QED BY <2>2, <2>3, <2>4, <2>5, <2>6
<1>2. i.op = "be" => ~WritesIcc(j)
  BY DEF CcDep
<1> QED BY <1>1, <1>2 DEF Apart, Visible

(* The operands of i in registers of given contents, through window w.       *)
OperandsIn(g, ws, c, v, w, i) ==
    [regs |-> [r \in Sources(i) |-> Content(g, ws, r, w)],
     icc  |-> IF i.op = "be" THEN c ELSE Reset,
     y    |-> IF i.op = "rdy" THEN v ELSE Reset]

OperandsAt(w, i) == OperandsIn(globals, windowed, icc, y, w, i)

LEMMA RegistersMove ==
    ASSUME Base, WindowInOrder, NEW turn, Retire(turn)
    PROVE  /\ memwb.slot = Bubble => /\ globals' = globals /\ windowed' = windowed
                                     /\ icc' = icc /\ y' = y /\ acwp' = acwp
           /\ memwb.slot # Bubble =>
                  /\ acwp' = Turned(acwp, TurnIn(prog, memwb.slot))
                  /\ \A i \in Instruction :
                         Apart(i, At(memwb.slot)) =>
                             OperandsIn(globals', windowed', icc', y', acwp', i) = OperandsAt(acwp', i)
<1>1. TypeOK /\ RegTypeOK
  BY DEF Base, TypeOK
<1>2. CASE memwb.slot = Bubble
  <2>1. /\ Write({}, Reset, FALSE, FALSE, turn) /\ acwp' = acwp
    BY <1>2 DEF Retire
  <2>2. globals' = [r \in DOMAIN globals |-> globals[r]] /\ windowed' = [c \in DOMAIN windowed |-> windowed[c]]
    BY <2>1 DEF Write, WriteGlobals, WriteWindow
  <2>3. globals' = globals /\ windowed' = windowed
    BY <1>1, <2>2 DEF RegTypeOK
  <2> QED BY <1>2, <2>1, <2>3 DEF Write
<1>3. CASE memwb.slot # Bubble
  <2> DEFINE s == memwb.slot
             j == At(s)
  <2>1. /\ Write(Dests(j), s.pc, WritesIcc(j), WritesY(j), turn)
        /\ acwp' = Turned(acwp, Turn(j))
    BY <1>3 DEF Retire
  <2>2. cwp = acwp' /\ cwp \in Window /\ j \in Instruction /\ TurnIn(prog, s) = Turn(j)
    BY <1>1, <1>3, <2>1, Slots, SlotAt DEF WindowInOrder, RegTypeOK, TurnIn, At
  <2>3. /\ globals' = WriteGlobals(globals, Dests(j), s.pc)
        /\ windowed' = WriteWindow(windowed, Dests(j), s.pc, acwp')
        /\ icc' = IF WritesIcc(j) THEN s.pc ELSE icc
        /\ y' = IF WritesY(j) THEN s.pc ELSE y
    BY <2>1, <2>2 DEF Write
  <2>4. ASSUME NEW i \in Instruction, Apart(i, j)
        PROVE  OperandsIn(globals', windowed', icc', y', acwp', i) = OperandsAt(acwp', i)
    <3>1. Sources(i) \subseteq Reg /\ Dests(j) \subseteq Reg /\ acwp' \in Window
      BY <2>2, SourcesAreRegisters, DestsAreRegisters
    <3>2. \A r \in Sources(i) :
              Content(globals', windowed', r, acwp') = Content(globals, windowed, r, acwp')
      <4> TAKE r \in Sources(i)
      <4>1. r \in Reg /\ r \notin Dests(j) \ {0}
        BY <2>4, <3>1 DEF Apart
      <4> HIDE DEF j, s
      <4> QED BY <1>1, <2>3, <3>1, <4>1, WriteLeaves
    <3>3. /\ i.op = "be" => icc' = icc
          /\ i.op = "rdy" => y' = y
      BY <2>3, <2>4 DEF Apart
    <3> HIDE DEF j, s
    <3>4. [r \in Sources(i) |-> Content(globals', windowed', r, acwp')]
              = [r \in Sources(i) |-> Content(globals, windowed, r, acwp')]
      BY <3>2
    <3> QED BY <3>3, <3>4 DEF OperandsIn, OperandsAt
  <2> QED BY <1>3, <2>1, <2>2, <2>4
<1> QED BY <1>2, <1>3

Free(p, i, s) == s # Bubble => Apart(i, p[s.pc])

(* The youngest instruction that has left decode. *)
Ahead == IF ExOut # Bubble THEN ExOut ELSE Older

(* Every instruction behind decode has the operands of the program order, as *)
(* far as its elders have written them; and it reads nothing that they have  *)
(* still to write.                                                           *)
FreshInv ==
    /\ Older # Bubble => Older.operands = OperandsAt(acwp, At(Older))
    /\ ExOut # Bubble =>
           /\ Free(prog, At(ExOut), Older)
           /\ ExOut.operands = OperandsAt(Turned(acwp, TurnIn(prog, Older)), At(ExOut))
    /\ decode.st = "B" => Free(prog, prog[Decoded], Ahead)

LEMMA AheadVisible ==
    ASSUME Base, OrderInv, ItemInv, LinkInv, Decoded # None, ~Pending, Ahead # Bubble
    PROVE  /\ At(Ahead) \in Instruction /\ prog[Decoded] \in Instruction
           /\ Visible(prog[Decoded], At(Ahead))
<1>0. TypeOK /\ Supported(prog) /\ prog \in Programs
  BY DEF Base, TypeOK
<1>1. InProgram(Decoded) /\ Decoded = AtDecode.pc /\ prog[Decoded].op # "nop"
  <2>1. Front = [pc |-> Decoded, npc |-> FetchPc]
        /\ InProgram(Decoded) /\ prog[Decoded].op # "nop" /\ Front = AtDecode
    BY DecodedPlace
  <2>2. Front.pc = Decoded
    BY <2>1
  <2> QED BY <2>1, <2>2
<1>2. IsSlot(Older) /\ IsSlot(ExOut)
  BY <1>0, Slots
<1>3. InProgram(Ahead.pc)
  BY <1>0, <1>2, SlotAt DEF Ahead
<1>4. At(Ahead) \in Instruction /\ prog[Decoded] \in Instruction
  BY <1>0, <1>1, <1>3, InstructionOf DEF InProgram, At
<1>5. Sound(prog, AtExecute)
  BY <1>0, <1>2, AfterSlot DEF AtExecute, OrderInv
<1>6. Decoded \in Following(prog, Ahead.pc)
  <2>1. CASE ExOut # Bubble
    BY <1>0, <1>1, <1>2, <1>5, <2>1, AfterSlot DEF AtDecode, OrderInv, Ahead
  <2>2. CASE ExOut = Bubble
    <3>1. AtDecode = AtExecute /\ Ahead = Older
      BY <2>2 DEF AtDecode, AfterIn, Ahead
    <3> QED BY <1>0, <1>1, <1>2, <3>1, AfterSlot DEF AtExecute, OrderInv
  <2> QED BY <2>1, <2>2
<1>7. Visible(prog[Decoded], prog[Ahead.pc])
  BY <1>0, <1>3, <1>6 DEF Supported, Visible, InProgram
<1> QED BY <1>4, <1>7 DEF At

(* Replacing fields of what decode is told.                                  *)
LEMMA OtherFields ==
    ASSUME NEW r, NEW a, NEW b, NEW c, NEW d, NEW e, NEW v,
           r = [reg |-> a, rd |-> b, pair |-> c, icc |-> d, y |-> e]
    PROVE  /\ [r EXCEPT !.y = v].reg = a
           /\ [r EXCEPT !.y = v].rd = b
           /\ [r EXCEPT !.y = v].pair = c
           /\ [r EXCEPT !.y = v].icc = d
           /\ [r EXCEPT !.pair = c, !.y = v].reg = a
           /\ [r EXCEPT !.pair = c, !.y = v].rd = b
           /\ [r EXCEPT !.pair = c, !.y = v].pair = c
           /\ [r EXCEPT !.pair = c, !.y = v].icc = d
OBVIOUS

(* What decode lets through reads nothing that is still to be written.       *)
LEMMA NotStalledFree ==
    ASSUME Base, OrderInv, ItemInv, LinkInv, FreshInv, NEW yBit \in BOOLEAN,
           Decoded # None, ~Pending, ~Stalls(yBit)
    PROVE  Free(prog, prog[Decoded], Ahead)
<1>1. CASE decode.st = "B"
  BY <1>1 DEF FreshInv
<1>2. CASE decode.st # "B"
  <2> DEFINE i == prog[Decoded]
             j == At(Ahead)
             Clear(w) == ~(InstructionDep(i, w) \/ StoreDep(i, w) \/ TrapDep(i, w)
                           \/ CcDep(i, w) \/ YDep(i, w))
             Tells(w) == /\ w.reg = WritesReg(j) /\ w.rd = Dest(j)
                         /\ w.pair = WritesPair(j) /\ w.icc = WritesIcc(j)
  <2> SUFFICES ASSUME Ahead # Bubble PROVE Apart(i, j)
    BY DEF Free, At
  <2>1. Clear(InExecute) /\ Clear(InMemory(yBit)) /\ Clear(InWriteBack)
    BY <1>2 DEF Stalls, Depends
  <2>2. i \in Instruction /\ j \in Instruction /\ Visible(i, j)
    BY AheadVisible
  <2>3. ASSUME NEW w, Clear(w), Tells(w) PROVE Apart(i, j)
    <3> HIDE DEF i, j
    <3> QED BY <2>2, <2>3, NotStalled
  <2>4. Tells(Writer(Ahead))
    BY DEF Writer
  <2>5. CASE ExOut # Bubble
    BY <2>1, <2>3, <2>4, <2>5 DEF InExecute, Ahead
  <2>6. CASE ExOut = Bubble /\ memwb.slot # Bubble
    <3>1. Ahead = memwb.slot
      BY <2>6 DEF Ahead, Older
    <3>2. memwb.pair = WritesPair(j)
      <4>1. memwb.pair = Pair(memwb.slot)
        BY <2>6 DEF Base, BackInv
      <4>2. Pair(memwb.slot) <=> WritesPair(j)
        BY <2>6, <3>1 DEF Pair
      <4>3. Pair(memwb.slot) \in BOOLEAN /\ WritesPair(j) \in BOOLEAN
        BY DEF Pair, WritesPair
      <4> HIDE DEF j
      <4> QED BY <4>1, <4>2, <4>3
    <3>3. InWriteBack = [Writer(Ahead) EXCEPT !.pair = WritesPair(j), !.y = FALSE]
      BY <3>1, <3>2 DEF InWriteBack
    <3>4. Writer(Ahead) = [reg |-> WritesReg(j), rd |-> Dest(j), pair |-> WritesPair(j),
                           icc |-> WritesIcc(j), y |-> WritesY(j)]
      BY DEF Writer
    <3>5. Tells(InWriteBack)
      <4> HIDE DEF i, j
      <4> QED BY <3>3, <3>4, OtherFields
    <3> HIDE DEF Clear, Tells, i, j
    <3> QED BY <2>1, <2>3, <3>5
  <2>7. CASE ExOut = Bubble /\ memwb.slot = Bubble /\ mem.st = "B"
    <3>1. Ahead = mem.slot
      BY <2>7 DEF Ahead, Older
    <3>2. InMemory(yBit) = [Writer(Ahead) EXCEPT !.y = yBit]
      BY <2>7, <3>1 DEF InMemory
    <3>3. Writer(Ahead) = [reg |-> WritesReg(j), rd |-> Dest(j), pair |-> WritesPair(j),
                           icc |-> WritesIcc(j), y |-> WritesY(j)]
      BY DEF Writer
    <3>4. Tells(InMemory(yBit))
      <4> HIDE DEF i, j
      <4> QED BY <3>2, <3>3, OtherFields
    <3> HIDE DEF Clear, Tells, i, j
    <3> QED BY <2>1, <2>3, <3>4
  <2>8. CASE ExOut = Bubble /\ memwb.slot = Bubble /\ mem.st # "B"
    <3>1. Ahead = exmem /\ mem.st = "A"
      BY <2>8 DEF Ahead, Older, Base, TypeOK
    <3>2. InMemory(yBit) = Writer(Ahead)
      BY <3>1 DEF InMemory
    <3> QED BY <2>1, <2>3, <2>4, <3>2
  <2> QED BY <2>5, <2>6, <2>7, <2>8
<1> QED BY <1>1, <1>2

LEMMA FreshStep ==
    ASSUME Base, OrderInv, ItemInv, LinkInv, WindowInv, SpaceInv, FreshInv,
           NEW dAck, NEW yBit, BackMoves(dAck, yBit)
    PROVE  FreshInv'
<1>0. TypeOK /\ HandOver /\ AnnulInv /\ BehindInv /\ BackInv /\ Supported(prog)
  BY DEF Base
<1>1. /\ prog' = prog /\ dAck \in BOOLEAN /\ (dAck => DataAnswer) /\ yBit \in BOOLEAN
      /\ DecodeStep(yBit) /\ ExStep /\ MemStep(dAck) /\ Retire(TurnOut(yBit))
  BY DEF BackMoves
<1>2. /\ ExReady <=> ex.st = "A"
      /\ Passes(yBit) => Working = Bubble
  BY <1>0, <1>1, WorkingMoves
<1>3. \/ memwb.slot = Bubble /\ Older' = Older /\ (MemReady => Working = Bubble)
      \/ MemReady /\ exmem = Bubble /\ Older = memwb.slot /\ Older' = ExOut
  BY <1>0, <1>1, OlderMoves
<1>4. ExOut' = IF Passes(yBit) /\ ~Pending THEN Taking
               ELSE IF MemReady THEN Bubble ELSE ExOut
  BY PlaceStep
<1> DEFINE T(s) == TurnIn(prog, s)
           G(w, i) == OperandsIn(globals', windowed', icc', y', w, i)
<1>5. (\A w : Turned(w, "none") = w) /\ T(Bubble) = "none"
  BY DEF Turned, TurnIn
<1>6. /\ memwb.slot = Bubble => acwp' = acwp /\ \A w, i : G(w, i) = OperandsAt(w, i)
      /\ memwb.slot # Bubble =>
             /\ acwp' = Turned(acwp, T(memwb.slot))
             /\ \A i \in Instruction :
                    Apart(i, At(memwb.slot)) => G(acwp', i) = OperandsAt(acwp', i)
  <2>1. WindowInOrder
    BY WindowKept
  <2> QED BY <1>1, <2>1, RegistersMove DEF OperandsAt
<1>7. ASSUME Older = memwb.slot
      PROVE  /\ acwp' = Turned(acwp, T(Older))
             /\ \A i \in Instruction : Free(prog, i, Older) => G(acwp', i) = OperandsAt(acwp', i)
  BY <1>5, <1>6, <1>7 DEF Free, At
<1>8. ASSUME Decoded # None, ~Pending, ~Stalls(yBit)
      PROVE  prog[Decoded] \in Instruction /\ Free(prog, prog[Decoded], Ahead)
  <2>1. InProgram(Decoded)
    BY <1>8, DecodedPlace
  <2> QED BY <1>0, <1>1, <1>8, <2>1, InstructionAt, NotStalledFree
<1>9. ExOut # Bubble => At(ExOut) \in Instruction
  BY <1>0, Slots, SlotAt
<1>10. FreshInv' <=>
         /\ Older' # Bubble => Older'.operands = G(acwp', prog[Older'.pc])
         /\ ExOut' # Bubble =>
                /\ Free(prog, prog[ExOut'.pc], Older')
                /\ ExOut'.operands = G(Turned(acwp', T(Older')), prog[ExOut'.pc])
         /\ decode'.st = "B" => Free(prog, prog[Decoded'], Ahead')
  BY <1>1 DEF FreshInv, OperandsAt, At, Bubble, Free
<1>11. Older' # Bubble => Older'.operands = G(acwp', prog[Older'.pc])
  <2>1. CASE memwb.slot = Bubble /\ Older' = Older
    <3> HIDE DEF G, Bubble
    <3> QED BY <1>6, <2>1 DEF FreshInv, At
  <2>2. CASE Older = memwb.slot /\ Older' = ExOut
    <3> HIDE DEF G, T, Bubble
    <3> QED BY <1>7, <1>9, <2>2 DEF FreshInv, At, T
  <2> QED BY <1>3, <2>1, <2>2
<1>12. ExOut' # Bubble =>
           /\ Free(prog, prog[ExOut'.pc], Older')
           /\ ExOut'.operands = G(Turned(acwp', T(Older')), prog[ExOut'.pc])
  <2>1. CASE Passes(yBit) /\ ~Pending
    <3> DEFINE i == prog[Decoded]
    <3>1. ExOut' = Taking /\ Taking.pc = Decoded /\ Taking.operands = Operands(i)
      BY <1>4, <2>1 DEF Taking
    <3>2. Working = Bubble /\ ExOut = Bubble /\ Ahead = Older
      BY <1>2, <2>1 DEF ExOut, Ahead
    <3>3. i \in Instruction /\ Free(prog, i, Older)
      BY <1>8, <2>1, <3>2 DEF Passes
    <3>4. Operands(i) = OperandsAt(Turned(acwp, T(Older)), i)
      <4>1. cwp = Turned(acwp, T(Older))
        BY <1>5, <3>2 DEF WindowInv
      <4> HIDE DEF T, i
      <4> QED BY <4>1 DEF Operands, OperandsAt, OperandsIn, Read
    <3> HIDE DEF i, T, G, Bubble, Taking
    <3>5. CASE memwb.slot = Bubble /\ Older' = Older
      BY <1>6, <3>1, <3>3, <3>4, <3>5 DEF i
    <3>6. CASE Older = memwb.slot /\ Older' = ExOut
      BY <1>5, <1>7, <3>1, <3>2, <3>3, <3>4, <3>6 DEF i, Free
    <3> QED BY <1>3, <3>5, <3>6
  <2>2. CASE ~(Passes(yBit) /\ ~Pending)
    <3> SUFFICES ASSUME ExOut' # Bubble
                 PROVE  /\ Free(prog, prog[ExOut'.pc], Older')
                        /\ ExOut'.operands = G(Turned(acwp', T(Older')), prog[ExOut'.pc])
      OBVIOUS
    <3>1. ~MemReady /\ ExOut' = ExOut
      BY <1>4, <2>2
    <3>2. memwb.slot = Bubble /\ Older' = Older
      BY <1>3, <3>1
    <3> HIDE DEF G, T, Bubble
    <3> QED BY <1>6, <3>1, <3>2 DEF FreshInv, At, T
  <2> QED BY <2>1, <2>2
<1>13. ASSUME decode'.st = "B" PROVE Free(prog, prog[Decoded'], Ahead')
  <2>1. Decoded # None /\ ~Stalls(yBit) /\ ~Passes(yBit) /\ Decoded' = Decoded
    BY <1>1, <1>13 DEF DecodeStep, Decoded, IdReady
  <2>2. ex.st = "B"
    BY <1>0, <1>2, <2>1 DEF Passes, TypeOK
  <2>3. Working # Bubble /\ ExOut = Working /\ ~Pending
    BY <1>0, <2>2, AnnulOutIs DEF Working, ExOut, BackInv, AnnulInv
  <2>4. Free(prog, prog[Decoded], ExOut)
    BY <1>8, <2>1, <2>3 DEF Ahead
  <2>5. Ahead' = ExOut
    <3>1. Ahead' = IF ExOut' # Bubble THEN ExOut' ELSE Older'
      BY DEF Ahead, Bubble
    <3> HIDE DEF Bubble
    <3> QED BY <1>3, <1>4, <2>1, <2>3, <3>1
  <2> QED BY <2>1, <2>4, <2>5
<1> HIDE DEF G, T
<1> QED BY <1>10, <1>11, <1>12, <1>13

-----------------------------------------------------------------------------
(* All of it together, which each cycle preserves: where the stages behind   *)
(* decode and before it are in the program order (BackInv, OrderInv,         *)
(* ItemInv, LinkInv, AimInv), through which window they work (WindowInv,     *)
(* SpaceInv), and that what they have read is still true (FreshInv).         *)
PInv ==
    /\ BehindInv
    /\ BackInv
    /\ OrderInv
    /\ ItemInv
    /\ LinkInv
    /\ AimInv
    /\ WindowInv
    /\ SpaceInv
    /\ FreshInv

LEMMA PInvInit ==
    ASSUME PipeInit, Supported(prog)
    PROVE  PInv
<1>1. /\ prog \in Programs /\ next = SettledIn(prog, [pc |-> 1, npc |-> 2])
      /\ last = Bubble /\ acwp = cwp /\ TypeOK
  BY TypeInit, SettledIs DEF PipeInit, Bubble, None
<1>2. /\ fetch.st = "A" /\ fetch.item = None /\ fetch.pc = 0 /\ npc = 1 /\ ifid = None
      /\ decode.st = "A" /\ decode.item = None /\ idex = Bubble
      /\ ex.st = "A" /\ ex.slot = Bubble /\ ~ex.annul /\ ex.ready /\ exmem = Bubble
      /\ mem.st = "A" /\ mem.slot = Bubble
      /\ memwb.slot = Bubble
  BY DEF PipeInit, None
<1> HIDE DEF Bubble, None
<1>3. Working = Bubble /\ ExOut = Bubble /\ Older = Bubble /\ Decoded = None /\ ~Pending
  BY <1>2 DEF Working, ExOut, Older, Decoded, IdReady, Pending
<1>4. ~MuxSel /\ ~Holding
  BY <1>2, <1>3 DEF MuxSel, Holding
<1>5. FetchPc = 1 /\ FetchNpc = 2 /\ Front = [pc |-> 1, npc |-> 2]
  <2>1. FetchPc = 1
    BY <1>2, <1>4 DEF FetchPc
  <2>2. FetchNpc = 2
    BY <1>4, <2>1 DEF FetchNpc
  <2> QED BY <1>3, <2>1, <2>2 DEF Front
<1>6. Sound(prog, Front)
  BY <1>5 DEF Sound, Point
<1>7. Sound(prog, next)
  BY <1>1, <1>5, <1>6, SettledSound
<1>8. AtDecode = next /\ AtExecute = next
  BY <1>3 DEF AtDecode, AtExecute, AfterIn
<1>9. ~Accesses(Bubble)
  BY DEF Accesses
<1>10. BehindInv
  BY <1>2 DEF BehindInv, NothingBehindWaiting
<1>11. BackInv
  BY <1>2, <1>3, <1>9 DEF BackInv
<1>12. OrderInv
  BY <1>1, <1>2, <1>3, <1>7 DEF OrderInv
<1>13. ItemInv
  BY <1>2 DEF ItemInv
<1>14. LinkInv
  BY <1>1, <1>3, <1>5, <1>6, <1>8 DEF LinkInv
<1>15. AimInv
  BY <1>2, <1>3, <1>4 DEF AimInv
<1>16. WindowInv
  <2>1. TurnIn(prog, Bubble) = "none" /\ \A w : Turned(w, "none") = w
    BY DEF TurnIn, Turned
  <2> QED BY <1>1, <1>3, <2>1 DEF WindowInv
<1>17. SpaceInv
  BY <1>2 DEF SpaceInv
<1>18. FreshInv
  BY <1>2, <1>3 DEF FreshInv
<1> QED BY <1>10, <1>11, <1>12, <1>13, <1>14, <1>15, <1>16, <1>17, <1>18 DEF PInv

LEMMA PInvStutter ==
    ASSUME PInv, UNCHANGED vars
    PROVE  PInv'
<1>1. /\ prog' = prog /\ next' = next /\ last' = last /\ globals' = globals
      /\ windowed' = windowed /\ cwp' = cwp /\ icc' = icc /\ y' = y /\ fetch' = fetch
      /\ npc' = npc /\ ifid' = ifid /\ decode' = decode /\ idex' = idex /\ ex' = ex
      /\ exmem' = exmem /\ mem' = mem /\ memwb' = memwb /\ acwp' = acwp
  BY DEF vars, seqVars, pipeVars
<1>2. Bubble' = Bubble /\ None' = None
  BY DEF Bubble, None
<1> HIDE DEF Bubble, None
<1>3. /\ Working' = Working /\ ExOut' = ExOut /\ Older' = Older /\ Decoded' = Decoded
  BY <1>1, <1>2 DEF Working, ExOut, Older, Decoded, IdReady
<1>4. /\ \A s : At(s)' = At(s) /\ (Accesses(s)' <=> Accesses(s)) /\ (Pair(s)' <=> Pair(s))
                /\ Zed(s)' = Zed(s)
      /\ \A a : InProgram(a)' <=> InProgram(a)
  BY <1>1, <1>2 DEF At, Accesses, Pair, Zed, Zero, InProgram
<1>5. AtExecute' = AtExecute /\ AtDecode' = AtDecode
  BY <1>1, <1>3 DEF AtExecute, AtDecode
<1>6. MuxSel' = MuxSel /\ Tgt' = Tgt /\ Wanted' = Wanted /\ Pending' = Pending
  BY <1>1, <1>2, <1>3, <1>4 DEF MuxSel, Tgt, Wanted, Pending
<1>7. FetchPc' = FetchPc /\ FetchNpc' = FetchNpc /\ Front' = Front /\ (Holding' <=> Holding)
  BY <1>1, <1>2, <1>3, <1>6 DEF FetchPc, FetchNpc, Front, Holding
<1>8. BehindInv'
  BY <1>1, <1>2 DEF PInv, BehindInv, NothingBehindWaiting
<1>9. BackInv'
  BY <1>1, <1>2, <1>3 DEF PInv, BackInv, Accesses, Pair, At
<1>10. OrderInv'
  BY <1>1, <1>2, <1>3, <1>5 DEF PInv, OrderInv, At, InProgram
<1>11. ItemInv'
  BY <1>1, <1>2 DEF PInv, ItemInv, InProgram, Fetched
<1>12. LinkInv'
  BY <1>1, <1>5, <1>6, <1>7 DEF PInv, LinkInv, InProgram
<1>13. AimInv'
  BY <1>1, <1>2, <1>3, <1>6, <1>7 DEF PInv, AimInv
<1>14. WindowInv'
  BY <1>1, <1>3 DEF PInv, WindowInv
<1>15. SpaceInv'
  BY <1>1, <1>2, <1>3 DEF PInv, SpaceInv, Accesses, At
<1>16. FreshInv'
  BY <1>1, <1>2, <1>3 DEF PInv, FreshInv, OperandsAt, Ahead, At
<1> QED BY <1>8, <1>9, <1>10, <1>11, <1>12, <1>13, <1>14, <1>15, <1>16 DEF PInv

LEMMA PInvStep ==
    ASSUME TypeOK, HandOver, AnnulInv, Supported(prog), PInv, [Tick]_vars
    PROVE  PInv'
<1>1. CASE UNCHANGED vars
  BY <1>1, PInvStutter
<1>2. CASE Tick
  <2>1. PICK iAck \in BOOLEAN, dAck \in BOOLEAN, yBit \in BOOLEAN : Cycle(iAck, dAck, yBit)
    BY <1>2 DEF Tick
  <2>2. FrontMoves(iAck) /\ BackMoves(dAck, yBit) /\ prog' = prog /\ DecodeStep(yBit)
    BY <2>1 DEF Cycle, FrontMoves, BackMoves
  <2>3. Base
    BY DEF PInv, Base
  <2>4. BehindInv'
    BY BehindStep DEF PInv
  <2>5. BackInv' /\ OrderInv'
    BY <2>2, <2>3, BackStep, OrderStep DEF PInv
  <2>6. ItemInv'
    BY <2>2, <2>3, ItemStep DEF PInv
  <2>7. LinkInv'
    BY <2>2, <2>3, LinkStep DEF PInv
  <2>8. AimInv'
    BY <2>2, <2>3, FrontPasses, FrontWaits DEF PInv
  <2>9. WindowInv'
    BY <2>2, <2>3, WindowStep DEF PInv
  <2>10. SpaceInv'
    BY <2>2, <2>3, SpaceStep DEF PInv
  <2>11. FreshInv'
    BY <2>2, <2>3, FreshStep DEF PInv
  <2> QED BY <2>4, <2>5, <2>6, <2>7, <2>8, <2>9, <2>10, <2>11 DEF PInv
<1> QED BY <1>1, <1>2

(* Where every stage is in the program order, for programs that the core     *)
(* supports: the invariant behind the theorems that follow.                  *)
THEOREM InProgramOrder ==
    ASSUME \A p \in Programs : Supported(p)
    PROVE  Spec => []PInv
<1>1. PipeInit => PInv
  BY PInvInit DEF PipeInit
<1>2. TypeOK /\ HandOver /\ AnnulInv /\ PInv /\ [Tick]_vars => PInv'
  BY PInvStep DEF TypeOK
<1> QED BY <1>1, <1>2, TypeCorrect, HandOverAlways, AnnulAlways, PTL DEF Spec

(* When an annulling branch leaves execute, ex_ready is not held low, so     *)
(* decode goes on and the delay slot comes to be annulled (Execute.sv:13).   *)
THEOREM AnnulmentEnds ==
    ASSUME \A p \in Programs : Supported(p)
    PROVE  Spec => []NeverFrozen
<1>1. PInv => NeverFrozen
  BY DEF PInv, BackInv, NeverFrozen
<1> QED BY <1>1, InProgramOrder, PTL

(* An instruction is written back through the window that it has in program  *)
(* order, although decode turns the window long before (RegFile.sv:83).      *)
THEOREM WindowsInOrder ==
    ASSUME \A p \in Programs : Supported(p)
    PROVE  Spec => []WindowInOrder
<1>1. TypeOK /\ HandOver /\ AnnulInv /\ PInv => WindowInOrder
  BY WindowKept DEF Base, PInv, TypeOK
<1> QED BY <1>1, InProgramOrder, TypeCorrect, HandOverAlways, AnnulAlways, PTL

-----------------------------------------------------------------------------
(* The program order itself. *)

(* Meaning has Sequential's definitions with acwp for cwp; those that do not *)
(* mention cwp are the same.                                                 *)
LEMMA SameMeaning ==
    /\ \A i : Meaning!Dests(i) = Dests(i)
    /\ \A i : Meaning!Turn(i) = Turn(i)
    /\ \A i : Meaning!WritesIcc(i) = WritesIcc(i)
    /\ \A i : Meaning!WritesY(i) = WritesY(i)
    /\ \A w, t : Meaning!Turned(w, t) = Turned(w, t)
    /\ \A g, d, s : Meaning!WriteGlobals(g, d, s) = WriteGlobals(g, d, s)
    /\ \A ws, d, s, w : Meaning!WriteWindow(ws, d, s, w) = WriteWindow(ws, d, s, w)
    /\ \A n : Meaning!Settled(n) = Settled(n)
    /\ \A n, i, z : Meaning!Follow(n, i, z) = Follow(n, i, z)
    /\ \A i : Meaning!Operands(i) = OperandsAt(acwp, i)
    /\ \A a : Meaning!InProgram(a) <=> InProgram(a)
    /\ \A c : Meaning!Zero(c) <=> Zero(c)
<1>1. \A i : /\ Meaning!Dests(i) = Dests(i)
             /\ Meaning!Turn(i) = Turn(i)
             /\ Meaning!WritesIcc(i) = WritesIcc(i)
             /\ Meaning!WritesY(i) = WritesY(i)
  BY DEF Meaning!Dests, Dests, Meaning!Turn, Turn, Meaning!WritesIcc, WritesIcc,
         Meaning!WritesY, WritesY, Meaning!WritesReg, WritesReg, Meaning!WritesPair, WritesPair,
         Meaning!Dest, Dest
<1>2. \A w, t : Meaning!Turned(w, t) = Turned(w, t)
  BY DEF Meaning!Turned, Turned
<1>3. \A r, w : Meaning!CellOf(r, w) = CellOf(r, w)
  BY DEF Meaning!CellOf, CellOf
<1>4. \A g, d, s : Meaning!WriteGlobals(g, d, s) = WriteGlobals(g, d, s)
  BY DEF Meaning!WriteGlobals, WriteGlobals
<1>5. \A ws, d, s, w : Meaning!WriteWindow(ws, d, s, w) = WriteWindow(ws, d, s, w)
  BY <1>3 DEF Meaning!WriteWindow, WriteWindow
<1>6. /\ \A a : Meaning!InProgram(a) <=> InProgram(a)
      /\ \A c : Meaning!Zero(c) <=> Zero(c)
  BY DEF Meaning!InProgram, InProgram, Meaning!Zero, Zero
<1>7. \A n : Meaning!Settled(n) = Settled(n)
  BY DEF Meaning!Settled, Settled, Meaning!InProgram, InProgram, Meaning!Pass, Pass
<1>8. \A n, i, z : Meaning!Follow(n, i, z) = Follow(n, i, z)
  BY <1>7 DEF Meaning!Follow, Follow, Meaning!Taken, Taken, Meaning!Annuls, Annuls,
              Meaning!Branch, Branch, Meaning!Pass, Pass
<1>9. \A r : Meaning!Read(r) = Content(globals, windowed, r, acwp)
  BY <1>3 DEF Meaning!Read, Meaning!Content, Content
<1>10. \A i : Meaning!Sources(i) = Sources(i)
  BY DEF Meaning!Sources, Sources
<1>11. \A i : Meaning!Operands(i) = OperandsAt(acwp, i)
  BY <1>9, <1>10 DEF Meaning!Operands, OperandsAt, OperandsIn
<1> QED BY <1>1, <1>2, <1>4, <1>5, <1>6, <1>7, <1>8, <1>11

(* What follows an instruction depends on icc only if it looks at it.        *)
LEMMA FollowZed ==
    ASSUME NEW n, NEW i, NEW a, NEW b, i.op = "be" => a = b
    PROVE  Follow(n, i, a) = Follow(n, i, b)
<1>1. Taken(i, a) = Taken(i, b) /\ Annuls(i, a) = Annuls(i, b)
  BY DEF Taken, Annuls, Branch
<1> QED BY <1>1 DEF Follow

(* A cycle retires the next instruction of the program order, or nothing.    *)
LEMMA RetireStep ==
    ASSUME Base, PInv, NEW turn, Retire(turn), prog' = prog
    PROVE  [Meaning!SeqNext]_(Meaning!seqVars)
<1>0. TypeOK /\ WindowInOrder /\ OrderInv /\ FreshInv
  BY WindowKept DEF Base, PInv
<1>1. CASE memwb.slot = Bubble
  <2>1. /\ globals' = globals /\ windowed' = windowed /\ icc' = icc /\ y' = y /\ acwp' = acwp
        /\ next' = next /\ last' = last
    BY <1>0, <1>1, RegistersMove DEF Retire
  <2> QED BY <2>1 DEF Meaning!seqVars
<1>2. CASE memwb.slot # Bubble
  <2> DEFINE s == memwb.slot
             j == prog[next.pc]
  <2>1. Older = s /\ s.pc = next.pc /\ At(s) = j /\ s.operands = OperandsAt(acwp, j)
    BY <1>0, <1>2 DEF Older, OrderInv, FreshInv, At
  <2>2. s = [pc |-> next.pc, operands |-> OperandsAt(acwp, j)] /\ InProgram(next.pc)
    BY <1>0, <1>2, <2>1, Slots DEF IsSlot
  <2>3. cwp = Turned(acwp, Turn(j))
    BY <1>0, <1>2, <2>1 DEF WindowInOrder
  <2>4. /\ Write(Dests(j), next.pc, WritesIcc(j), WritesY(j), turn)
        /\ next' = Follow(next, j, Zed(s))
        /\ last' = s
        /\ acwp' = Turned(acwp, Turn(j))
    BY <1>2, <2>1 DEF Retire
  <2>5. j.op = "be" => Zed(s) = Zero(icc)
    BY <2>1 DEF Zed, OperandsAt, OperandsIn
  <2>6. next' = Follow(next, j, Zero(icc))
    BY <2>4, <2>5, FollowZed
  <2>7. /\ globals' = WriteGlobals(globals, Dests(j), next.pc)
        /\ windowed' = WriteWindow(windowed, Dests(j), next.pc, Turned(acwp, Turn(j)))
        /\ icc' = IF WritesIcc(j) THEN next.pc ELSE icc
        /\ y' = IF WritesY(j) THEN next.pc ELSE y
    BY <2>3, <2>4 DEF Write
  <2>8. Meaning!SeqNext
    <3>1. /\ Meaning!InProgram(next.pc)
          /\ next' = Meaning!Follow(next, j, Meaning!Zero(icc))
          /\ last' = [pc |-> next.pc, operands |-> Meaning!Operands(j)]
      <4>1. last' = [pc |-> next.pc, operands |-> OperandsAt(acwp, j)]
        BY <2>2, <2>4
      <4>2. Zero(icc) = Meaning!Zero(icc)
        BY DEF Zero, Meaning!Zero
      <4> HIDE DEF j, s
      <4> QED BY <2>2, <2>6, <4>1, <4>2, SameMeaning
    <3>2. acwp' = Meaning!Turned(acwp, Meaning!Turn(j))
      <4> HIDE DEF j
      <4> QED BY <2>4, SameMeaning
    <3>3. /\ globals' = Meaning!WriteGlobals(globals, Meaning!Dests(j), next.pc)
          /\ windowed' = Meaning!WriteWindow(windowed, Meaning!Dests(j), next.pc,
                                             Meaning!Turned(acwp, Meaning!Turn(j)))
          /\ icc' = IF Meaning!WritesIcc(j) THEN next.pc ELSE icc
          /\ y' = IF Meaning!WritesY(j) THEN next.pc ELSE y
      <4> HIDE DEF j
      <4> QED BY <2>7, SameMeaning
    <3> QED BY <3>1, <3>2, <3>3 DEF Meaning!SeqNext
  <2> QED BY <2>8
<1> QED BY <1>1, <1>2

(* The pipeline implements the program order, for supported programs and     *)
(* every timing of the caches: what leaves write-back is the next            *)
(* instruction with the operands that its predecessors left; nothing is      *)
(* lost, repeated, or executed in a slot that is annulled (Core.sv:114-194). *)
THEOREM InOrder ==
    ASSUME \A p \in Programs : Supported(p)
    PROVE  Spec => ImplementsSequential
<1>1. PipeInit => Meaning!SeqInit
  <2> SUFFICES ASSUME PipeInit PROVE Meaning!SeqInit
    OBVIOUS
  <2>1. Meaning!RegInit
    BY DEF PipeInit, RegInit, Meaning!RegInit, Meaning!Cell, Cell
  <2>2. prog \in Programs /\ next = Meaning!Settled([pc |-> 1, npc |-> 2]) /\ last = [pc |-> 0]
    BY SameMeaning DEF PipeInit, None
  <2> QED BY <2>1, <2>2 DEF Meaning!SeqInit
<1>2. TypeOK /\ HandOver /\ AnnulInv /\ PInv /\ [Tick]_vars
          => [Meaning!SeqNext]_(Meaning!seqVars)
  <2> SUFFICES ASSUME TypeOK, HandOver, AnnulInv, PInv, [Tick]_vars
               PROVE  [Meaning!SeqNext]_(Meaning!seqVars)
    OBVIOUS
  <2>1. CASE UNCHANGED vars
    BY <2>1 DEF vars, seqVars, pipeVars, Meaning!seqVars
  <2>2. CASE Tick
    <3>1. PICK yBit \in BOOLEAN : Retire(TurnOut(yBit)) /\ prog' = prog
      BY <2>2 DEF Tick, Cycle
    <3>2. Base
      BY DEF Base, PInv, TypeOK
    <3> QED BY <3>1, <3>2, RetireStep
  <2> QED BY <2>1, <2>2
<1> QED
  BY <1>1, <1>2, InProgramOrder, TypeCorrect, HandOverAlways, AnnulAlways, PTL
  DEF Spec, ImplementsSequential, Meaning!SeqSpec

-----------------------------------------------------------------------------
(* Every cycle brings the next instruction nearer to write-back.             *)

(* NopsFrom counts: up to the first address that holds no nop.               *)
LEMMA NopsCounted ==
    ASSUME NEW p \in Programs, NEW a \in Nat
    PROVE  LET j == NopsFrom(p, a)
           IN /\ j \in 0 .. Spare
              /\ ~NopAt(p, a + j)
              /\ \A i \in 0 .. j - 1 : NopAt(p, a + i)
<1> DEFINE T == {j \in 0 .. Spare : ~NopAt(p, a + j)}
<1>0. Spare \in Nat /\ a + 0 = a
  BY ProgramAssumption
<1>1. T \in SUBSET Nat
  OBVIOUS
<1>2. T # {}
  <2>1. CASE a \in DOMAIN p
    <3>1. PICK j \in 0 .. Spare - 1 : a + j \in DOMAIN p => p[a + j].op # "nop"
      BY <2>1, ProgramAssumption
    <3>2. j \in T
      BY <1>0, <3>1 DEF NopAt
    <3> QED BY <3>2
  <2>2. CASE a \notin DOMAIN p
    <3>1. 0 \in T
      BY <1>0, <2>2 DEF NopAt
    <3> QED BY <3>1
  <2> QED BY <2>1, <2>2
<1>3. PICK m \in T : \A k \in T : m <= k
  BY <1>1, <1>2, LeastNumber
<1>4. \A i \in 0 .. m - 1 : NopAt(p, a + i)
  <2> TAKE i \in 0 .. m - 1
  <2>1. i \in 0 .. Spare /\ ~(m <= i)
    BY <1>0
  <2> QED BY <1>3, <2>1
<1>5. \E j \in 0 .. Spare : ~NopAt(p, a + j) /\ \A i \in 0 .. j - 1 : NopAt(p, a + i)
  BY <1>4
<1> QED BY <1>5 DEF NopsFrom

LEMMA NopsNext ==
    ASSUME NEW p \in Programs, NEW a \in Nat
    PROVE  NopsFrom(p, a) = IF NopAt(p, a) THEN 1 + NopsFrom(p, a + 1) ELSE 0
<1> DEFINE j == NopsFrom(p, a)
           k == NopsFrom(p, a + 1)
<1>1. j \in Nat /\ ~NopAt(p, a + j) /\ \A i \in 0 .. j - 1 : NopAt(p, a + i)
  BY NopsCounted, ProgramAssumption
<1>2. k \in Nat /\ ~NopAt(p, (a + 1) + k) /\ \A i \in 0 .. k - 1 : NopAt(p, (a + 1) + i)
  BY NopsCounted, ProgramAssumption
<1>3. a + 0 = a /\ (a + 1) + k = a + (1 + k) /\ (j # 0 => (a + 1) + (j - 1) = a + j)
  BY <1>1, <1>2
<1> HIDE DEF j, k
<1>4. CASE ~NopAt(p, a)
  <2>1. j # 0 => 0 \in 0 .. j - 1
    BY <1>1
  <2> QED BY <1>1, <1>3, <1>4, <2>1 DEF j
<1>5. CASE NopAt(p, a)
  <2>1. j # 0
    BY <1>1, <1>3, <1>5
  <2>2. ~(j - 1 < k)
    <3>1. j - 1 < k => j - 1 \in 0 .. k - 1
      BY <1>1, <1>2, <2>1
    <3> QED BY <1>1, <1>2, <1>3, <2>1, <3>1
  <2>3. ~(1 + k < j)
    <3>1. 1 + k < j => 1 + k \in 0 .. j - 1
      BY <1>1, <1>2
    <3> QED BY <1>1, <1>2, <1>3, <3>1
  <2> QED BY <1>1, <1>2, <1>5, <2>1, <2>2, <2>3 DEF j, k
<1> QED BY <1>4, <1>5

(* A nop passed is one nop less to pass. *)
LEMMA LagPasses ==
    ASSUME NEW p \in Programs, NEW n \in Point
    PROVE  /\ Lag(p, n) \in Nat
           /\ AtNop(p, n) => Lag(p, n) = 1 + Lag(p, Pass(n))
<1>1. n.npc \in Nat /\ Pass(n).pc = n.npc /\ Pass(n).npc = n.npc + 1
  BY DEF Point, Pass
<1>2. NopsFrom(p, n.npc) \in Nat
  BY <1>1, NopsCounted, ProgramAssumption
<1>3. NopsFrom(p, n.npc) = Lag(p, Pass(n))
  BY <1>1, NopsNext DEF Lag, AtNop
<1> QED BY <1>2, <1>3 DEF Lag

(* Of a pair that has left write-back decode hears nothing any more.         *)
PairInv == memwb.pair /\ memwb.slot = Bubble => mem.st = "B"

LEMMA PairStep ==
    ASSUME TypeOK, BackInv, NEW ack \in BOOLEAN, MemStep(ack)
    PROVE  PairInv'
<1>0. mem.st \in {"A", "B"} /\ ~Pair(Bubble) /\ Bubble' = Bubble
      /\ (mem.slot = Bubble => mem.st = "A")
  BY DEF TypeOK, Pair, BackInv, Bubble
<1> HIDE DEF Bubble
<1>1. CASE mem.st = "A" /\ Accesses(exmem)
  <2>1. mem'.st = "B"
    BY <1>1 DEF MemStep
  <2> QED BY <2>1 DEF PairInv
<1>2. CASE mem.st = "A" /\ ~Accesses(exmem)
  <2>1. memwb'.slot = exmem /\ memwb'.pair = Pair(exmem)
    BY <1>2 DEF MemStep
  <2> QED BY <1>0, <2>1 DEF PairInv
<1>3. CASE mem.st = "B" /\ ack
  <2>1. memwb'.slot = mem.slot
    BY <1>3 DEF MemStep
  <2> QED BY <1>0, <1>3, <2>1 DEF PairInv
<1>4. CASE mem.st = "B" /\ ~ack
  <2>1. mem'.st = "B"
    BY <1>4 DEF MemStep, TypeOK
  <2> QED BY <2>1 DEF PairInv
<1> QED BY <1>0, <1>1, <1>2, <1>3, <1>4

(* Behind nothing, decode stalls on nothing. *)
LEMMA NothingToAwait ==
    ASSUME TypeOK, BackInv, PairInv, Older = Bubble, ExOut = Bubble, NEW yBit
    PROVE  ~Stalls(yBit)
<1>1. memwb.slot = Bubble /\ mem.st = "A" /\ exmem = Bubble
  BY DEF Older, BackInv, TypeOK
<1>2. memwb.pair = FALSE
  BY <1>1 DEF PairInv, TypeOK
<1>3. InExecute = Harmless /\ InMemory(yBit) = Harmless
  BY <1>1 DEF InExecute, InMemory, Writer
<1>4. /\ Harmless.reg = FALSE /\ Harmless.pair = FALSE
      /\ Harmless.icc = FALSE /\ Harmless.y = FALSE
  BY DEF Harmless
<1>5. /\ InWriteBack.reg = FALSE /\ InWriteBack.pair = FALSE
      /\ InWriteBack.icc = FALSE /\ InWriteBack.y = FALSE
  <2>1. InWriteBack = [Harmless EXCEPT !.pair = FALSE, !.y = FALSE]
    BY <1>1, <1>2 DEF InWriteBack, Writer
  <2> QED BY <2>1 DEF Harmless
<1> HIDE DEF Harmless
<1>6. \A i : ~Depends(i, yBit)
  BY <1>3, <1>4, <1>5 DEF Depends, InstructionDep, StoreDep, TrapDep, CcDep, YDep
<1> QED BY <1>6 DEF Stalls

(* The front end by itself, with nothing in decode: fetch goes on through    *)
(* its states, or waits for the cache.                                       *)
LEMMA HandingStep ==
    ASSUME Base, ItemInv, Decoded = None, ~MuxSel, NEW iAck, FrontMoves(iAck),
           NEW yBit \in BOOLEAN, DecodeStep(yBit)
    PROVE  /\ Handing \in 1 .. 8 /\ Handing' \in 1 .. 8
           /\ fetch.st # "A" => Handing \in 3 .. 8
           /\ \/ Drops
              \/ Handing' < Handing
              \/ Handing' = Handing /\ fetch.st = "B" /\ fetch.seen
<1>0. npc \in Nat /\ None' = None
  BY DEF Base, TypeOK, None
<1>1. fetch = [st |-> fetch.st, pc |-> fetch.pc, item |-> fetch.item,
               branch |-> fetch.branch, seen |-> fetch.seen]
      /\ fetch.st \in {"A", "B", "C", "S"}
  BY DEF Base, HandOver, FormInv
<1>2. decode.st = "A"
  BY DEF ItemInv, Decoded, IdReady
<1>3. ~Passes(yBit)
  BY DEF Passes
<1>4. Decoded' = IF fetch.st = "A" THEN fetch.item ELSE None
  BY <1>3, DecodedMoves
<1>5. iAck \in BOOLEAN /\ (iAck => fetch.st = "B" /\ fetch.seen /\ InProgram(fetch.pc))
      /\ FetchStep(iAck) /\ NpcStep
  BY DEF FrontMoves, InstructionAnswer
<1>6. npc' = IF fetch.st = "A" THEN npc + 1 ELSE npc
  BY <1>5 DEF NpcStep, IfReady
<1>7. fetch.st = "C" => InProgram(fetch.pc) /\ fetch.item = Fetched
  BY DEF ItemInv
<1>8. Fetched = IF prog[fetch.pc].op = "nop" THEN None ELSE fetch.pc
  BY DEF Fetched
<1>9. \A i : Home(i).st \in {"A", "S"} /\ Home(i).item = i
  BY <1>1 DEF Home
<1>10. InProgram(fetch.pc) => fetch.pc # None
  BY InstructionAt DEF Base, None
<1>11. fetch.st = "S" => InProgram(fetch.pc) /\ fetch.item = Fetched
  BY DEF ItemInv
<1> HIDE DEF None
<1>12. CASE fetch.st = "A" /\ fetch.item # None
  <2>1. Handing = 2
    BY <1>12 DEF Handing
  <2>2. Handing' = 1
    BY <1>0, <1>4, <1>12 DEF Handing
  <2> QED BY <1>12, <2>1, <2>2
<1>13. CASE fetch.st = "A" /\ fetch.item = None /\ npc = fetch.pc
  <2>1. Handing = 8
    BY <1>13 DEF Handing
  <2>2. fetch' = [fetch EXCEPT !.item = None]
    BY <1>5, <1>13 DEF FetchStep
  <2>3. fetch'.st = "A" /\ fetch'.item = None /\ fetch'.pc = fetch.pc /\ npc' # fetch.pc
    BY <1>0, <1>1, <1>6, <1>13, <2>2
  <2>4. Handing' = 7
    BY <1>0, <1>4, <1>13, <2>3 DEF Handing
  <2> QED BY <2>1, <2>4
<1>14. CASE fetch.st = "A" /\ fetch.item = None /\ npc # fetch.pc
  <2>1. Handing = 7
    BY <1>14 DEF Handing
  <2>2. fetch' = [fetch EXCEPT !.st = "B", !.pc = npc, !.seen = FALSE]
    BY <1>5, <1>14 DEF FetchStep
  <2>3. fetch'.st = "B" /\ ~fetch'.seen
    BY <1>1, <2>2
  <2>4. Handing' = 6
    BY <1>0, <1>4, <1>14, <2>3 DEF Handing
  <2> QED BY <2>1, <2>4
<1>15. CASE fetch.st = "B" /\ ~iAck
  <2>1. fetch' = [fetch EXCEPT !.seen = TRUE]
    BY <1>5, <1>15 DEF FetchStep
  <2>2. fetch'.st = "B" /\ fetch'.seen
    BY <1>1, <1>15, <2>1
  <2>3. Handing' = 5
    BY <1>0, <1>4, <1>15, <2>2 DEF Handing
  <2>4. Handing = IF fetch.seen THEN 5 ELSE 6
    BY <1>15 DEF Handing
  <2> QED BY <1>15, <2>3, <2>4
<1>16. CASE fetch.st = "S"
  <2>1. Handing = 3
    BY <1>16 DEF Handing
  <2>2. fetch' = [fetch EXCEPT !.st = "A"]
    BY <1>5, <1>16 DEF FetchStep
  <2>3. fetch'.st = "A" /\ fetch'.item = fetch.item
    BY <1>1, <2>2
  <2>4. CASE fetch.item # None
    <3>1. Handing' = 2
      BY <1>0, <1>4, <1>16, <2>3, <2>4 DEF Handing
    <3> QED BY <1>16, <2>1, <3>1
  <2>5. CASE fetch.item = None
    <3>1. Drops
      BY <1>8, <1>10, <1>11, <1>16, <2>3, <2>5 DEF Drops
    <3>2. Handing' \in 7 .. 8
      BY <1>0, <1>4, <1>16, <2>3, <2>5 DEF Handing
    <3> QED BY <1>16, <2>1, <3>1, <3>2
  <2> QED BY <2>4, <2>5
<1>17. CASE fetch.st = "C" \/ (fetch.st = "B" /\ iAck)
  <2>1. fetch' = Home(Fetched)
    BY <1>2, <1>5, <1>7, <1>17 DEF FetchStep, IdReady
  <2>2. InProgram(fetch.pc) /\ fetch'.item = Fetched /\ fetch'.st \in {"A", "S"}
    BY <1>5, <1>7, <1>9, <1>17, <2>1
  <2>3. Handing = IF fetch.st = "C" THEN 4 ELSE 5
    BY <1>5, <1>17 DEF Handing
  <2>4. CASE fetch'.st = "S"
    <3>1. Handing' = 3
      BY <1>0, <1>4, <1>17, <2>4 DEF Handing
    <3> QED BY <1>17, <2>3, <3>1
  <2>5. CASE fetch'.st = "A" /\ fetch'.item # None
    <3>1. Handing' = 2
      BY <1>0, <1>4, <1>17, <2>5 DEF Handing
    <3> QED BY <1>17, <2>3, <3>1
  <2>6. CASE fetch'.st = "A" /\ fetch'.item = None
    <3>1. Drops
      BY <1>8, <1>10, <1>17, <2>2, <2>6 DEF Drops
    <3>2. Handing' \in 7 .. 8
      BY <1>0, <1>4, <1>17, <2>6 DEF Handing
    <3> QED BY <1>17, <2>3, <3>1, <3>2
  <2> QED BY <2>2, <2>4, <2>5, <2>6
<1> QED BY <1>1, <1>5, <1>12, <1>13, <1>14, <1>15, <1>16, <1>17

(* What Distance is, by where the next instruction is.                       *)
LEMMA DistanceOf ==
    /\ memwb.slot # Bubble => Distance = 0
    /\ memwb.slot = Bubble /\ mem.st = "B" => Distance = IF mem.seen THEN 1 ELSE 2
    /\ memwb.slot = Bubble /\ mem.st # "B" /\ exmem # Bubble => Distance = 3
    /\ memwb.slot = Bubble /\ mem.st # "B" /\ exmem = Bubble /\ ExOut # Bubble => Distance = 4
    /\ memwb.slot = Bubble /\ mem.st # "B" /\ exmem = Bubble /\ ExOut = Bubble =>
           Distance = 4 + Handing + Round * Dropping
BY DEF Distance

(* The instruction behind execute goes on, or the data cache is awaited.     *)
LEMMA BackAdvances ==
    ASSUME TypeOK, BackInv, ExStep, NEW ack \in BOOLEAN, ack => DataAnswer, MemStep(ack),
           memwb.slot = Bubble, mem.st = "B" \/ exmem # Bubble \/ ExOut # Bubble
    PROVE  Distance' \in 0 .. Distance - 1 \/ (Distance' = Distance /\ DataAnswer)
<1>0. mem.st \in {"A", "B"} /\ Bubble' = Bubble
      /\ (mem.slot = Bubble => mem.st = "A") /\ (exmem' = IF MemReady THEN ExOut ELSE exmem)
      /\ mem.seen \in BOOLEAN
  BY DEF TypeOK, BackInv, Bubble, ExStep
<1> HIDE DEF Bubble
<1>1. CASE mem.st = "B" /\ ack
  <2>1. memwb'.slot = mem.slot
    BY <1>1 DEF MemStep
  <2>2. Distance' = 0
    BY <1>0, <1>1, <2>1 DEF Distance
  <2>3. Distance = IF mem.seen THEN 1 ELSE 2
    BY <1>1, DistanceOf
  <2> QED BY <2>2, <2>3
<1>2. CASE mem.st = "B" /\ ~ack
  <2>1. mem'.st = "B" /\ mem'.seen /\ memwb'.slot = Bubble
    BY <1>2 DEF MemStep, TypeOK
  <2>2. Distance' = 1
    BY <1>0, <2>1 DEF Distance
  <2>3. Distance = IF mem.seen THEN 1 ELSE 2
    BY <1>2, DistanceOf
  <2> QED BY <1>2, <2>2, <2>3 DEF DataAnswer
<1>3. CASE mem.st = "A" /\ exmem # Bubble
  <2>1. Distance = 3
    BY <1>3, DistanceOf
  <2>2. CASE Accesses(exmem)
    <3>1. mem'.st = "B" /\ ~mem'.seen /\ memwb'.slot = Bubble
      BY <1>3, <2>2 DEF MemStep
    <3>2. Distance' = 2
      BY <1>0, <3>1 DEF Distance
    <3> QED BY <2>1, <3>2
  <2>3. CASE ~Accesses(exmem)
    <3>1. memwb'.slot = exmem
      BY <1>3, <2>3 DEF MemStep
    <3>2. Distance' = 0
      BY <1>0, <1>3, <3>1 DEF Distance
    <3> QED BY <2>1, <3>2
  <2> QED BY <2>2, <2>3
<1>4. CASE mem.st = "A" /\ exmem = Bubble /\ ExOut # Bubble
  <2>1. Distance = 4
    BY <1>4, DistanceOf
  <2>2. ~Accesses(exmem)
    BY <1>4 DEF Accesses
  <2>3. mem' = mem /\ memwb'.slot = Bubble
    BY <1>4, <2>2 DEF MemStep
  <2>4. exmem' # Bubble
    BY <1>0, <1>4 DEF MemReady
  <2>5. Distance' = 3
    BY <1>0, <1>4, <2>3, <2>4 DEF Distance
  <2> QED BY <2>1, <2>5
<1> QED BY <1>0, <1>1, <1>2, <1>3, <1>4

LEMMA Nearer ==
    ASSUME NEW d \in Nat, NEW h \in 1 .. 8, NEW k \in 1 .. 8,
           NEW x, x = 4 + k + 8 * d, NEW w
    PROVE  /\ h \in 3 .. 8 /\ w = 4 + h + 8 * (1 + d) => x \in 0 .. w - 1
           /\ k < h /\ w = 4 + h + 8 * d => x \in 0 .. w - 1
OBVIOUS

(* With decode first in line: it hands on what it has, or fetch brings it    *)
(* the next instruction, one nop or annulled slot after the other.           *)
LEMMA FrontAdvances ==
    ASSUME Base, OrderInv, ItemInv, LinkInv, AimInv, PairInv, TypeOK', InProgram(next.pc),
           Older = Bubble, ExOut = Bubble,
           NEW iAck, FrontMoves(iAck), NEW dAck, NEW yBit, BackMoves(dAck, yBit)
    PROVE  Distance' \in 0 .. Distance - 1 \/ (Distance' = Distance /\ Waiting)
<1>0. TypeOK /\ HandOver /\ AnnulInv /\ BehindInv /\ BackInv /\ prog \in Programs /\ prog' = prog
  BY DEF Base, TypeOK, BackMoves
<1>1. /\ dAck \in BOOLEAN /\ (dAck => DataAnswer) /\ yBit \in BOOLEAN
      /\ DecodeStep(yBit) /\ ExStep /\ MemStep(dAck)
  BY DEF BackMoves
<1>2. memwb.slot = Bubble /\ mem.st = "A" /\ exmem = Bubble /\ MemReady /\ ~MuxSel
  BY <1>0 DEF Older, BackInv, TypeOK, MemReady, MuxSel
<1>3. ~Accesses(Bubble) /\ Bubble' = Bubble
  BY DEF Accesses, Bubble
<1>4. mem'.st = "A" /\ memwb'.slot = Bubble /\ exmem' = Bubble
  BY <1>1, <1>2, <1>3 DEF MemStep, ExStep
<1>5. /\ ExOut' = IF Passes(yBit) /\ ~Pending THEN Taking ELSE Bubble
      /\ Passes(yBit) /\ Pending => ~Pending'
      /\ ~Passes(yBit) => (Pending' <=> Pending)
  BY <1>2, PlaceStep
<1>6. Passes(yBit) => Taking # Bubble /\ Decoded # None
  BY <1>0, <1>1, WorkingMoves DEF Passes
<1>7. ~Passes(yBit) => Decoded = None
  <2>1. ~Stalls(yBit)
    BY <1>0, NothingToAwait
  <2>2. ex.st = "A"
    BY <1>0, <1>3 DEF BackInv, TypeOK
  <2>3. ExReady
    BY <1>0, <1>1, <2>2, WorkingMoves
  <2> QED BY <2>1, <2>3 DEF Passes
<1>8. Front \in Point /\ Pass(Front) \in Point
  BY PassPoint DEF LinkInv, Sound
<1>9. /\ Lag(prog, Front) \in Nat /\ Lag(prog, Pass(Front)) \in Nat
      /\ AtNop(prog, Front) => Lag(prog, Front) = 1 + Lag(prog, Pass(Front))
  BY <1>0, <1>8, LagPasses
<1>10. Dropping = IF Pending THEN 1 + Lag(prog, Pass(Front)) ELSE Lag(prog, Front)
  BY DEF Dropping
<1>11. Dropping' = IF Pending' THEN 1 + Lag(prog, Pass(Front')) ELSE Lag(prog, Front')
  BY <1>0 DEF Dropping, Lag, NopsFrom, AtNop, NopAt, Pass
<1>12. Distance = 4 + Handing + 8 * Dropping
  BY <1>2, DistanceOf DEF Round
<1>13. ExOut' = Bubble => Distance' = 4 + Handing' + 8 * Dropping'
  BY <1>3, <1>4 DEF Distance, Round
<1>14. Handing \in 1 .. 8 /\ Handing' \in 1 .. 8 /\ (Decoded # None => Handing = 1)
  <2>1. fetch.st \in {"A", "B", "C", "S"} /\ fetch'.st \in {"A", "B", "C", "S"}
    BY <1>0 DEF TypeOK
  <2>2. Handing \in 1 .. 8 /\ (Decoded # None => Handing = 1)
    BY <2>1 DEF Handing
  <2>3. Handing' \in 1 .. 8
    BY <2>1 DEF Handing
  <2> QED BY <2>2, <2>3
<1> HIDE DEF Bubble, Taking, None
<1>15. CASE Passes(yBit) /\ ~Pending
  <2>1. Distance' = 4
    BY <1>3, <1>4, <1>5, <1>6, <1>15 DEF Distance
  <2>2. Dropping \in Nat
    BY <1>9, <1>10
  <2> QED BY <1>12, <1>14, <2>1, <2>2
<1>16. CASE Passes(yBit) /\ Pending
  <2>1. Front' = Pass(Front)
    <3>1. Front = [pc |-> Decoded, npc |-> FetchPc] /\ Front' = [pc |-> FetchPc, npc |-> FetchPc + 1]
      BY <1>16, FrontPasses
    <3> QED BY <3>1 DEF Pass
  <2>2. Dropping = 1 + Lag(prog, Pass(Front)) /\ Dropping' = Lag(prog, Pass(Front))
    BY <1>5, <1>10, <1>11, <1>16, <2>1
  <2>3. Handing = 1 /\ Distance' = 4 + Handing' + 8 * Dropping'
    BY <1>5, <1>6, <1>13, <1>14, <1>16
  <2> QED BY <1>9, <1>12, <1>14, <2>2, <2>3
<1>17. CASE ~Passes(yBit)
  <2>1. Decoded = None /\ Distance' = 4 + Handing' + 8 * Dropping'
    BY <1>5, <1>7, <1>13, <1>17
  <2>2. /\ fetch.st # "A" => Handing \in 3 .. 8
        /\ \/ Drops
           \/ Handing' < Handing
           \/ Handing' = Handing /\ fetch.st = "B" /\ fetch.seen
    BY <1>1, <1>2, <2>1, HandingStep
  <2>3. \/ Front' = Front /\ ~Drops
        \/ Drops /\ Front.pc = fetch.pc /\ Front' = Pass(Front)
    BY <1>17, FrontWaits
  <2>4. CASE Drops
    <3>1. AtNop(prog, Front) /\ Handing \in 3 .. 8 /\ Front' = Pass(Front)
      BY <2>2, <2>3, <2>4 DEF Drops, AtNop, NopAt, InProgram
    <3>2. ~Pending /\ ~Pending'
      BY <1>5, <1>17, <3>1 DEF LinkInv
    <3>3. Dropping = 1 + Dropping' /\ Dropping' \in Nat
      BY <1>9, <1>10, <1>11, <3>1, <3>2
    <3>4. Distance' = 4 + Handing' + 8 * Dropping' /\ Distance = 4 + Handing + 8 * (1 + Dropping')
      BY <1>12, <2>1, <3>3
    <3>5. Distance' \in 0 .. Distance - 1
      BY <1>14, <3>1, <3>3, <3>4, Nearer
    <3> QED BY <3>5
  <2>5. CASE ~Drops
    <3>1. Dropping' = Dropping /\ Dropping \in Nat
      BY <1>5, <1>9, <1>10, <1>11, <1>17, <2>3, <2>5
    <3>2. CASE Handing' < Handing
      <4>1. Distance' = 4 + Handing' + 8 * Dropping /\ Distance = 4 + Handing + 8 * Dropping
        BY <1>12, <2>1, <3>1
      <4>2. Distance' \in 0 .. Distance - 1
        BY <1>14, <3>1, <3>2, <4>1, Nearer
      <4> QED BY <4>2
    <3>3. CASE Handing' = Handing /\ fetch.st = "B" /\ fetch.seen
      <4>1. InProgram(Front.pc)
        <5>1. CASE Pending
          BY <5>1 DEF LinkInv
        <5>2. CASE ~Pending
          <6>1. SettledIn(prog, Front) = next
            <7>1. AtDecode = next
              BY DEF AtDecode, AtExecute, AfterIn
            <7> QED BY <5>2, <7>1 DEF LinkInv
          <6>2. CASE AtNop(prog, Front)
            BY <6>2 DEF AtNop, NopAt, InProgram
          <6>3. CASE ~AtNop(prog, Front)
            BY <1>8, <6>1, <6>3, SettledStays
          <6> QED BY <6>2, <6>3
        <5> QED BY <5>1, <5>2
      <4>2. Front.pc = fetch.pc
        <5>1. Holding /\ FetchPc = fetch.pc
          BY <3>3 DEF FetchPc, Holding
        <5> QED BY <2>1, <5>1 DEF Front
      <4>3. Waiting
        BY <2>1, <3>3, <4>1, <4>2 DEF Waiting, InstructionAnswer
      <4> QED BY <1>12, <2>1, <3>1, <3>3, <4>3
    <3> QED BY <2>2, <2>5, <3>2, <3>3
  <2> QED BY <2>4, <2>5
<1> QED BY <1>15, <1>16, <1>17

(* Whatever the stages hold, no cycle is lost and none undoes what another   *)
(* did (Advances): a cycle in which write-back has nothing brings the next   *)
(* instruction nearer to it, or waits for a cache that may answer.  With     *)
(* caches that answer this is what makes NeverStuck true                     *)
(* (Execute.sv:131, InstructionDecode.sv:92, InstructionFetch.sv:52).        *)
THEOREM EveryCycleAdvances ==
    ASSUME \A p \in Programs : Supported(p)
    PROVE  Spec => Advances
<1>1. PipeInit => PairInv
  BY DEF PipeInit, PairInv
<1>2. TypeOK /\ PInv /\ PairInv /\ [Tick]_vars => PairInv'
  <2> SUFFICES ASSUME TypeOK, PInv, PairInv, [Tick]_vars PROVE PairInv'
    OBVIOUS
  <2>1. CASE UNCHANGED vars
    BY <2>1 DEF vars, pipeVars, PairInv, Bubble, None
  <2>2. CASE Tick
    <3>1. PICK dAck \in BOOLEAN : MemStep(dAck)
      BY <2>2 DEF Tick, Cycle
    <3> QED BY <3>1, PairStep DEF PInv
  <2> QED BY <2>1, <2>2
<1>3. TypeOK /\ TypeOK' /\ HandOver /\ AnnulInv /\ PInv /\ PairInv /\ [Tick]_vars
          => [InProgram(next.pc) /\ memwb.slot = Bubble =>
                 Distance' \in 0 .. Distance - 1 \/ (Distance' = Distance /\ Waiting)]_vars
  <2> SUFFICES ASSUME TypeOK, TypeOK', HandOver, AnnulInv, PInv, PairInv, Tick,
                      InProgram(next.pc), memwb.slot = Bubble
               PROVE  Distance' \in 0 .. Distance - 1 \/ (Distance' = Distance /\ Waiting)
    OBVIOUS
  <2>1. PICK iAck \in BOOLEAN, dAck \in BOOLEAN, yBit \in BOOLEAN : Cycle(iAck, dAck, yBit)
    BY DEF Tick
  <2>2. FrontMoves(iAck) /\ BackMoves(dAck, yBit) /\ Base
    BY <2>1 DEF Cycle, FrontMoves, BackMoves, Base, PInv, TypeOK
  <2>3. CASE Older = Bubble /\ ExOut = Bubble
    BY <2>2, <2>3, FrontAdvances DEF PInv
  <2>4. CASE ~(Older = Bubble /\ ExOut = Bubble)
    <3>1. mem.st = "B" \/ exmem # Bubble \/ ExOut # Bubble
      BY <2>4 DEF Older
    <3>2. ExStep /\ MemStep(dAck) /\ (dAck => DataAnswer)
      BY <2>2 DEF BackMoves
    <3>3. Distance' \in 0 .. Distance - 1 \/ (Distance' = Distance /\ DataAnswer)
      BY <3>1, <3>2, BackAdvances DEF PInv
    <3> QED BY <3>3 DEF Waiting
  <2> QED BY <2>3, <2>4
<1> QED
  BY <1>1, <1>2, <1>3, InProgramOrder, TypeCorrect, HandOverAlways, AnnulAlways, PTL
  DEF Spec, Advances

(* An instruction is never farther from write-back than a bound that depends *)
(* only on how many nops follow one another in a program: with Advances, so  *)
(* many cycles, and those in which a cache is awaited, retire one            *)
(* (Core.sv:114-194).                                                        *)
THEOREM NeverFar ==
    ASSUME \A p \in Programs : Supported(p)
    PROVE  Spec => [](Distance \in 0 .. 12 + Round * (2 + Spare))
<1>1. TypeOK /\ PInv => Distance \in 0 .. 12 + Round * (2 + Spare)
  <2> SUFFICES ASSUME TypeOK, PInv PROVE Distance \in 0 .. 12 + 8 * (2 + Spare)
    BY DEF Round
  <2>1. Spare \in Nat /\ prog \in Programs
    BY ProgramAssumption DEF TypeOK
  <2>2. ASSUME NEW n \in Point PROVE Lag(prog, n) \in 0 .. 1 + Spare
    <3>1. n.npc \in Nat
      BY DEF Point
    <3>2. NopsFrom(prog, n.npc) \in 0 .. Spare
      BY <2>1, <3>1, NopsCounted
    <3> QED BY <2>1, <3>2 DEF Lag
  <2>3. Front \in Point /\ Pass(Front) \in Point
    BY PassPoint DEF PInv, LinkInv, Sound
  <2>4. Dropping \in 0 .. 2 + Spare
    <3>1. Lag(prog, Front) \in 0 .. 1 + Spare /\ Lag(prog, Pass(Front)) \in 0 .. 1 + Spare
      BY <2>2, <2>3
    <3> QED BY <2>1, <3>1 DEF Dropping
  <2>5. Handing \in 1 .. 8
    <3>1. fetch.st \in {"A", "B", "C", "S"}
      BY DEF TypeOK
    <3> QED BY <3>1 DEF Handing
  <2>6. Distance \in 0 .. 4 \/ Distance = 4 + Handing + 8 * Dropping
    BY DEF Distance, Round
  <2> QED BY <2>1, <2>4, <2>5, <2>6
<1> QED BY <1>1, InProgramOrder, TypeCorrect, PTL
=============================================================================
