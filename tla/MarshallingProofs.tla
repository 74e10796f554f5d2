------------------------- MODULE MarshallingProofs --------------------------
(***************************************************************************)
(* Every store puts its bytes where the architecture says, and every load   *)
(* finds them there, whatever Contents the registers and memory have.       *)
(*                                                                         *)
(* Each of the two ways to store is one line per byte (CoreStoreIs,         *)
(* CallStoreIs), each of the three ways to load one value (CoreLoadIs,      *)
(* GetUserIs, SwapIs); sizes and offsets are the fifteen of DataPlaces.     *)
(* The second part is about the conversions of limits, ids, descriptor      *)
(* sets, vectors and command lines.  The third is about structures: memory  *)
(* that holds some of the fields of one (Holding) is what their assignments *)
(* leave in any order, and what the program's compiler lays out.            *)
(***************************************************************************)
EXTENDS Marshalling, Induction, FiniteSetTheorems, SequenceTheorems, TLAPS

(* The fifteen places a datum can have in a doubleword.                      *)
LEMMA DataPlaces ==
    ASSUME NEW size \in Sizes, NEW o \in Offsets(size)
    PROVE  \/ size = 1 /\ o \in 0 .. 7
           \/ size = 2 /\ o \in {0, 2, 4, 6}
           \/ size = 4 /\ o \in {0, 4}
           \/ size = 8 /\ o = 0
  BY DEF Sizes, Offsets, Lane

(* Through the cache: inverting the offset undoes the swap of the beat, and  *)
(* moving the wanted half down undoes the swap of the words.                 *)
LEMMA CoreStoreIs ==
    ASSUME NEW before, NEW v,
           NEW size \in Sizes, NEW o \in Offsets(size), NEW k \in Lane
    PROVE  CoreStore(before, size, o, InRegisters(v, size))[k] =
               IF k \in o .. o + size - 1 THEN v[o + size - 1 - k] ELSE before[k]
  <1> DEFINE w == InRegisters(v, size)
             lane == LaneOf(size, o)
             up == lane % 4
             down == 4 * (o \div 4)
             half == RightBy(WordsSwapped(w), down)
             data == IF size = 8 THEN WordsSwapped(w) ELSE LeftBy(half, up)
             row == cse502_be64toh(before)
  <1>1. lane = 8 - size - o
    BY DataPlaces DEF LaneOf
  <1>2. 7 - k \in Lane
    BY DEF Lane
  <1>3. row[7 - k] = before[k]
    BY <1>2 DEF cse502_be64toh, Lane
  <1>4. CoreStore(before, size, o, w)[k] =
            IF 7 - k \in lane .. lane + size - 1 THEN data[7 - k] ELSE row[7 - k]
    BY <1>2 DEF CoreStore, Stored, cse502_be64toh
  <1>5. ASSUME k \in o .. o + size - 1
        PROVE  data[7 - k] = v[o + size - 1 - k]
    <2>1. CASE size = 8
      <3>1. data[7 - k] = w[(7 - k + 4) % 8]
        BY <2>1, <1>2 DEF WordsSwapped
      <3>2. /\ (7 - k + 4) % 8 \in Lane
            /\ (((7 - k + 4) % 8) + 4) % 8 = 7 - k
        BY DEF Lane
      <3>3. w[(7 - k + 4) % 8] = v[7 - k]
        BY <2>1, <3>2 DEF InRegisters, WordsSwapped
      <3>4. o + size - 1 - k = 7 - k
        BY <2>1, DataPlaces DEF Lane
      <3> QED
        BY <3>1, <3>3, <3>4
    <2>2. CASE size # 8
      <3>1. /\ up \in 0 .. 3 /\ down \in {0, 4}
            /\ 7 - k >= up
            /\ 7 - k - up + down \in 4 .. 7
            /\ 7 - k - up + down - 4 = o + size - 1 - k
        <4>1. CASE o < 4
          BY <4>1, <1>1, <1>5, <2>2, DataPlaces DEF Lane
        <4>2. CASE o >= 4
          BY <4>2, <1>1, <1>5, <2>2, DataPlaces DEF Lane
        <4> QED
          BY <4>1, <4>2, DataPlaces
      <3>2. w = v
        BY <2>2 DEF InRegisters
      <3> HIDE DEF up, down, w
      <3>3. data[7 - k] = half[7 - k - up]
        BY <3>1, <2>2, <1>2 DEF LeftBy
      <3>4. 7 - k - up \in Lane /\ 7 - k - up + down \in Lane
        BY <3>1, <1>2 DEF Lane
      <3>5. half[7 - k - up] = WordsSwapped(w)[7 - k - up + down]
        BY <3>4 DEF RightBy
      <3>6. (7 - k - up + down + 4) % 8 = o + size - 1 - k
        BY <3>1, DataPlaces DEF Lane
      <3> QED
        BY <3>3, <3>4, <3>5, <3>6, <3>2, <2>2 DEF WordsSwapped
    <2> QED
      BY <2>1, <2>2
  <1> QED
    BY <1>1, <1>3, <1>4, <1>5, DataPlaces DEF Lane

(* Through the accessors: the value is swapped, then stored by the host.     *)
LEMMA CallStoreIs ==
    ASSUME NEW before, NEW v,
           NEW size \in Sizes, NEW o \in Offsets(size), NEW k \in Lane
    PROVE  StoreTarget(before, size, o, v)[k] =
               IF k \in o .. o + size - 1 THEN v[o + size - 1 - k] ELSE before[k]
  <1>1. StoreTarget(before, size, o, v)[k] =
            IF k \in o .. o + size - 1 THEN bswap(v, size)[k - o] ELSE before[k]
    BY DEF StoreTarget, StoreHost
  <1>2. ASSUME k \in o .. o + size - 1
        PROVE  bswap(v, size)[k - o] = v[o + size - 1 - k]
    <2>1. /\ k - o \in Lane /\ k - o < size
          /\ size - 1 - (k - o) = o + size - 1 - k
      BY <1>2, DataPlaces DEF Lane
    <2> QED
      BY <2>1 DEF bswap
  <1> QED
    BY <1>1, <1>2

(* What a store makes of memory, byte by byte. *)
Puts(mem, before, v, size, o) ==
    \A k \in Lane :
        mem[k] = IF k \in o .. o + size - 1 THEN v[o + size - 1 - k] ELSE before[k]

(* A store that does this to every byte keeps the property.                  *)
LEMMA BytesStored ==
    ASSUME NEW before, NEW v, NEW mem, NEW size \in Sizes, NEW o \in Offsets(size),
           Puts(mem, before, v, size, o),
           passed' = [by |-> "store", size |-> size, at |-> o, value |-> v,
                      before |-> before, mem |-> mem]
    PROVE  StoresAgree'
  <1>1. ASSUME NEW k \in Lane, k < size
        PROVE  mem[o + size - 1 - k] = v[k]
    <2>1. /\ o + size - 1 - k \in Lane
          /\ o + size - 1 - k \in o .. o + size - 1
          /\ o + size - 1 - (o + size - 1 - k) = k
      BY <1>1, DataPlaces DEF Lane
    <2> QED
      BY <2>1 DEF Puts
  <1>2. BigEndianAt(mem, size, o) = Extended(v, size, FALSE)
    BY <1>1 DEF BigEndianAt, Extended
  <1>3. \A a \in Lane \ (o .. o + size - 1) : mem[a] = before[a]
    BY DEF Puts
  <1> QED
    BY <1>2, <1>3 DEF StoresAgree

(* The extension depends on the lanes of the datum only.                     *)
LEMMA ExtendedByLanes ==
    ASSUME NEW v, NEW w, NEW size \in Sizes, NEW signed,
           \A k \in Lane : k < size => v[k] = w[k]
    PROVE  Extended(v, size, signed) = Extended(w, size, signed)
  <1>1. size - 1 \in Lane /\ size - 1 < size
    BY DEF Sizes, Lane
  <1> QED
    BY <1>1 DEF Extended

(* Through the cache: the shift is the number of bytes behind the datum, and *)
(* a doubleword is put into its registers word by word.                      *)
LEMMA CoreLoadIs ==
    ASSUME NEW mem, NEW size \in Sizes, NEW o \in Offsets(size), NEW signed \in BOOLEAN,
           size \in {1, 2} \/ ~signed
    PROVE  InRegisters(CoreLoad(mem, size, o, signed), size) =
               Extended(BigEndianAt(mem, size, o), size, signed)
  <1> DEFINE row == cse502_be64toh(mem)
             found == Found(row, size, o)
  <1>1. CASE size # 8
    <2>1. LoadShift(size, o) = 8 - size - o
      BY <1>1, DataPlaces DEF LoadShift
    <2>2. ASSUME NEW k \in Lane, k < size
          PROVE  found[k] = BigEndianAt(mem, size, o)[k]
      <3> DEFINE shift == LoadShift(size, o)
      <3>1. /\ k + shift \in Lane
            /\ 7 - (k + shift) = o + size - 1 - k
        BY <2>1, <2>2, <1>1, DataPlaces DEF Lane
      <3> HIDE DEF shift
      <3>2. RightBy(row, shift)[k] = row[k + shift]
        BY <3>1 DEF RightBy
      <3>3. row[k + shift] = mem[o + size - 1 - k]
        BY <3>1 DEF cse502_be64toh
      <3>4. found = RightBy(row, shift)
        BY <1>1 DEF Found, shift
      <3> QED
        BY <2>2, <3>2, <3>3, <3>4 DEF BigEndianAt
    <2>3. Extended(found, size, signed) = Extended(BigEndianAt(mem, size, o), size, signed)
      BY <2>2, ExtendedByLanes
    <2> QED
      BY <1>1, <2>3 DEF InRegisters, CoreLoad, WriteBack
  <1>2. CASE size = 8
    <2> DEFINE value == Extended(found, 8, signed)
    <2>1. o = 0 /\ ~signed
      BY <1>2, DataPlaces
    <2>2. InRegisters(CoreLoad(mem, size, o, signed), size) = WordsSwapped(value)
      BY <1>2 DEF InRegisters, CoreLoad, WriteBack
    <2>3. ASSUME NEW k \in Lane
          PROVE  WordsSwapped(value)[k] = mem[7 - k]
      <3>1. /\ (k + 4) % 8 \in Lane /\ (k + 4) % 8 < 8
            /\ (((k + 4) % 8) + 4) % 8 = k
        BY DEF Lane
      <3>2. WordsSwapped(value)[k] = value[(k + 4) % 8]
        BY DEF WordsSwapped
      <3>3. value[(k + 4) % 8] = found[(k + 4) % 8]
        BY <3>1 DEF Extended
      <3>4. found[(k + 4) % 8] = row[k]
        BY <1>2, <3>1 DEF Found, WordsSwapped
      <3>5. row[k] = mem[7 - k]
        BY DEF cse502_be64toh
      <3> QED
        BY <3>2, <3>3, <3>4, <3>5
    <2>4. WordsSwapped(value) = [k \in Lane |-> mem[7 - k]]
      BY <2>3 DEF WordsSwapped
    <2>5. Extended(BigEndianAt(mem, 8, 0), 8, FALSE) = [k \in Lane |-> mem[7 - k]]
      BY DEF Extended, BigEndianAt, Lane
    <2>6. signed = FALSE
      BY <2>1
    <2> QED
      BY <1>2, <2>1, <2>2, <2>4, <2>5, <2>6
  <1> QED
    BY <1>1, <1>2

(* The accessors undo the order of the host.                                 *)
LEMMA SwappedIs ==
    ASSUME NEW mem, NEW size \in Sizes, NEW o \in Offsets(size)
    PROVE  bswap(LoadHost(mem, size, o), size) = BigEndianAt(mem, size, o)
  <1>1. ASSUME NEW k \in Lane, k < size
        PROVE  LoadHost(mem, size, o)[size - 1 - k] = mem[o + size - 1 - k]
    <2>1. /\ size - 1 - k \in Lane /\ size - 1 - k < size
          /\ o + (size - 1 - k) = o + size - 1 - k
      BY <1>1, DataPlaces DEF Lane
    <2> QED
      BY <2>1 DEF LoadHost
  <1> QED
    BY <1>1 DEF bswap, BigEndianAt

(* __get_user: the extension of the inner load does not reach the result.    *)
LEMMA GetUserIs ==
    ASSUME NEW mem, NEW size \in Sizes, NEW o \in Offsets(size), NEW signed \in BOOLEAN
    PROVE  get_user(mem, size, o, signed) = Extended(BigEndianAt(mem, size, o), size, signed)
  <1>1. LoadTarget(mem, size, o, size = 4) = Extended(BigEndianAt(mem, size, o), size, size = 4)
    BY SwappedIs DEF LoadTarget
  <1>2. \A k \in Lane : k < size =>
            LoadTarget(mem, size, o, size = 4)[k] = BigEndianAt(mem, size, o)[k]
    BY <1>1 DEF Extended
  <1> QED
    BY <1>2, ExtendedByLanes DEF get_user

(* A field of the host's layout, swapped afterwards.                         *)
LEMMA SwapIs ==
    ASSUME NEW mem, NEW size \in Sizes, NEW o \in Offsets(size)
    PROVE  tswap(LoadHost(mem, size, o), size) =
               Extended(BigEndianAt(mem, size, o), size, FALSE)
  <1>1. BigEndianAt(mem, size, o) = Extended(BigEndianAt(mem, size, o), size, FALSE)
    <2> DEFINE value == BigEndianAt(mem, size, o)
    <2>1. \A k \in Lane : ~(k < size) => value[k] = 0
      BY DEF BigEndianAt
    <2>2. value = [k \in Lane |-> value[k]]
      BY DEF BigEndianAt
    <2> HIDE DEF value
    <2>3. value = Extended(value, size, FALSE)
      BY <2>1, <2>2 DEF Extended
    <2> QED
      BY <2>3 DEF value
  <1> QED
    BY <1>1, SwappedIs DEF tswap

-----------------------------------------------------------------------------
(* Whatever else is converted is neither a store nor a load.                 *)
LEMMA OtherActions ==
    ASSUME SetLimit \/ GetLimit \/ NameResources \/ TellId \/ GiveId \/ Select
               \/ LockVector \/ LayStack \/ FillStruct \/ ReadStruct
    PROVE  StoresAgree' /\ LoadsAgree'
  <1>1. ASSUME passed'.by \notin {"store", "load"}
        PROVE  StoresAgree' /\ LoadsAgree'
    BY <1>1 DEF StoresAgree, LoadsAgree
  <1>2. SetLimit => passed'.by = "setrlimit"
    BY DEF SetLimit
  <1>3. GetLimit => passed'.by = "getrlimit"
    BY DEF GetLimit
  <1>4. NameResources => passed'.by = "resource"
    BY DEF NameResources
  <1>5. TellId => passed'.by = "getuid"
    BY DEF TellId
  <1>6. GiveId => passed'.by = "setreuid"
    BY DEF GiveId
  <1>7. Select => passed'.by = "select"
    BY DEF Select
  <1>8. LockVector => passed'.by = "iovec"
    BY DEF LockVector
  <1>9. LayStack => passed'.by = "argv"
    BY DEF LayStack
  <1>10. FillStruct => passed'.by = "fill"
    BY DEF FillStruct
  <1>11. ReadStruct => passed'.by = "read"
    BY DEF ReadStruct
  <1> QED
    BY <1>1, <1>2, <1>3, <1>4, <1>5, <1>6, <1>7, <1>8, <1>9, <1>10, <1>11

(* A store puts the bytes of the datum in memory in the order of the         *)
(* architecture and touches no other byte, through the cache of the core and *)
(* through the accessors of the system calls.                                *)
THEOREM StoresRight == PassSpec => []StoresAgree
  <1>1. PassInit => StoresAgree
    BY DEF PassInit, Nothing, StoresAgree
  <1>2. StoresAgree /\ [Pass]_passed => StoresAgree'
    <2> SUFFICES ASSUME StoresAgree, [Pass]_passed
                 PROVE  StoresAgree'
      OBVIOUS
    <2>1. CASE CoreStores
      <3>1. PICK before \in Contents, v \in Contents, d \in Data :
                Store(d[1], d[2], v, before, CoreStore(before, d[1], d[2], InRegisters(v, d[1])))
        BY <2>1 DEF CoreStores
      <3> DEFINE size == d[1]
                 o == d[2]
                 mem == CoreStore(before, size, o, InRegisters(v, size))
      <3>2. size \in Sizes /\ o \in Offsets(size)
        BY DEF Data
      <3>3. passed' = [by |-> "store", size |-> size, at |-> o, value |-> v,
                       before |-> before, mem |-> mem]
        BY <3>1 DEF Store
      <3> HIDE DEF size, o
      <3>4. Puts(mem, before, v, size, o)
        BY <3>2, CoreStoreIs DEF Puts
      <3> HIDE DEF mem
      <3> QED
        BY <3>2, <3>3, <3>4, BytesStored
    <2>2. CASE CallStores
      <3>1. PICK before \in Contents, v \in Contents, d \in Data :
                Store(d[1], d[2], v, before, StoreTarget(before, d[1], d[2], v))
        BY <2>2 DEF CallStores
      <3> DEFINE size == d[1]
                 o == d[2]
                 mem == StoreTarget(before, size, o, v)
      <3>2. size \in Sizes /\ o \in Offsets(size)
        BY DEF Data
      <3>3. passed' = [by |-> "store", size |-> size, at |-> o, value |-> v,
                       before |-> before, mem |-> mem]
        BY <3>1 DEF Store
      <3> HIDE DEF size, o
      <3>4. Puts(mem, before, v, size, o)
        BY <3>2, CallStoreIs DEF Puts
      <3> HIDE DEF mem
      <3> QED
        BY <3>2, <3>3, <3>4, BytesStored
    <2>3. CASE CoreLoads \/ CallLoads \/ CallSwaps
      BY <2>3 DEF CoreLoads, CallLoads, CallSwaps, Load, StoresAgree
    <2>4. CASE UNCHANGED passed
      BY <2>4 DEF StoresAgree
    <2> QED
      BY <2>1, <2>2, <2>3, <2>4, OtherActions DEF Pass
  <1> QED
    BY <1>1, <1>2, PTL DEF PassSpec

(* A load returns those bytes, extended as its type says, on either side,    *)
(* whoever stored them.                                                      *)
THEOREM LoadsRight == PassSpec => []LoadsAgree
  <1>1. PassInit => LoadsAgree
    BY DEF PassInit, Nothing, LoadsAgree
  <1>2. LoadsAgree /\ [Pass]_passed => LoadsAgree'
    <2> SUFFICES ASSUME LoadsAgree, [Pass]_passed
                 PROVE  LoadsAgree'
      OBVIOUS
    <2>1. CASE CoreStores \/ CallStores
      BY <2>1 DEF CoreStores, CallStores, Store, LoadsAgree
    <2>2. CASE CoreLoads
      <3>1. PICK d \in Data, signed \in BOOLEAN :
                /\ d[1] \in {1, 2} \/ ~signed
                /\ Load(d[1], d[2], signed,
                        InRegisters(CoreLoad(passed.mem, d[1], d[2], signed), d[1]))
        BY <2>2 DEF CoreLoads
      <3>2. d[1] \in Sizes /\ d[2] \in Offsets(d[1])
        BY DEF Data
      <3> QED
        BY <3>1, <3>2, CoreLoadIs DEF Load, LoadsAgree
    <2>3. CASE CallLoads
      <3>1. PICK d \in Data, signed \in BOOLEAN :
                Load(d[1], d[2], signed, get_user(passed.mem, d[1], d[2], signed))
        BY <2>3 DEF CallLoads
      <3>2. d[1] \in Sizes /\ d[2] \in Offsets(d[1])
        BY DEF Data
      <3> QED
        BY <3>1, <3>2, GetUserIs DEF Load, LoadsAgree
    <2>4. CASE CallSwaps
      <3>1. PICK d \in Data :
                Load(d[1], d[2], FALSE, tswap(LoadHost(passed.mem, d[1], d[2]), d[1]))
        BY <2>4 DEF CallSwaps
      <3>2. d[1] \in Sizes /\ d[2] \in Offsets(d[1])
        BY DEF Data
      <3> QED
        BY <3>1, <3>2, SwapIs DEF Load, LoadsAgree
    <2>5. CASE UNCHANGED passed
      BY <2>5 DEF LoadsAgree
    <2> QED
      BY <2>1, <2>2, <2>3, <2>4, <2>5, OtherActions DEF Pass
  <1> QED
    BY <1>1, <1>2, PTL DEF PassSpec
-----------------------------------------------------------------------------
(* What the conversions of Conversions promise, for longs of every width,   *)
(* and for vectors, command lines and sets of descriptors of every size.    *)
(* Powers, sums and the places of strings are functions defined by          *)
(* recursion: a lemma unfolds each (PowerOfTwo, SumUnfolds, VectorUnfolds,   *)
(* HostAtUnfolds, GuestPtrUnfolds), and an induction says what it computes.  *)

(* Powers of two. *)
LEMMA PowerOfTwo ==
    /\ Pow2 \in [Nat -> Nat]
    /\ Pow2[0] = 1
    /\ \A n \in Nat : Pow2[n + 1] = 2 * Pow2[n]
<1> DEFINE g == [p \in Nat \X Nat |-> 2 * p[2]]
<1>1. IsRule(g, Nat)
  BY DEF IsRule
<1>2. \A k, m \in Nat : g[<<k, m>>] = 2 * m
  OBVIOUS
<1> HIDE DEF g
<1>3. PICK f : Recurses(f, Nat, 1, g)
  BY <1>1, Recursion
<1>4. \A n \in Nat : f[n + 1] = 2 * f[n]
  BY <1>2, <1>3 DEF Recurses
<1>5. \A n \in Nat : f[n] = IF n = 0 THEN 1 ELSE 2 * f[n - 1]
  <2> TAKE n \in Nat
  <2>1. n # 0 => n - 1 \in Nat /\ (n - 1) + 1 = n
    OBVIOUS
  <2> QED BY <1>3, <1>4, <2>1 DEF Recurses
<1>6. \E h : h = [n \in Nat |-> IF n = 0 THEN 1 ELSE 2 * h[n - 1]]
  <2>1. f = [n \in Nat |-> IF n = 0 THEN 1 ELSE 2 * f[n - 1]]
    BY <1>3, <1>5 DEF Recurses
  <2> QED BY <2>1
<1>7. Pow2 = [n \in Nat |-> IF n = 0 THEN 1 ELSE 2 * Pow2[n - 1]]
  BY <1>6 DEF Pow2
<1>8. Pow2[0] = 1 /\ \A n \in Nat : Pow2[n + 1] = 2 * Pow2[n]
  BY <1>7
<1> DEFINE S == {n \in Nat : Pow2[n] \in Nat}
<1>9. S = Nat
  <2>1. S \in SUBSET Nat /\ 0 \in S /\ \A n \in S : n + 1 \in S
    BY <1>8
  <2> HIDE DEF S
  <2> QED BY <2>1, Induction
<1>10. \A n \in Nat : Pow2[n] \in Nat
  BY <1>9
<1> QED BY <1>7, <1>8, <1>10

LEMMA PowerGrows ==
    /\ \A n \in Nat : Pow2[n] > n /\ Pow2[n] \in Nat
    /\ \A m, n \in Nat : m <= n => Pow2[m] <= Pow2[n]
<1>1. \A n \in Nat : Pow2[n] > n
  <2> DEFINE S == {n \in Nat : Pow2[n] > n}
  <2>1. S \in SUBSET Nat /\ 0 \in S
    BY PowerOfTwo
  <2>2. \A n \in S : n + 1 \in S
    BY PowerOfTwo
  <2> HIDE DEF S
  <2>3. S = Nat
    BY <2>1, <2>2, Induction
  <2> QED BY <2>3 DEF S
<1>2. ASSUME NEW m \in Nat, NEW n \in Nat, m <= n PROVE Pow2[m] <= Pow2[n]
  <2> DEFINE S == {k \in Nat : m <= k => Pow2[m] <= Pow2[k]}
  <2>1. S \in SUBSET Nat
    OBVIOUS
  <2>2. 0 \in S
    BY PowerOfTwo
  <2>3. ASSUME NEW k \in S PROVE k + 1 \in S
    <3>1. k \in Nat /\ k + 1 \in Nat /\ Pow2[k + 1] = 2 * Pow2[k] /\ Pow2[k] \in Nat
          /\ Pow2[m] \in Nat /\ (m <= k => Pow2[m] <= Pow2[k])
      BY PowerOfTwo
    <3>2. m <= k + 1 => m <= k \/ m = k + 1
      BY <3>1
    <3> QED BY <3>1, <3>2
  <2> HIDE DEF S
  <2>4. S = Nat
    BY <2>1, <2>2, <2>3, Induction
  <2> QED BY <1>2, <2>4 DEF S
<1> QED BY <1>1, <1>2, PowerOfTwo

(* Remainders. *)
LEMMA SmallRemainder ==
    ASSUME NEW n \in Nat, NEW m \in Nat, n < m
    PROVE  n % m = n
OBVIOUS

LEMMA RemainderRange ==
    ASSUME NEW n \in Nat, NEW m \in Nat, m > 0
    PROVE  n % m \in 0 .. m - 1
OBVIOUS

(* What each conversion leaves in passed. *)
LEMMA WhoPassed ==
    ASSUME Pass
    PROVE  \/ GetLimit /\ passed'.by = "getrlimit" /\ passed.by \in {"none", "setrlimit"}
           \/ SetLimit /\ passed'.by = "setrlimit"
           \/ NameResources /\ passed'.by = "resource"
           \/ TellId /\ passed'.by = "getuid"
           \/ GiveId /\ passed'.by = "setreuid"
           \/ Select /\ passed'.by = "select"
           \/ LockVector /\ passed'.by = "iovec"
           \/ LayStack /\ passed'.by = "argv"
           \/ /\ CoreStores \/ CallStores \/ CoreLoads \/ CallLoads \/ CallSwaps
              /\ passed'.by \in {"store", "load"}
           \/ FillStruct /\ passed'.by = "fill"
           \/ ReadStruct /\ passed'.by = "read"
<1>1. SetLimit => passed'.by = "setrlimit"
  BY DEF SetLimit
<1>2. GetLimit => passed'.by = "getrlimit"
  BY DEF GetLimit
<1>3. NameResources => passed'.by = "resource"
  BY DEF NameResources
<1>4. TellId => passed'.by = "getuid"
  BY DEF TellId
<1>5. GiveId => passed'.by = "setreuid"
  BY DEF GiveId
<1>6. Select => passed'.by = "select"
  BY DEF Select
<1>7. LockVector => passed'.by = "iovec"
  BY DEF LockVector
<1>8. LayStack => passed'.by = "argv"
  BY DEF LayStack
<1>9. CoreStores \/ CallStores => passed'.by = "store"
  BY DEF CoreStores, CallStores, Store
<1>10. CoreLoads \/ CallLoads \/ CallSwaps => passed'.by = "load"
  BY DEF CoreLoads, CallLoads, CallSwaps, Load
<1>11. FillStruct => passed'.by = "fill"
  BY DEF FillStruct
<1>12. ReadStruct => passed'.by = "read"
  BY DEF ReadStruct
<1> QED
  BY <1>1, <1>2, <1>3, <1>4, <1>5, <1>6, <1>7, <1>8, <1>9, <1>10, <1>11, <1>12 DEF Pass

-----------------------------------------------------------------------------
(* Limits and resources. *)

(* The limits in passed are what setrlimit made of them. *)
LimitInv ==
    /\ LimitKept
    /\ passed.by = "setrlimit" =>
          passed.guest \in abi_ulong /\ passed.host = target_to_host_rlim(passed.guest)

(* A guest long has two halves, and a host long is at least two of them.     *)
LEMMA Widths ==
    /\ Pow2[AbiBits] \in Nat /\ Pow2[AbiBits - 1] \in Nat /\ Pow2[HostBits] \in Nat
    /\ Pow2[AbiBits - 1] >= 1
    /\ Pow2[AbiBits] = 2 * Pow2[AbiBits - 1]
    /\ Pow2[HostBits] >= 2 * Pow2[AbiBits]
<1>1. /\ AbiBits \in Nat /\ AbiBits - 1 \in Nat /\ AbiBits + 1 \in Nat /\ HostBits \in Nat
      /\ (AbiBits - 1) + 1 = AbiBits /\ AbiBits + 1 <= HostBits
  BY WidthAssumption
<1>2. Pow2[AbiBits + 1] <= Pow2[HostBits]
  BY <1>1, PowerGrows
<1>3. Pow2[AbiBits + 1] = 2 * Pow2[AbiBits] /\ Pow2[AbiBits] = 2 * Pow2[AbiBits - 1]
  BY <1>1, PowerOfTwo
<1>4. /\ Pow2[AbiBits] \in Nat /\ Pow2[AbiBits - 1] \in Nat /\ Pow2[HostBits] \in Nat
      /\ Pow2[AbiBits - 1] > AbiBits - 1
  BY <1>1, PowerGrows
<1> QED BY <1>1, <1>2, <1>3, <1>4

(* The guest's view of a host limit. *)
LEMMA LimitShown ==
    ASSUME NEW r \in rlim_t
    PROVE  LET v == host_to_target_rlim(r)
           IN  /\ \/ v = r
                  \/ v >= TARGET_RLIM_INFINITY /\ r >= TARGET_RLIM_INFINITY
               /\ r < TARGET_RLIM_INFINITY => v = r
               /\ r = RLIM_INFINITY => v = TARGET_RLIM_INFINITY
<1> DEFINE word == Pow2[AbiBits]
           half == Pow2[AbiBits - 1]
           host == Pow2[HostBits]
           low == r % word
<1>1. word \in Nat /\ half \in Nat /\ host \in Nat /\ half >= 1 /\ word = 2 * half
      /\ host >= 2 * word
  BY Widths
<1>2. r \in Nat /\ r < host
  BY <1>1 DEF rlim_t
<1> HIDE DEF word, half, host
<1>3. low \in 0 .. word - 1 /\ (r < word => low = r)
  BY <1>1, <1>2, SmallRemainder, RemainderRange
<1>4. host_to_target_rlim(r) =
          IF r = host - 1 \/ r # (IF low < half THEN low ELSE low + host - word)
          THEN half - 1 ELSE low
  BY DEF host_to_target_rlim, RLIM_INFINITY, TARGET_RLIM_INFINITY, SignExtended,
         word, half, host
<1>5. TARGET_RLIM_INFINITY = half - 1 /\ RLIM_INFINITY = host - 1
  BY DEF TARGET_RLIM_INFINITY, RLIM_INFINITY, half, host
<1> DEFINE v == host_to_target_rlim(r)
<1> SUFFICES /\ v = r \/ (v >= half - 1 /\ r >= half - 1)
             /\ r < half - 1 => v = r
             /\ r = host - 1 => v = half - 1
  BY <1>5
<1>6. low \in Nat /\ low < word
  BY <1>1, <1>3
<1>7. v = IF r = host - 1 \/ r # (IF low < half THEN low ELSE low + host - word)
          THEN half - 1 ELSE low
  BY <1>4
<1> HIDE DEF low, v
<1>8. CASE r = host - 1
  BY <1>1, <1>7, <1>8
<1>9. CASE r # host - 1 /\ low < half
  BY <1>1, <1>2, <1>3, <1>6, <1>7, <1>9
<1>10. CASE r # host - 1 /\ ~(low < half)
  BY <1>1, <1>2, <1>3, <1>6, <1>7, <1>10
<1> QED
  BY <1>8, <1>9, <1>10

(* NOFILE and NPROC change places, and nothing else does. *)
LEMMA ResourceIs ==
    ASSUME NEW c \in Nat
    PROVE  target_to_host_resource(c) = IF c = 7 THEN 6 ELSE IF c = 6 THEN 7 ELSE c
<1>1. DOMAIN TargetCodes = {"NPROC", "NOFILE"}
  BY DEF TargetCodes
<1>2. /\ TargetCodes["NPROC"] = 7 /\ TargetCodes["NOFILE"] = 6
      /\ HostCodes["NPROC"] = 6 /\ HostCodes["NOFILE"] = 7
  BY DEF TargetCodes, HostCodes
<1>3. CASE c = 7
  <2>1. (CHOOSE r \in DOMAIN TargetCodes : TargetCodes[r] = c) = "NPROC"
    BY <1>1, <1>2, <1>3
  <2> QED BY <1>1, <1>2, <1>3, <2>1 DEF target_to_host_resource
<1>4. CASE c = 6
  <2>1. (CHOOSE r \in DOMAIN TargetCodes : TargetCodes[r] = c) = "NOFILE"
    BY <1>1, <1>2, <1>4
  <2> QED BY <1>1, <1>2, <1>4, <2>1 DEF target_to_host_resource
<1>5. CASE c # 6 /\ c # 7
  BY <1>1, <1>2, <1>5 DEF target_to_host_resource
<1> QED BY <1>3, <1>4, <1>5

LEMMA PairSize ==
    ASSUME NEW a, NEW b
    PROVE  Cardinality({a, b}) = IF a = b THEN 1 ELSE 2
<1>1. IsFiniteSet({b}) /\ Cardinality({b}) = 1
  BY FS_Singleton
<1>2. CASE a = b
  <2>1. {a, b} = {b}
    BY <1>2
  <2> QED BY <1>1, <1>2, <2>1
<1>3. CASE a # b
  <2>1. {a, b} = {b} \cup {a} /\ a \notin {b}
    BY <1>3
  <2>2. Cardinality({b} \cup {a}) = Cardinality({b}) + 1
    BY <1>1, <2>1, FS_AddElement
  <2> QED BY <1>1, <1>3, <2>1, <2>2
<1> QED BY <1>2, <1>3

(* The program is never shown a limit below the host's, reads a limit back   *)
(* as it has set it, and names no two resources that are one on the host     *)
(* (target_to_host_rlim, host_to_target_rlim, target_to_host_resource), for  *)
(* longs of every width.                                                     *)
THEOREM LimitsRight == PassSpec => []LimitKept
<1>1. PassInit => LimitInv
  BY DEF PassInit, Nothing, LimitInv, LimitKept
<1>2. LimitInv /\ [Pass]_passed => LimitInv'
  <2> SUFFICES ASSUME LimitInv, [Pass]_passed PROVE LimitInv'
    OBVIOUS
  <2>1. CASE GetLimit /\ passed'.by = "getrlimit"
    <3>1. PICK r \in IF passed.by = "setrlimit" THEN {passed.host} ELSE rlim_t :
              passed' = [by |-> "getrlimit", host |-> r, guest |-> host_to_target_rlim(r),
                         set |-> IF passed.by = "setrlimit" THEN passed.guest ELSE -1]
      BY <2>1 DEF GetLimit
    <3> DEFINE v == host_to_target_rlim(r)
               set == IF passed.by = "setrlimit" THEN passed.guest ELSE -1
    <3>2. /\ passed'.by = "getrlimit" /\ passed'.host = r /\ passed'.guest = v
          /\ passed'.set = set
      BY <3>1
    <3>3. r \in rlim_t
      <4>1. CASE passed.by = "setrlimit"
        BY <3>1, <4>1, Widths DEF LimitInv, target_to_host_rlim, rlim_t, abi_ulong, RLIM_INFINITY
      <4>2. CASE passed.by # "setrlimit"
        BY <3>1, <4>2
      <4> QED BY <4>1, <4>2
    <3>4. /\ v = r \/ (v >= TARGET_RLIM_INFINITY /\ r >= TARGET_RLIM_INFINITY)
          /\ r < TARGET_RLIM_INFINITY => v = r
          /\ r = RLIM_INFINITY => v = TARGET_RLIM_INFINITY
      BY <3>3, LimitShown
    <3>5. set \in 0 .. TARGET_RLIM_INFINITY => v = set
      <4>1. TARGET_RLIM_INFINITY \in Nat
        BY Widths DEF TARGET_RLIM_INFINITY
      <4>2. ASSUME set \in 0 .. TARGET_RLIM_INFINITY PROVE v = set
        <5>1. passed.by = "setrlimit" /\ set = passed.guest /\ r = target_to_host_rlim(set)
          BY <3>1, <4>2 DEF LimitInv
        <5>2. CASE set = TARGET_RLIM_INFINITY
          BY <3>4, <5>1, <5>2 DEF target_to_host_rlim
        <5>3. CASE set # TARGET_RLIM_INFINITY
          <6>1. r = set
            BY <5>1, <5>3 DEF target_to_host_rlim
          <6> QED BY <3>4, <4>1, <4>2, <5>3, <6>1
        <5> QED BY <5>2, <5>3
      <4> QED BY <4>2
    <3> HIDE DEF v, set
    <3> QED BY <3>2, <3>4, <3>5 DEF LimitInv, LimitKept
  <2>2. CASE SetLimit
    BY <2>2 DEF SetLimit, LimitInv, LimitKept
  <2>3. CASE NameResources
    <3>1. PICK c \in ResourceCodes, d \in ResourceCodes :
              passed' = [by |-> "resource", guest |-> {c, d},
                         host |-> {target_to_host_resource(c), target_to_host_resource(d)}]
      BY <2>3 DEF NameResources
    <3> DEFINE e == target_to_host_resource(c)
               f == target_to_host_resource(d)
    <3>2. /\ c \in Nat /\ d \in Nat
          /\ e = IF c = 7 THEN 6 ELSE IF c = 6 THEN 7 ELSE c
          /\ f = IF d = 7 THEN 6 ELSE IF d = 6 THEN 7 ELSE d
      BY ResourceIs DEF ResourceCodes
    <3>3. passed'.by = "resource" /\ passed'.guest = {c, d} /\ passed'.host = {e, f}
      BY <3>1
    <3> HIDE DEF e, f
    <3>4. e = f <=> c = d
      BY <3>2
    <3>5. Cardinality({e, f}) = Cardinality({c, d})
      BY <3>4, PairSize
    <3>6. ASSUME NEW r \in DOMAIN TargetCodes, {c, d} = {TargetCodes[r]}
          PROVE  {e, f} = {HostCodes[r]}
      <4>1. c = TargetCodes[r] /\ d = TargetCodes[r]
        BY <3>6
      <4>2. r \in {"NPROC", "NOFILE"}
        BY DEF TargetCodes
      <4>3. CASE r = "NPROC"
        <5>1. c = 7 /\ d = 7 /\ HostCodes[r] = 6
          BY <4>1, <4>3 DEF TargetCodes, HostCodes
        <5> QED BY <3>2, <5>1
      <4>4. CASE r = "NOFILE"
        <5>1. c = 6 /\ d = 6 /\ HostCodes[r] = 7
          BY <4>1, <4>4 DEF TargetCodes, HostCodes
        <5> QED BY <3>2, <5>1
      <4> QED BY <4>2, <4>3, <4>4
    <3> QED BY <3>3, <3>5, <3>6 DEF LimitInv, LimitKept
  <2>4. CASE passed'.by \notin {"getrlimit", "setrlimit", "resource"}
    BY <2>4 DEF LimitInv, LimitKept
  <2>5. CASE UNCHANGED passed
    BY <2>5 DEF LimitInv, LimitKept
  <2> QED
    BY <2>1, <2>2, <2>3, <2>4, <2>5, WhoPassed
<1>3. LimitInv => LimitKept
  BY DEF LimitInv
<1> QED BY <1>1, <1>2, <1>3, PTL DEF PassSpec

-----------------------------------------------------------------------------
(* Identities. *)

(* An id of a half word is its own remainder; in a word of one bit there is  *)
(* no id but 0.                                                              *)
LEMMA Halves ==
    /\ MaxId \in Nat /\ TARGET_RLIM_INFINITY \in Nat
    /\ MaxId = 0 => TARGET_RLIM_INFINITY = 0
<1>1. TARGET_RLIM_INFINITY \in Nat
  BY Widths DEF TARGET_RLIM_INFINITY
<1>2. CASE AbiBits = 1
  <2>1. 1 \div 2 = 0 /\ 1 - 1 = 0
    OBVIOUS
  <2> QED BY <1>1, <1>2, <2>1, PowerOfTwo DEF MaxId, TARGET_RLIM_INFINITY
<1>3. CASE AbiBits # 1
  <2>1. AbiBits \div 2 \in Nat /\ AbiBits \div 2 >= 1
    BY <1>3, WidthAssumption
  <2>2. Pow2[AbiBits \div 2] > 1 /\ Pow2[AbiBits \div 2] \in Nat
    BY <2>1, PowerGrows
  <2> QED BY <1>1, <2>2 DEF MaxId
<1> QED BY <1>2, <1>3

LEMMA IdGivenBack ==
    ASSUME NEW from \in Tellers, NEW id \in 0 .. TARGET_RLIM_INFINITY,
           from = "stat" => id <= MaxId
    PROVE  low2highuid(IdTold(from, id)) =
               IF from = "getuid" /\ id > MaxId THEN Nobody
               ELSE IF id % (MaxId + 1) = MaxId THEN NoChange ELSE id
<1> DEFINE top == MaxId
           m == MaxId + 1
<1>1. id \in Nat /\ top \in Nat /\ m \in Nat /\ m = top + 1 /\ (top = 0 => id = 0)
  BY Halves
<1>2. low2highuid(id) = IF id % m = top THEN NoChange ELSE id
  BY DEF low2highuid
<1>3. low2highuid(top - 1) = IF (top - 1) % m = top THEN NoChange ELSE top - 1
  BY DEF low2highuid
<1>4. /\ from = "getuid" => IdTold(from, id) = IF id > top THEN top - 1 ELSE id
      /\ from = "stat" => IdTold(from, id) = id % m
      /\ from = "stat64" => IdTold(from, id) = id
  BY DEF IdTold, high2lowuid, Nobody
<1> DEFINE goal == low2highuid(IdTold(from, id)) =
                       IF from = "getuid" /\ id > top THEN top - 1
                       ELSE IF id % m = top THEN NoChange ELSE id
<1> SUFFICES goal
  BY DEF Nobody
<1>5. CASE from = "getuid" /\ id > top
  <2> HIDE DEF top, m
  <2>1. top - 1 \in Nat /\ top - 1 < m /\ top - 1 # top
    BY <1>1, <1>5
  <2>2. (top - 1) % m = top - 1
    BY <1>1, <2>1, SmallRemainder
  <2>3. low2highuid(top - 1) = top - 1
    BY <1>3, <2>1, <2>2
  <2>4. IdTold(from, id) = top - 1
    BY <1>4, <1>5
  <2>5. low2highuid(IdTold(from, id)) = top - 1
    BY <2>3, <2>4
  <2> QED BY <1>5, <2>5
<1>6. CASE from = "getuid" /\ ~(id > top)
  <2> HIDE DEF top, m
  <2>1. IdTold(from, id) = id
    BY <1>4, <1>6
  <2>2. low2highuid(IdTold(from, id)) = low2highuid(id)
    BY <2>1
  <2> QED BY <1>2, <1>6, <2>2
<1>7. CASE from = "stat"
  <2>1. id <= top
    BY <1>7
  <2> HIDE DEF top, m
  <2>2. id % m = id
    BY <1>1, <2>1, SmallRemainder
  <2>3. IdTold(from, id) = id
    BY <1>4, <1>7, <2>2
  <2>4. low2highuid(IdTold(from, id)) = low2highuid(id)
    BY <2>3
  <2> QED BY <1>2, <1>7, <2>4
<1>8. CASE from = "stat64"
  <2> HIDE DEF top, m
  <2>1. low2highuid(IdTold(from, id)) = low2highuid(id)
    BY <1>4, <1>8
  <2> QED BY <1>2, <1>8, <2>1
<1> QED BY <1>5, <1>6, <1>7, <1>8 DEF Tellers

(* An id that a program was told. *)
IdInv ==
    /\ IdsKept
    /\ passed.by = "getuid" =>
          /\ passed.from \in Tellers /\ passed.host \in 0 .. TARGET_RLIM_INFINITY
          /\ passed.guest = IdTold(passed.from, passed.host)

(* An id that a program is told and gives back names the same user, nobody,  *)
(* or leaves the id alone (high2lowuid, low2highuid), for every width; all   *)
(* three calls that tell one are covered, stat for the ids that its half     *)
(* word holds.                                                               *)
THEOREM IdsRight == PassSpec => []IdsKept
<1>1. PassInit => IdInv
  BY DEF PassInit, Nothing, IdInv, IdsKept
<1>2. IdInv /\ [Pass]_passed => IdInv'
  <2> SUFFICES ASSUME IdInv, [Pass]_passed PROVE IdInv'
    OBVIOUS
  <2>1. CASE TellId
    <3>1. PICK from \in Tellers, id \in 0 .. TARGET_RLIM_INFINITY :
              passed' = [by |-> "getuid", from |-> from, host |-> id, guest |-> IdTold(from, id)]
      BY <2>1 DEF TellId
    <3>2. /\ passed'.by = "getuid" /\ passed'.from = from /\ passed'.host = id
          /\ passed'.guest = IdTold(from, id)
      BY <3>1
    <3> QED BY <3>2 DEF IdInv, IdsKept
  <2>2. CASE GiveId
    <3> DEFINE id == passed.host
               from == passed.from
    <3>1. /\ passed'.by = "setreuid" /\ passed'.told = id /\ passed'.from = from
          /\ passed'.host = low2highuid(IdTold(from, id))
          /\ from \in Tellers /\ id \in 0 .. TARGET_RLIM_INFINITY
      BY <2>2 DEF GiveId, IdInv
    <3> HIDE DEF id, from
    <3>2. (from = "stat" => id <= MaxId) =>
              low2highuid(IdTold(from, id)) =
                  IF from = "getuid" /\ id > MaxId THEN Nobody
                  ELSE IF id % (MaxId + 1) = MaxId THEN NoChange ELSE id
      BY <3>1, IdGivenBack
    <3> QED BY <3>1, <3>2 DEF IdInv, IdsKept
  <2>3. CASE passed'.by \notin {"getuid", "setreuid"}
    BY <2>3 DEF IdInv, IdsKept
  <2>4. CASE UNCHANGED passed
    BY <2>4 DEF IdInv, IdsKept
  <2> QED
    BY <2>1, <2>2, <2>3, <2>4, WhoPassed
<1>3. IdInv => IdsKept
  BY DEF IdInv
<1> QED BY <1>1, <1>2, <1>3, PTL DEF PassSpec

-----------------------------------------------------------------------------
(* Sets of descriptors. *)

(* Every descriptor has one bit of one word. *)
LEMMA BitOfDescriptor ==
    ASSUME NEW b \in Nat, b > 0, NEW k \in Nat
    PROVE  /\ k \div b \in Nat /\ k % b \in 0 .. b - 1
           /\ k = (k \div b) * b + (k % b)
OBVIOUS

LEMMA DescriptorOfBit ==
    ASSUME NEW b \in Nat, b > 0, NEW i \in Nat, NEW j \in Nat, j < b
    PROVE  /\ i * b + j \in Nat
           /\ (i * b + j) \div b = i /\ (i * b + j) % b = j
OBVIOUS

LEMMA ProductGrows ==
    ASSUME NEW b \in Nat, NEW m \in Nat, NEW n \in Nat, m <= n
    PROVE  m * b <= n * b
OBVIOUS

(* The words of a set of n descriptors have room for all of them. *)
LEMMA RoomForDescriptors ==
    ASSUME NEW n \in Nat, NEW k \in Nat
    PROVE  /\ WordsFor(n) \in Nat
           /\ k < n => k < WordsFor(n) * AbiBits
           /\ k < WordsFor(n) * AbiBits => k \div AbiBits \in 0 .. WordsFor(n) - 1
<1> DEFINE b == AbiBits
           w == WordsFor(n)
           q == k \div b
           last == n + b - 1
<1>1. b \in Nat /\ b > 0
  BY WidthAssumption
<1>2. last \in Nat /\ w = last \div b
  BY <1>1 DEF WordsFor
<1> HIDE DEF b, w, last
<1>3. /\ w \in Nat /\ last % b \in 0 .. b - 1
      /\ last = (last \div b) * b + (last % b)
  BY <1>1, <1>2, BitOfDescriptor
<1>4. q \in Nat /\ k % b \in 0 .. b - 1 /\ k = q * b + (k % b)
  BY <1>1, BitOfDescriptor
<1> HIDE DEF q
<1>5. last = w * b + (last % b)
  BY <1>2, <1>3
<1>6. k < n => k < w * b
  <2> DEFINE p == w * b
             r == last % b
  <2>1. p \in Nat /\ r \in Nat /\ r < b /\ last = p + r
    BY <1>1, <1>3, <1>5
  <2>2. last = n + b - 1
    BY DEF last, b
  <2> HIDE DEF p, r
  <2> QED BY <1>1, <2>1, <2>2 DEF p
<1>7. ASSUME k < w * b PROVE q < w
  <2>1. SUFFICES ASSUME w <= q PROVE FALSE
    BY <1>3, <1>4
  <2>2. w * b <= q * b
    BY <1>1, <1>3, <1>4, <2>1, ProductGrows
  <2> DEFINE p == w * b
             s == q * b
             r == k % b
  <2>3. p \in Nat /\ s \in Nat /\ r \in Nat /\ p <= s /\ k = s + r /\ k < p
    BY <1>1, <1>3, <1>4, <1>7, <2>2
  <2> HIDE DEF p, s, r
  <2> QED BY <2>3
<1> QED BY <1>3, <1>4, <1>6, <1>7 DEF w, b, q

(* Reading the words of a set gives the set. *)
LEMMA DescriptorsRead ==
    ASSUME NEW n \in Nat, NEW fds \in SUBSET (0 .. n - 1)
    PROVE  copy_from_user_fdset(n, WordsOf(n, fds)) = fds
<1> DEFINE b == AbiBits
           w == WordsFor(n)
           words == WordsOf(n, fds)
<1>1. b \in Nat /\ b > 0
  BY WidthAssumption
<1>2. \A i \in 0 .. w - 1 : \A j \in 0 .. b - 1 :
          j \in words[i] <=> \E m \in fds : m \div b = i /\ m % b = j
  BY DEF WordsOf
<1>3. copy_from_user_fdset(n, words) = {k \in 0 .. w * b - 1 : k % b \in words[k \div b]}
  BY DEF copy_from_user_fdset
<1>4. \A k \in Nat : /\ w \in Nat
                     /\ k < n => k < w * b
                     /\ k < w * b => k \div b \in 0 .. w - 1
  BY RoomForDescriptors
<1> HIDE DEF b, w, words
<1>5. w * b \in Nat
  BY <1>1, <1>4
<1>6. ASSUME NEW k \in Nat, k < w * b
      PROVE  k % b \in words[k \div b] <=> k \in fds
  <2>1. k \div b \in 0 .. w - 1 /\ k % b \in 0 .. b - 1 /\ k = (k \div b) * b + (k % b)
    BY <1>1, <1>4, <1>6, BitOfDescriptor
  <2>2. ASSUME NEW m \in fds, m \div b = k \div b, m % b = k % b
        PROVE  m = k
    <3>1. m \in Nat
      OBVIOUS
    <3>2. m = (m \div b) * b + (m % b)
      BY <1>1, <3>1, BitOfDescriptor
    <3> QED BY <2>1, <2>2, <3>2
  <2> QED BY <1>2, <2>1, <2>2
<1>7. ASSUME NEW k \in 0 .. w * b - 1
      PROVE  k % b \in words[k \div b] <=> k \in fds
  BY <1>5, <1>6
<1>8. fds \subseteq 0 .. w * b - 1
  <2>1. ASSUME NEW k \in fds PROVE k \in 0 .. w * b - 1
    <3>1. k \in Nat /\ k < n
      OBVIOUS
    <3>2. k < w * b
      BY <1>4, <3>1
    <3> QED BY <1>5, <3>1, <3>2
  <2> QED BY <2>1
<1> QED BY <1>3, <1>7, <1>8 DEF words

(* Writing a set gives its words. *)
LEMMA DescriptorsWritten ==
    ASSUME NEW n \in Nat, NEW fds \in SUBSET (0 .. n - 1)
    PROVE  copy_to_user_fdset(n, fds) = WordsOf(n, fds)
<1> DEFINE b == AbiBits
           w == WordsFor(n)
<1>1. b \in Nat /\ b > 0
  BY WidthAssumption
<1>2. copy_to_user_fdset(n, fds) = [i \in 0 .. w - 1 |-> {j \in 0 .. b - 1 : i * b + j \in fds}]
  BY DEF copy_to_user_fdset
<1>3. WordsOf(n, fds) =
          [i \in 0 .. w - 1 |->
              {j \in 0 .. b - 1 : \E k \in fds : k \div b = i /\ k % b = j}]
  BY DEF WordsOf
<1> HIDE DEF b, w
<1>4. ASSUME NEW i \in 0 .. w - 1, NEW j \in 0 .. b - 1
      PROVE  i * b + j \in fds <=> \E k \in fds : k \div b = i /\ k % b = j
  <2>1. i \in Nat /\ j \in Nat /\ j < b
    BY <1>1
  <2>2. (i * b + j) \div b = i /\ (i * b + j) % b = j
    BY <1>1, <2>1, DescriptorOfBit
  <2>3. ASSUME NEW k \in fds, k \div b = i, k % b = j
        PROVE  i * b + j = k
    <3>1. k \in Nat
      OBVIOUS
    <3>2. k = (k \div b) * b + (k % b)
      BY <1>1, <3>1, BitOfDescriptor
    <3> QED BY <2>3, <3>2
  <2> QED BY <2>2, <2>3
<1>5. \A i \in 0 .. w - 1 :
          {j \in 0 .. b - 1 : i * b + j \in fds} =
          {j \in 0 .. b - 1 : \E k \in fds : k \div b = i /\ k % b = j}
  BY <1>4
<1> QED BY <1>2, <1>3, <1>5

(* The program reads, at their places, the descriptors below n that it asked *)
(* for and that are ready (do_select, copy_from_user_fdset,                  *)
(* copy_to_user_fdset), for words of every width and sets of every size.     *)
THEOREM SelectRight == PassSpec => []SelectAnswers
<1>1. PassInit => SelectAnswers
  BY DEF PassInit, Nothing, SelectAnswers
<1>2. SelectAnswers /\ [Pass]_passed => SelectAnswers'
  <2> SUFFICES ASSUME SelectAnswers, [Pass]_passed PROVE SelectAnswers'
    OBVIOUS
  <2>1. CASE Select
    <3>1. PICK n \in 0 .. MaxFds : \E asked, ready \in SUBSET (0 .. n - 1) :
              passed' = [by |-> "select", n |-> n, asked |-> asked, ready |-> ready,
                         words |-> do_select(n, WordsOf(n, asked), ready)]
      BY <2>1 DEF Select
    <3>2. PICK asked \in SUBSET (0 .. n - 1), ready \in SUBSET (0 .. n - 1) :
              passed' = [by |-> "select", n |-> n, asked |-> asked, ready |-> ready,
                         words |-> do_select(n, WordsOf(n, asked), ready)]
      BY <3>1
    <3>3. n \in Nat
      BY SizeAssumption
    <3>4. copy_from_user_fdset(n, WordsOf(n, asked)) = asked
      BY <3>3, DescriptorsRead
    <3>5. copy_to_user_fdset(n, asked \cap ready) = WordsOf(n, asked \cap ready)
      BY <3>3, DescriptorsWritten
    <3>6. do_select(n, WordsOf(n, asked), ready) = WordsOf(n, asked \cap ready)
      BY <3>4, <3>5 DEF do_select
    <3> QED BY <3>2, <3>6 DEF SelectAnswers
  <2>2. CASE passed'.by # "select"
    BY <2>2 DEF SelectAnswers
  <2>3. CASE UNCHANGED passed
    BY <2>3 DEF SelectAnswers
  <2> QED
    BY <2>1, <2>2, <2>3, WhoPassed
<1> QED BY <1>1, <1>2, PTL DEF PassSpec

-----------------------------------------------------------------------------
(* Vectors of buffers. *)

LEMMA SequencesTried ==
    ASSUME NEW S, NEW n \in Nat, NEW q \in SeqOf(S, n)
    PROVE  q \in Seq(S)
<1>1. PICK m \in 0 .. n : q \in [1 .. m -> S]
  BY DEF SeqOf
<1> QED BY <1>1, SeqDef

(* The sums of the first numbers of a sequence. *)
AreSums(sum, q) ==
    /\ sum \in [0 .. Len(q) -> Int]
    /\ sum[0] = 0
    /\ \A i \in 1 .. Len(q) : sum[i] = sum[i - 1] + q[i]

LEMMA SumUnfolds ==
    ASSUME NEW q \in Seq(Int)
    PROVE  \E sum : AreSums(sum, q) /\ SumOf(q) = sum[Len(q)]
<1> DEFINE N == Len(q)
           g == [p \in Nat \X Int |-> IF p[1] < N THEN p[2] + q[p[1] + 1] ELSE 0]
           Good(f) == f = [i \in 0 .. N |-> IF i = 0 THEN 0 ELSE f[i - 1] + q[i]]
           sum == CHOOSE f : Good(f)
<1>1. N \in Nat /\ \A i \in 1 .. N : q[i] \in Int
  OBVIOUS
<1>2. IsRule(g, Int)
  <2>1. \A p \in Nat \X Int : p[1] < N => p[1] + 1 \in 1 .. N
    BY <1>1
  <2> QED BY <1>1, <2>1 DEF IsRule
<1>3. \A i \in 0 .. N, m \in Int : i # 0 => g[<<i - 1, m>>] = m + q[i]
  BY <1>1
<1>4. SumOf(q) = sum[N]
  BY DEF SumOf
<1> HIDE DEF N, g, sum
<1>5. PICK f : RecursesUpTo(f, N, Int, 0, g)
  BY <1>1, <1>2, RecursionUpTo
<1>6. \A i \in 0 .. N : f[i] = IF i = 0 THEN 0 ELSE f[i - 1] + q[i]
  <2> TAKE i \in 0 .. N
  <2>1. f[i] = IF i = 0 THEN 0 ELSE g[<<i - 1, f[i - 1]>>]
    BY <1>5 DEF RecursesUpTo
  <2>2. CASE i = 0
    BY <2>1, <2>2
  <2>3. CASE i # 0
    <3>1. f[i - 1] \in Int
      BY <1>1, <1>5, <2>3 DEF RecursesUpTo
    <3>2. g[<<i - 1, f[i - 1]>>] = f[i - 1] + q[i]
      BY <1>3, <2>3, <3>1
    <3> QED BY <2>1, <2>3, <3>2
  <2> QED BY <2>2, <2>3
<1>7. Good(f)
  BY <1>5, <1>6 DEF RecursesUpTo
<1>8. Good(sum)
  BY <1>7 DEF sum
<1>9. \A i \in 0 .. N : sum[i] = IF i = 0 THEN 0 ELSE sum[i - 1] + q[i]
  BY <1>8
<1>10. \A i \in 0 .. N : sum[i] \in Int
  <2> DEFINE S == {k \in Nat : k <= N => sum[k] \in Int}
  <2>1. S \in SUBSET Nat /\ 0 \in S
    BY <1>1, <1>9
  <2>2. ASSUME NEW k \in S PROVE k + 1 \in S
    <3>1. k \in Nat /\ (k <= N => sum[k] \in Int)
      OBVIOUS
    <3>2. SUFFICES ASSUME k + 1 <= N PROVE sum[k + 1] \in Int
      BY <3>1
    <3>3. k + 1 \in 0 .. N /\ k + 1 \in 1 .. N /\ k + 1 # 0 /\ (k + 1) - 1 = k /\ k <= N
      BY <1>1, <3>1, <3>2
    <3>4. sum[k + 1] = sum[k] + q[k + 1]
      BY <1>9, <3>3
    <3> QED BY <1>1, <3>1, <3>3, <3>4
  <2> HIDE DEF S
  <2>3. S = Nat
    BY <2>1, <2>2, Induction
  <2> QED BY <1>1, <2>3 DEF S
<1>11. AreSums(sum, q)
  <2>1. sum \in [0 .. N -> Int]
    BY <1>8, <1>10
  <2>2. sum[0] = 0 /\ \A i \in 1 .. N : sum[i] = sum[i - 1] + q[i]
    BY <1>1, <1>9
  <2> QED BY <2>1, <2>2 DEF AreSums, N
<1> QED BY <1>4, <1>11 DEF N

(* What the buffers before and with each may move, all together.             *)
AreTotals(total, q) ==
    /\ total \in [0 .. Len(q) -> Int]
    /\ total[0] = 0
    /\ \A i \in 1 .. Len(q) : total[i] = total[i - 1] + Cut(q[i], total[i - 1])

LEMMA CutIsNumber ==
    /\ MaxVector \in Nat
    /\ \A len, total \in Int : Cut(len, total) \in Int
<1>1. MaxVector \in Nat
  BY WidthAssumption
<1> QED BY <1>1 DEF Cut

LEMMA VectorUnfolds ==
    ASSUME NEW q \in Seq(Int)
    PROVE  \E total : /\ AreTotals(total, q)
                      /\ lock_iovec(q) = [i \in 1 .. Len(q) |-> Cut(q[i], total[i - 1])]
<1> DEFINE N == Len(q)
           g == [p \in Nat \X Int |-> IF p[1] < N THEN p[2] + Cut(q[p[1] + 1], p[2]) ELSE 0]
           Good(f) == f = [i \in 0 .. N |-> IF i = 0 THEN 0 ELSE f[i - 1] + Cut(q[i], f[i - 1])]
           total == CHOOSE f : Good(f)
<1>1. N \in Nat /\ \A i \in 1 .. N : q[i] \in Int
  OBVIOUS
<1>2. IsRule(g, Int)
  <2>1. \A p \in Nat \X Int : p[1] < N => p[1] + 1 \in 1 .. N /\ p[2] \in Int
    BY <1>1
  <2>2. \A p \in Nat \X Int : p[1] < N => Cut(q[p[1] + 1], p[2]) \in Int
    BY <1>1, <2>1, CutIsNumber
  <2>3. \A p \in Nat \X Int : p[1] < N => p[2] + Cut(q[p[1] + 1], p[2]) \in Int
    BY <2>1, <2>2
  <2> QED BY <2>3 DEF IsRule
<1>3. \A i \in 0 .. N, m \in Int : i # 0 => g[<<i - 1, m>>] = m + Cut(q[i], m)
  BY <1>1
<1>4. lock_iovec(q) = [i \in 1 .. N |-> Cut(q[i], total[i - 1])]
  BY DEF lock_iovec
<1> HIDE DEF N, g, total
<1>5. PICK f : RecursesUpTo(f, N, Int, 0, g)
  BY <1>1, <1>2, RecursionUpTo
<1>6. \A i \in 0 .. N : f[i] = IF i = 0 THEN 0 ELSE f[i - 1] + Cut(q[i], f[i - 1])
  <2> TAKE i \in 0 .. N
  <2>1. f[i] = IF i = 0 THEN 0 ELSE g[<<i - 1, f[i - 1]>>]
    BY <1>5 DEF RecursesUpTo
  <2>2. CASE i = 0
    BY <2>1, <2>2
  <2>3. CASE i # 0
    <3>1. f[i - 1] \in Int
      BY <1>1, <1>5, <2>3 DEF RecursesUpTo
    <3>2. g[<<i - 1, f[i - 1]>>] = f[i - 1] + Cut(q[i], f[i - 1])
      BY <1>3, <2>3, <3>1
    <3> QED BY <2>1, <2>3, <3>2
  <2> QED BY <2>2, <2>3
<1>7. Good(f)
  BY <1>5, <1>6 DEF RecursesUpTo
<1>8. Good(total)
  BY <1>7 DEF total
<1>9. \A i \in 0 .. N : total[i] = IF i = 0 THEN 0 ELSE total[i - 1] + Cut(q[i], total[i - 1])
  BY <1>8
<1>10. \A i \in 0 .. N : total[i] \in Int
  <2> DEFINE S == {k \in Nat : k <= N => total[k] \in Int}
  <2>1. S \in SUBSET Nat /\ 0 \in S
    BY <1>1, <1>9
  <2>2. ASSUME NEW k \in S PROVE k + 1 \in S
    <3>1. k \in Nat /\ (k <= N => total[k] \in Int)
      OBVIOUS
    <3>2. SUFFICES ASSUME k + 1 <= N PROVE total[k + 1] \in Int
      BY <3>1
    <3>3. k + 1 \in 0 .. N /\ k + 1 \in 1 .. N /\ k + 1 # 0 /\ (k + 1) - 1 = k /\ k <= N
      BY <1>1, <3>1, <3>2
    <3>4. total[k + 1] = total[k] + Cut(q[k + 1], total[k])
      BY <1>9, <3>3
    <3>5. Cut(q[k + 1], total[k]) \in Int
      BY <1>1, <3>1, <3>3, CutIsNumber
    <3> QED BY <3>1, <3>3, <3>4, <3>5
  <2> HIDE DEF S
  <2>3. S = Nat
    BY <2>1, <2>2, Induction
  <2> QED BY <1>1, <2>3 DEF S
<1>11. AreTotals(total, q)
  <2>1. total \in [0 .. N -> Int]
    BY <1>8, <1>10
  <2>2. total[0] = 0 /\ \A i \in 1 .. N : total[i] = total[i - 1] + Cut(q[i], total[i - 1])
    BY <1>1, <1>9
  <2> QED BY <2>1, <2>2 DEF AreTotals, N
<1> QED BY <1>4, <1>11 DEF N

(* The host may move as much as the program asks for, up to MaxVector.       *)
LEMMA TotalsAreSums ==
    ASSUME NEW q \in Seq(Nat), NEW sum, AreSums(sum, q), NEW total, AreTotals(total, q)
    PROVE  \A k \in 0 .. Len(q) :
               sum[k] \in Nat /\ total[k] = IF sum[k] <= MaxVector THEN sum[k] ELSE MaxVector
<1> DEFINE S == {k \in Nat : k <= Len(q) =>
                    /\ sum[k] \in Nat
                    /\ total[k] = IF sum[k] <= MaxVector THEN sum[k] ELSE MaxVector}
<1>0. Len(q) \in Nat /\ \A k \in 1 .. Len(q) : q[k] \in Nat
  OBVIOUS
<1>1. Len(q) \in Nat /\ (\A k \in 1 .. Len(q) : q[k] \in Nat) /\ MaxVector \in Nat
  BY <1>0, CutIsNumber
<1>2. S \in SUBSET Nat /\ 0 \in S
  BY <1>1 DEF AreSums, AreTotals
<1>3. ASSUME NEW k \in S PROVE k + 1 \in S
  <2>1. SUFFICES ASSUME k + 1 <= Len(q)
                 PROVE  /\ sum[k + 1] \in Nat
                        /\ total[k + 1] = IF sum[k + 1] <= MaxVector THEN sum[k + 1] ELSE MaxVector
    OBVIOUS
  <2>2. k \in Nat /\ k + 1 \in 1 .. Len(q) /\ (k + 1) - 1 = k
    BY <1>1, <2>1
  <2>3. sum[k] \in Nat /\ total[k] = IF sum[k] <= MaxVector THEN sum[k] ELSE MaxVector
    BY <1>1, <2>1, <2>2
  <2>4. sum[k + 1] = sum[k] + q[k + 1] /\ total[k + 1] = total[k] + Cut(q[k + 1], total[k])
    BY <2>2 DEF AreSums, AreTotals
  <2> HIDE DEF S
  <2> QED BY <1>1, <2>2, <2>3, <2>4 DEF Cut
<1> HIDE DEF S
<1>4. S = Nat
  BY <1>2, <1>3, Induction
<1> QED BY <1>1, <1>4 DEF S

(* What the host is given sums up to these totals.                           *)
LEMMA HostMoves ==
    ASSUME NEW q \in Seq(Int), NEW total, AreTotals(total, q),
           NEW host, host = [i \in 1 .. Len(q) |-> Cut(q[i], total[i - 1])]
    PROVE  /\ host \in Seq(Int) /\ Len(host) = Len(q)
           /\ SumOf(host) = total[Len(q)]
<1>1. Len(q) \in Nat /\ \A k \in 1 .. Len(q) : q[k] \in Int
  OBVIOUS
<1>2. \A i \in 1 .. Len(q) : Cut(q[i], total[i - 1]) \in Int
  <2> TAKE i \in 1 .. Len(q)
  <2>1. i - 1 \in 0 .. Len(q)
    BY <1>1
  <2>2. total[i - 1] \in Int
    BY <2>1 DEF AreTotals
  <2> QED BY <1>1, <2>2, CutIsNumber
<1>3. host \in [1 .. Len(q) -> Int]
  BY <1>2
<1>4. host \in Seq(Int) /\ Len(host) = Len(q)
  <2>1. host \in Seq(Int)
    BY <1>1, <1>3, SeqDef
  <2>2. DOMAIN host = 1 .. Len(q)
    BY <1>3
  <2> QED BY <1>1, <2>1, <2>2
<1>5. PICK sum : AreSums(sum, host) /\ SumOf(host) = sum[Len(host)]
  BY <1>4, SumUnfolds
<1> DEFINE S == {k \in Nat : k <= Len(q) => sum[k] = total[k]}
<1>6. S \in SUBSET Nat /\ 0 \in S
  BY <1>5 DEF AreSums, AreTotals
<1>7. ASSUME NEW k \in S PROVE k + 1 \in S
  <2>1. SUFFICES ASSUME k + 1 <= Len(q) PROVE sum[k + 1] = total[k + 1]
    OBVIOUS
  <2>2. k \in Nat /\ k + 1 \in 1 .. Len(q) /\ (k + 1) - 1 = k /\ sum[k] = total[k]
    BY <1>1, <2>1
  <2>3. sum[k + 1] = sum[k] + host[k + 1]
    BY <1>4, <1>5, <2>2 DEF AreSums
  <2>4. total[k + 1] = total[k] + Cut(q[k + 1], total[k])
    BY <2>2 DEF AreTotals
  <2>5. host[k + 1] = Cut(q[k + 1], total[k])
    BY <2>2
  <2> QED BY <2>2, <2>3, <2>4, <2>5
<1> HIDE DEF S
<1>8. S = Nat
  BY <1>6, <1>7, Induction
<1>9. sum[Len(q)] = total[Len(q)]
  BY <1>1, <1>8 DEF S
<1> QED BY <1>4, <1>5, <1>9

(* Once MaxVector is reached it is never left. *)
LEMMA NothingBehindACut ==
    ASSUME NEW q \in Seq(Nat), NEW total, AreTotals(total, q),
           NEW i \in 1 .. Len(q), total[i] = MaxVector
    PROVE  \A k \in i .. Len(q) : total[k] = MaxVector
<1> DEFINE S == {k \in Nat : k \in i .. Len(q) => total[k] = MaxVector}
<1>0. Len(q) \in Nat /\ i \in Nat /\ \A k \in 1 .. Len(q) : q[k] \in Nat
  OBVIOUS
<1>1. Len(q) \in Nat /\ i \in Nat /\ (\A k \in 1 .. Len(q) : q[k] \in Nat) /\ MaxVector \in Nat
  BY <1>0, CutIsNumber
<1>2. S \in SUBSET Nat /\ 0 \in S
  BY <1>1
<1>3. ASSUME NEW k \in S PROVE k + 1 \in S
  <2>1. k \in Nat /\ (k \in i .. Len(q) => total[k] = MaxVector)
    OBVIOUS
  <2>2. SUFFICES ASSUME k + 1 \in i .. Len(q) PROVE total[k + 1] = MaxVector
    BY <2>1
  <2>3. CASE k + 1 = i
    BY <2>3
  <2>4. CASE k + 1 # i
    <3> DEFINE n == k + 1
    <3>1. k \in i .. Len(q) /\ n \in 1 .. Len(q) /\ n - 1 = k
      BY <1>1, <2>1, <2>2, <2>4
    <3>2. total[k] = MaxVector
      BY <2>1, <3>1
    <3> HIDE DEF n, S
    <3>3. total[n] = MaxVector + Cut(q[n], MaxVector)
      BY <3>1, <3>2 DEF AreTotals
    <3>4. q[n] \in Nat
      BY <1>1, <3>1
    <3>5. Cut(q[n], MaxVector) = 0
      BY <1>1, <3>4 DEF Cut
    <3>6. total[n] = MaxVector
      BY <1>1, <3>3, <3>5
    <3> QED BY <3>6 DEF n
  <2> QED BY <2>3, <2>4
<1> HIDE DEF S
<1>4. S = Nat
  BY <1>2, <1>3, Induction
<1>5. ASSUME NEW k \in i .. Len(q) PROVE total[k] = MaxVector
  <2>1. k \in S
    BY <1>1, <1>4
  <2> QED BY <2>1 DEF S
<1> QED BY <1>5

LEMMA SmallerOf ==
    ASSUME NEW a \in Int, NEW b \in Int
    PROVE  Min({a, b}) = IF a <= b THEN a ELSE b
<1>1. Min({a, b}) = CHOOSE x \in {a, b} : \A y \in {a, b} : x <= y
  BY DEF Min
<1> QED BY <1>1

LEMMA VectorCut ==
    ASSUME NEW q \in Seq(Nat), NEW host, host = lock_iovec(q)
    PROVE  /\ SumOf(host) = Min({SumOf(q), MaxVector})
           /\ \A i \in DOMAIN q :
                 /\ host[i] \in 0 .. q[i]
                 /\ host[i] < q[i] => \A j \in i + 1 .. Len(host) : host[j] = 0
<1>1. q \in Seq(Int) /\ Len(q) \in Nat /\ DOMAIN q = 1 .. Len(q)
  <2>1. \A k \in 1 .. Len(q) : q[k] \in Int
    OBVIOUS
  <2> QED BY <2>1
<1>2. \A k \in 1 .. Len(q) : q[k] \in Nat
  OBVIOUS
<1>3. PICK total : AreTotals(total, q) /\ host = [i \in 1 .. Len(q) |-> Cut(q[i], total[i - 1])]
  BY <1>1, VectorUnfolds
<1>4. PICK sum : AreSums(sum, q) /\ SumOf(q) = sum[Len(q)]
  BY <1>1, SumUnfolds
<1>5. \A k \in 0 .. Len(q) :
          sum[k] \in Nat /\ total[k] = IF sum[k] <= MaxVector THEN sum[k] ELSE MaxVector
  BY <1>3, <1>4, TotalsAreSums
<1>6. Len(host) = Len(q) /\ SumOf(host) = total[Len(q)]
  BY <1>1, <1>3, HostMoves
<1>7. SumOf(host) = Min({SumOf(q), MaxVector})
  <2>1. Len(q) \in 0 .. Len(q)
    BY <1>1
  <2>2. sum[Len(q)] \in Nat /\ MaxVector \in Nat
    BY <1>5, <2>1, CutIsNumber
  <2>3. Min({SumOf(q), MaxVector}) = IF sum[Len(q)] <= MaxVector THEN sum[Len(q)] ELSE MaxVector
    BY <1>4, <2>2, SmallerOf
  <2> QED BY <1>5, <1>6, <2>1, <2>3
<1>8. ASSUME NEW i \in 1 .. Len(q)
      PROVE  /\ host[i] \in 0 .. q[i]
             /\ host[i] < q[i] => \A j \in i + 1 .. Len(host) : host[j] = 0
  <2>1. i - 1 \in 0 .. Len(q) /\ i \in 0 .. Len(q) /\ i \in Nat
    BY <1>1
  <2>2. host[i] = Cut(q[i], total[i - 1]) /\ total[i] = total[i - 1] + Cut(q[i], total[i - 1])
    BY <1>3 DEF AreTotals
  <2>3. total[i - 1] \in 0 .. MaxVector /\ MaxVector \in Nat /\ q[i] \in Nat
    <3>1. sum[i - 1] \in Nat
          /\ total[i - 1] = IF sum[i - 1] <= MaxVector THEN sum[i - 1] ELSE MaxVector
      BY <1>5, <2>1
    <3>2. MaxVector \in Nat /\ q[i] \in Nat
      BY <1>2, CutIsNumber
    <3> QED BY <3>1, <3>2
  <2>4. host[i] \in 0 .. q[i]
    BY <2>2, <2>3 DEF Cut
  <2>5. ASSUME host[i] < q[i], NEW j \in i + 1 .. Len(host)
        PROVE  host[j] = 0
    <3>1. total[i] = MaxVector
      BY <2>2, <2>3, <2>5 DEF Cut
    <3>2. j \in 1 .. Len(q) /\ j - 1 \in i .. Len(q)
      BY <1>1, <1>6, <2>1
    <3>3. total[j - 1] = MaxVector
      BY <1>3, <3>1, <3>2, NothingBehindACut
    <3>4. q[j] \in Nat
      BY <1>2, <3>2
    <3>5. host[j] = Cut(q[j], MaxVector)
      BY <1>3, <3>2, <3>3
    <3> QED BY <2>3, <3>4, <3>5 DEF Cut
  <2> QED BY <2>4, <2>5
<1> QED BY <1>1, <1>7, <1>8

(* The host moves a prefix of what the program asked for, as much as it may  *)
(* (lock_iovec, syscall.c:706-766), for vectors of every length and buffers  *)
(* of every size.                                                            *)
THEOREM VectorRight == PassSpec => []VectorIsPrefix
<1>1. PassInit => VectorIsPrefix
  BY DEF PassInit, Nothing, VectorIsPrefix
<1>2. VectorIsPrefix /\ [Pass]_passed => VectorIsPrefix'
  <2> SUFFICES ASSUME VectorIsPrefix, [Pass]_passed PROVE VectorIsPrefix'
    OBVIOUS
  <2>1. CASE LockVector
    <3>1. PICK lens \in SeqOf(Lengths, IOV_MAX + 1) :
              /\ ~VectorRefused(Len(lens), lens)
              /\ passed' = [by |-> "iovec", guest |-> lens, host |-> lock_iovec(lens)]
      BY <2>1 DEF LockVector
    <3>2. lens \in Seq(Lengths)
      BY SizeAssumption, SequencesTried
    <3>3. lens \in Seq(Nat)
      <4>1. Len(lens) \in Nat /\ \A i \in 1 .. Len(lens) : lens[i] \in Lengths
        BY <3>2
      <4>2. DOMAIN lens = 1 .. Len(lens)
        BY <3>2
      <4>3. ASSUME NEW i \in 1 .. Len(lens) PROVE lens[i] \in Nat
        <5>1. ~(lens[i] < 0)
          BY <3>1, <4>2 DEF VectorRefused
        <5>2. lens[i] \in Int
          BY <4>1, SizeAssumption
        <5> QED BY <5>1, <5>2
      <4> QED BY <3>2, <4>3
    <3>4. passed'.guest = lens /\ passed'.host = lock_iovec(lens)
      BY <3>1
    <3> HIDE DEF SumOf
    <3> QED BY <3>3, <3>4, VectorCut DEF VectorIsPrefix
  <2>2. CASE passed'.by # "iovec"
    BY <2>2 DEF VectorIsPrefix
  <2>3. CASE UNCHANGED passed
    BY <2>3 DEF VectorIsPrefix
  <2> QED BY <2>1, <2>2, <2>3, WhoPassed
<1> QED BY <1>1, <1>2, PTL DEF PassSpec

-----------------------------------------------------------------------------
(* The program's arguments. *)

(* A slot holds its string. *)
LEMMA SlotHolds ==
    ASSUME NEW len \in Nat
    PROVE  SlotFor(len) \in Nat /\ SlotFor(len) >= len
<1> DEFINE b == Slot
           last == len + b - 1
           w == last \div b
           r == last % b
<1>1. b \in Nat /\ b > 0
  BY WidthAssumption
<1>2. last \in Nat /\ last = len + b - 1
  BY <1>1
<1> HIDE DEF b, last
<1>3. w \in Nat /\ r \in 0 .. b - 1 /\ last = w * b + r
  BY <1>1, <1>2, BitOfDescriptor
<1>4. SlotFor(len) = w * b
  BY DEF SlotFor, b, last
<1> HIDE DEF w, r
<1> DEFINE p == w * b
<1>5. p \in Nat
  BY <1>1, <1>3
<1>6. last = p + r
  BY <1>3
<1> HIDE DEF p
<1>7. p >= len
  BY <1>1, <1>2, <1>3, <1>5, <1>6
<1> QED BY <1>4, <1>5, <1>7 DEF p

(* Where the host has its strings: one behind the other.                     *)
LEMMA HostAtUnfolds ==
    ASSUME NEW args \in Seq(Int)
    PROVE  /\ \A i \in 1 .. Len(args) + 1 : HostAt(args)[i] \in Int
           /\ \A i \in 1 .. Len(args) : HostAt(args)[i + 1] = HostAt(args)[i] + args[i]
<1> DEFINE N == Len(args)
           Good(f) == f = [i \in 1 .. N + 1 |-> IF i = 1 THEN 0 ELSE f[i - 1] + args[i - 1]]
           at == CHOOSE f : Good(f)
<1>1. N \in Nat /\ \A i \in 1 .. N : args[i] \in Int
  OBVIOUS
<1>2. HostAt(args) = at
  BY DEF HostAt
<1>3. PICK sum : AreSums(sum, args)
  BY SumUnfolds
<1>4. sum[0] = 0 /\ (\A i \in 1 .. N : sum[i] = sum[i - 1] + args[i])
      /\ \A i \in 0 .. N : sum[i] \in Int
  BY <1>3 DEF AreSums
<1> HIDE DEF N, at
<1> DEFINE f == [i \in 1 .. N + 1 |-> sum[i - 1]]
<1>5. \A i \in 1 .. N + 1 : f[i] = IF i = 1 THEN 0 ELSE f[i - 1] + args[i - 1]
  <2> TAKE i \in 1 .. N + 1
  <2>1. CASE i = 1
    BY <1>1, <1>4, <2>1
  <2>2. CASE i # 1
    <3>1. i - 1 \in 1 .. N /\ i - 1 \in 1 .. N + 1
      BY <1>1, <2>2
    <3>2. f[i] = sum[i - 1] /\ f[i - 1] = sum[(i - 1) - 1]
      BY <3>1
    <3> QED BY <1>4, <2>2, <3>1, <3>2
  <2> QED BY <2>1, <2>2
<1>6. Good(f)
  BY <1>5
<1> HIDE DEF f
<1>7. Good(at)
  BY <1>6 DEF at
<1>8. \A i \in 1 .. N + 1 : at[i] = IF i = 1 THEN 0 ELSE at[i - 1] + args[i - 1]
  BY <1>7
<1>9. ASSUME NEW i \in 1 .. N PROVE at[i + 1] = at[i] + args[i]
  <2>1. i + 1 \in 1 .. N + 1 /\ i + 1 # 1 /\ (i + 1) - 1 = i
    BY <1>1
  <2> QED BY <1>8, <2>1
<1>10. \A i \in 1 .. N + 1 : at[i] \in Int
  <2> DEFINE S == {k \in Nat : k <= N => at[k + 1] \in Int}
  <2>1. 0 \in S
    BY <1>1, <1>8
  <2>2. ASSUME NEW k \in S PROVE k + 1 \in S
    <3>1. k \in Nat /\ (k <= N => at[k + 1] \in Int)
      OBVIOUS
    <3>2. SUFFICES ASSUME k + 1 <= N PROVE at[(k + 1) + 1] \in Int
      BY <3>1
    <3>3. k + 1 \in 1 .. N
      BY <1>1, <3>1, <3>2
    <3> QED BY <1>1, <1>9, <3>1, <3>2, <3>3
  <2>3. S \in SUBSET Nat
    OBVIOUS
  <2> HIDE DEF S
  <2>4. S = Nat
    BY <2>1, <2>2, <2>3, Induction
  <2>5. ASSUME NEW i \in 1 .. N + 1 PROVE at[i] \in Int
    <3>1. i - 1 \in Nat /\ i - 1 <= N /\ (i - 1) + 1 = i
      BY <1>1
    <3> QED BY <2>4, <3>1 DEF S
  <2> QED BY <2>5
<1> QED BY <1>2, <1>9, <1>10 DEF N

(* Where the program has them: in slots, the last one at the top.            *)
LEMMA GuestPtrUnfolds ==
    ASSUME NEW args \in Seq(Nat)
    PROVE  /\ \A i \in 1 .. Len(args) + 1 : GuestPtr(args)[i] \in Int
           /\ \A i \in 1 .. Len(args) :
                 GuestPtr(args)[i] = GuestPtr(args)[i + 1] - SlotFor(args[i])
<1>0. Len(args) \in Nat /\ \A i \in 1 .. Len(args) : args[i] \in Nat
  OBVIOUS
<1> DEFINE N == Len(args)
           Good(f) == f = [i \in 1 .. N + 1 |->
                              IF i = N + 1 THEN StackTop ELSE f[i + 1] - SlotFor(args[i])]
           ptr == CHOOSE f : Good(f)
           back == [k \in 1 .. N |-> SlotFor(args[N + 1 - k])]
<1>1. N \in Nat /\ \A i \in 1 .. N : args[i] \in Nat
  BY <1>0
<1>2. ASSUME NEW i \in 1 .. N PROVE SlotFor(args[i]) \in Int
  <2>1. SlotFor(args[i]) \in Nat
    BY <1>1, SlotHolds
  <2> QED BY <2>1
<1>3. StackTop \in Int
  BY SizeAssumption
<1>4. GuestPtr(args) = ptr
  BY DEF GuestPtr
<1> HIDE DEF N, ptr
<1>5. back \in Seq(Int) /\ Len(back) = N
  <2>1. \A k \in 1 .. N : N + 1 - k \in 1 .. N
    BY <1>1
  <2>2. back \in [1 .. N -> Int]
    BY <1>2, <2>1
  <2> QED BY <1>1, <2>2
<1>6. PICK sum : AreSums(sum, back)
  BY <1>5, SumUnfolds
<1>7. sum[0] = 0 /\ (\A i \in 1 .. N : sum[i] = sum[i - 1] + back[i])
      /\ \A i \in 0 .. N : sum[i] \in Int
  BY <1>5, <1>6 DEF AreSums
<1> DEFINE f == [i \in 1 .. N + 1 |-> StackTop - sum[N + 1 - i]]
<1>8. \A i \in 1 .. N + 1 : f[i] = IF i = N + 1 THEN StackTop ELSE f[i + 1] - SlotFor(args[i])
  <2> TAKE i \in 1 .. N + 1
  <2>1. CASE i = N + 1
    <3>1. f[i] = StackTop - sum[0]
      BY <1>1, <2>1
    <3> QED BY <1>3, <1>7, <2>1, <3>1
  <2>2. CASE i # N + 1
    <3> DEFINE k == N + 1 - i
    <3>1. k \in 1 .. N /\ k - 1 = N + 1 - (i + 1) /\ i + 1 \in 1 .. N + 1 /\ N + 1 - k = i
          /\ k \in 0 .. N /\ k - 1 \in 0 .. N /\ i \in 1 .. N
      BY <1>1, <2>2
    <3>2. f[i] = StackTop - sum[k] /\ f[i + 1] = StackTop - sum[k - 1]
      BY <3>1
    <3>3. sum[k] = sum[k - 1] + SlotFor(args[i])
      BY <1>7, <3>1
    <3>4. sum[k] \in Int /\ sum[k - 1] \in Int /\ SlotFor(args[i]) \in Int
      BY <1>2, <1>7, <3>1
    <3> HIDE DEF k, f
    <3>5. f[i] = f[i + 1] - SlotFor(args[i])
      BY <1>3, <3>2, <3>3, <3>4
    <3> QED BY <2>2, <3>5
  <2> QED BY <2>1, <2>2
<1>9. Good(f)
  BY <1>8
<1> HIDE DEF f, back
<1>10. Good(ptr)
  BY <1>9 DEF ptr
<1>11. \A i \in 1 .. N + 1 : ptr[i] = IF i = N + 1 THEN StackTop ELSE ptr[i + 1] - SlotFor(args[i])
  BY <1>10
<1>12. ASSUME NEW i \in 1 .. N PROVE ptr[i] = ptr[i + 1] - SlotFor(args[i])
  <2>1. i \in 1 .. N + 1 /\ i # N + 1
    BY <1>1
  <2> QED BY <1>11, <2>1
<1>13. \A i \in 1 .. N + 1 : ptr[i] \in Int
  <2> DEFINE S == {k \in Nat : k <= N => ptr[N + 1 - k] \in Int}
  <2>1. 0 \in S
    <3>1. N + 1 \in 1 .. N + 1 /\ N + 1 - 0 = N + 1
      BY <1>1
    <3> QED BY <1>3, <1>11, <3>1
  <2>2. ASSUME NEW k \in S PROVE k + 1 \in S
    <3>1. k \in Nat /\ (k <= N => ptr[N + 1 - k] \in Int)
      OBVIOUS
    <3>2. SUFFICES ASSUME k + 1 <= N PROVE ptr[N + 1 - (k + 1)] \in Int
      BY <3>1
    <3> DEFINE i == N + 1 - (k + 1)
    <3>3. i \in 1 .. N /\ i + 1 = N + 1 - k
      BY <1>1, <3>1, <3>2
    <3>4. ptr[i + 1] \in Int
      BY <1>1, <3>1, <3>2, <3>3
    <3> HIDE DEF i
    <3>5. ptr[i] \in Int
      BY <1>2, <1>12, <3>3, <3>4
    <3> QED BY <3>5 DEF i
  <2>3. S \in SUBSET Nat
    OBVIOUS
  <2> HIDE DEF S
  <2>4. S = Nat
    BY <2>1, <2>2, <2>3, Induction
  <2>5. ASSUME NEW i \in 1 .. N + 1 PROVE ptr[i] \in Int
    <3>1. N + 1 - i \in Nat /\ N + 1 - i <= N /\ N + 1 - (N + 1 - i) = i
      BY <1>1
    <3> QED BY <2>4, <3>1 DEF S
  <2> QED BY <2>5
<1> QED BY <1>4, <1>12, <1>13 DEF N

(* A slot that is further up is at least as much higher as it is further.    *)
LEMMA SlotsApart ==
    ASSUME NEW args \in Seq(Nat \ {0}), NEW j \in 1 .. Len(args) + 1,
           NEW i \in 1 .. Len(args) + 1, j <= i
    PROVE  GuestPtr(args)[i] >= GuestPtr(args)[j] + (i - j)
<1>1. Len(args) \in Nat /\ (\A k \in 1 .. Len(args) : args[k] \in Nat \ {0})
      /\ args \in Seq(Nat)
  <2>1. Len(args) \in Nat /\ \A k \in 1 .. Len(args) : args[k] \in Nat \ {0}
    OBVIOUS
  <2> QED BY <2>1
<1> DEFINE ptr == GuestPtr(args)
<1>2. \A k \in 1 .. Len(args) + 1 : ptr[k] \in Int
  BY <1>1, GuestPtrUnfolds
<1>3. ASSUME NEW k \in 1 .. Len(args) PROVE ptr[k + 1] >= ptr[k] + 1
  <2>1. ptr[k] = ptr[k + 1] - SlotFor(args[k])
    BY <1>1, GuestPtrUnfolds
  <2>2. args[k] \in Nat \ {0}
    BY <1>1
  <2>3. SlotFor(args[k]) \in Nat /\ SlotFor(args[k]) >= args[k]
    BY <2>2, SlotHolds
  <2>4. k + 1 \in 1 .. Len(args) + 1
    BY <1>1
  <2>5. ptr[k + 1] \in Int
    BY <1>2, <2>4
  <2> QED BY <2>1, <2>2, <2>3, <2>5
<1> HIDE DEF ptr
<1> DEFINE S == {d \in Nat : j + d <= Len(args) + 1 => ptr[j + d] >= ptr[j] + d}
<1>4. 0 \in S
  <2>1. ptr[j] \in Int /\ j + 0 = j
    BY <1>2
  <2> QED BY <2>1
<1>5. ASSUME NEW d \in S PROVE d + 1 \in S
  <2>1. d \in Nat /\ (j + d <= Len(args) + 1 => ptr[j + d] >= ptr[j] + d)
    OBVIOUS
  <2>2. SUFFICES ASSUME j + (d + 1) <= Len(args) + 1 PROVE ptr[j + (d + 1)] >= ptr[j] + (d + 1)
    BY <2>1
  <2>3. j + d \in 1 .. Len(args) /\ (j + d) + 1 = j + (d + 1)
    BY <1>1, <2>1, <2>2
  <2>4. ptr[j + (d + 1)] >= ptr[j + d] + 1
    BY <1>3, <2>3
  <2>5. j + d \in 1 .. Len(args) + 1 /\ j + (d + 1) \in 1 .. Len(args) + 1
    BY <1>1, <2>3
  <2>6. ptr[j] \in Int /\ ptr[j + d] \in Int /\ ptr[j + (d + 1)] \in Int
    BY <1>2, <2>5
  <2>7. ptr[j + d] >= ptr[j] + d
    BY <1>1, <2>1, <2>3
  <2> DEFINE low == ptr[j]
             high == ptr[j + d]
             next == ptr[j + (d + 1)]
  <2>8. low \in Int /\ high \in Int /\ next \in Int /\ next >= high + 1 /\ high >= low + d
    BY <2>4, <2>6, <2>7
  <2> HIDE DEF low, high, next
  <2>9. next >= low + (d + 1)
    BY <2>1, <2>8
  <2> QED BY <2>9 DEF low, next
<1>6. S \in SUBSET Nat
  OBVIOUS
<1> HIDE DEF S
<1>7. S = Nat
  BY <1>4, <1>5, <1>6, Induction
<1>8. i - j \in Nat /\ j + (i - j) = i /\ i <= Len(args) + 1
  BY <1>1
<1>9. ptr[j + (i - j)] >= ptr[j] + (i - j)
  BY <1>7, <1>8 DEF S
<1> QED BY <1>8, <1>9 DEF ptr

LEMMA TouchingEnds ==
    ASSUME NEW a \in Int, NEW here \in Int, NEW next \in Int, NEW there \in Int,
           NEW len \in Nat, NEW k \in Nat, NEW d \in Nat,
           a = there + k, a <= here + len, next >= here + len, there >= next + d
    PROVE  k = 0 /\ d = 0 /\ a = here + len
OBVIOUS

(* The byte too many of a string falls on the next one's first, which it is. *)
LEMMA ByteCopied ==
    ASSUME NEW args \in Seq(Nat \ {0}), NEW i \in 1 .. Len(args), NEW k \in 0 .. args[i] - 1
    PROVE  CopiedTo(args, GuestPtr(args)[i] + k) = HostAt(args)[i] + k
<1>1. Len(args) \in Nat /\ (\A j \in 1 .. Len(args) : args[j] \in Nat \ {0})
      /\ args \in Seq(Nat) /\ args \in Seq(Int) /\ DOMAIN args = 1 .. Len(args)
  <2>1. Len(args) \in Nat /\ (\A j \in 1 .. Len(args) : args[j] \in Nat \ {0})
        /\ DOMAIN args = 1 .. Len(args)
    OBVIOUS
  <2> QED BY <2>1
<1> DEFINE ptr == GuestPtr(args)
           at == HostAt(args)
           a == ptr[i] + k
           C == {j \in DOMAIN args : a \in ptr[j] .. ptr[j] + args[j]}
           m == Min(C)
<1>2. CopiedTo(args, a) = at[m] + a - ptr[m]
  BY DEF CopiedTo
<1>3. \A j \in 1 .. Len(args) + 1 : ptr[j] \in Int /\ at[j] \in Int
  BY <1>1, GuestPtrUnfolds, HostAtUnfolds
<1>4. \A j \in 1 .. Len(args) : at[j + 1] = at[j] + args[j]
  BY <1>1, HostAtUnfolds
<1>5. \A j \in 1 .. Len(args) : ptr[j + 1] >= ptr[j] + args[j]
  <2> TAKE j \in 1 .. Len(args)
  <2>1. ptr[j] = ptr[j + 1] - SlotFor(args[j])
    BY <1>1, GuestPtrUnfolds
  <2>2. args[j] \in Nat
    BY <1>1
  <2>3. SlotFor(args[j]) \in Nat /\ SlotFor(args[j]) >= args[j]
    BY <2>2, SlotHolds
  <2>4. j + 1 \in 1 .. Len(args) + 1
    BY <1>1
  <2>5. ptr[j + 1] \in Int
    BY <1>3, <2>4
  <2> QED BY <2>1, <2>2, <2>3, <2>5
<1>6. \A j \in 1 .. Len(args) : j + 1 <= i => ptr[i] >= ptr[j + 1] + (i - (j + 1))
  <2> TAKE j \in 1 .. Len(args)
  <2>1. j + 1 \in 1 .. Len(args) + 1 /\ i \in 1 .. Len(args) + 1
    BY <1>1
  <2> QED BY <2>1, SlotsApart
<1> HIDE DEF ptr, at
<1>7. i \in 1 .. Len(args) + 1 /\ i \in Nat
  BY <1>1
<1>8. ptr[i] \in Int /\ at[i] \in Int /\ args[i] \in Nat /\ k \in Nat /\ k < args[i]
  BY <1>1, <1>3, <1>7
<1>9. a \in Int /\ a = ptr[i] + k
  BY <1>8
<1> HIDE DEF a
<1>10. i \in C
  BY <1>1, <1>8, <1>9
<1>11. m \in C /\ m <= i
  <2>1. C \in SUBSET Nat /\ C # {}
    BY <1>1, <1>10
  <2> HIDE DEF C
  <2>2. \E x \in C : \A y \in C : x <= y
    BY <2>1, LeastNumber
  <2>3. m \in C /\ \A y \in C : m <= y
    BY <2>2 DEF Min
  <2> QED BY <1>10, <2>3
<1>12. m \in 1 .. Len(args) /\ a \in ptr[m] .. ptr[m] + args[m]
  BY <1>1, <1>11
<1> HIDE DEF C, m
<1>13. CASE m = i
  <2>1. at[m] + a - ptr[m] = at[i] + (ptr[i] + k) - ptr[i]
    BY <1>9, <1>13
  <2> QED BY <1>2, <1>8, <2>1 DEF a, ptr, at
<1>14. CASE m # i
  <2>1. m \in Nat /\ m + 1 \in 1 .. Len(args) + 1 /\ m + 1 <= i
    BY <1>1, <1>7, <1>11, <1>12, <1>14
  <2>2. ptr[m] \in Int /\ ptr[m + 1] \in Int /\ at[m] \in Int /\ args[m] \in Nat
    BY <1>1, <1>3, <1>12, <2>1
  <2>3. ptr[i] >= ptr[m + 1] + (i - (m + 1)) /\ ptr[m + 1] >= ptr[m] + args[m]
        /\ a <= ptr[m] + args[m] /\ a >= ptr[m]
    BY <1>5, <1>6, <1>12, <2>1, <2>2
  <2>4. i - (m + 1) \in Nat
    BY <1>7, <2>1
  <2>5. k = 0 /\ i - (m + 1) = 0 /\ a = ptr[m] + args[m]
    <3> DEFINE here == ptr[m]
               next == ptr[m + 1]
               there == ptr[i]
               len == args[m]
               d == i - (m + 1)
    <3>1. here \in Int /\ next \in Int /\ there \in Int /\ len \in Nat /\ d \in Nat
          /\ a \in Int /\ k \in Nat
      BY <1>8, <1>9, <2>2, <2>4
    <3>2. a = there + k /\ a <= here + len /\ next >= here + len /\ there >= next + d
      BY <1>9, <2>3
    <3> HIDE DEF here, next, there, len, d
    <3>3. k = 0 /\ d = 0 /\ a = here + len
      BY <3>1, <3>2, TouchingEnds
    <3> QED BY <3>3 DEF here, len, d
  <2>6. i = m + 1
    BY <1>7, <2>1, <2>5
  <2>7. at[i] = at[m] + args[m]
    BY <1>4, <1>12, <2>6
  <2>8. at[m] + a - ptr[m] = at[i] + k
    BY <1>8, <2>2, <2>5, <2>7
  <2> QED BY <1>2, <2>8 DEF a, ptr, at
<1> QED BY <1>13, <1>14

LEMMA BetweenEnds ==
    ASSUME NEW first \in Int, NEW p \in Seq(Int), NEW i \in 1 .. Len(p)
    PROVE  (<<first>> \o p \o <<0>>)[i + 1] = p[i]
<1> DEFINE one == <<first>>
           head == one \o p
           last == <<0>>
<1>1. one \in Seq(Int) /\ Len(one) = 1 /\ last \in Seq(Int) /\ Len(last) = 1
  OBVIOUS
<1>2. Len(p) \in Nat /\ i \in Nat /\ i <= Len(p) /\ i > 0
  OBVIOUS
<1> HIDE DEF one, last
<1>3. head \in Seq(Int) /\ Len(head) = Len(one) + Len(p)
      /\ \A j \in 1 .. Len(one) + Len(p) :
            head[j] = IF j <= Len(one) THEN one[j] ELSE p[j - Len(one)]
  BY <1>1, ConcatProperties
<1>4. Len(head) = 1 + Len(p) /\ head[i + 1] = p[i]
  BY <1>1, <1>2, <1>3
<1> HIDE DEF head
<1>5. \A j \in 1 .. Len(head) + Len(last) :
          (head \o last)[j] = IF j <= Len(head) THEN head[j] ELSE last[j - Len(head)]
  <2>1. head \in Seq(Int) /\ last \in Seq(Int)
    BY <1>1, <1>3
  <2> QED BY ONLY <2>1, ConcatProperties
<1>6. (head \o last)[i + 1] = head[i + 1]
  BY <1>1, <1>2, <1>4, <1>5
<1> QED BY <1>4, <1>6 DEF head, one, last

(* The program finds the pointer of each string where it looks for it.       *)
LEMMA PointerFound ==
    ASSUME NEW args \in Seq(Nat), NEW i \in 1 .. Len(args)
    PROVE  FoundArgument(args, i) = GuestPtr(args)[i]
<1> DEFINE ptrs == [j \in 1 .. Len(args) |-> GuestPtr(args)[j]]
<1>1. Len(args) \in Nat /\ \A j \in 1 .. Len(args) : GuestPtr(args)[j] \in Int
  <2>1. Len(args) \in Nat
    OBVIOUS
  <2>2. \A j \in 1 .. Len(args) + 1 : GuestPtr(args)[j] \in Int
    BY GuestPtrUnfolds
  <2> QED BY <2>1, <2>2
<1>2. ptrs \in [1 .. Len(args) -> Int]
  BY <1>1
<1>3. ptrs \in Seq(Int) /\ Len(ptrs) = Len(args) /\ ptrs[i] = GuestPtr(args)[i]
  BY <1>1, <1>2
<1>4. InitialFrame(args) = <<Len(args)>> \o ptrs \o <<0>>
  BY DEF InitialFrame
<1> HIDE DEF ptrs
<1>5. (<<Len(args)>> \o ptrs \o <<0>>)[i + 1] = ptrs[i]
  <2>1. Len(args) \in Int /\ i \in 1 .. Len(ptrs)
    BY <1>1, <1>3
  <2> QED BY <1>3, <2>1, BetweenEnds
<1> QED BY <1>3, <1>4, <1>5 DEF FoundArgument

(* Every string of the command line arrives whole (init_stack), for command  *)
(* lines of every length and slots of every size.                            *)
THEOREM ArgumentsRight == PassSpec => []ArgumentsIntact
<1>1. PassInit => ArgumentsIntact
  BY DEF PassInit, Nothing, ArgumentsIntact
<1>2. ArgumentsIntact /\ [Pass]_passed => ArgumentsIntact'
  <2> SUFFICES ASSUME ArgumentsIntact, [Pass]_passed PROVE ArgumentsIntact'
    OBVIOUS
  <2>1. CASE LayStack
    <3>1. PICK args \in SeqOf({l \in Lengths : l > 0}, IOV_MAX) :
              passed' = [by |-> "argv", host |-> args,
                         found |-> [i \in DOMAIN args |-> [k \in 0 .. args[i] - 1 |->
                                       CopiedTo(args, FoundArgument(args, i) + k)]]]
      BY <2>1 DEF LayStack
    <3>2. args \in Seq({l \in Lengths : l > 0})
      BY SizeAssumption, SequencesTried
    <3>3. {l \in Lengths : l > 0} \subseteq Nat \ {0}
      <4>1. \A l \in Lengths : l \in Int
        BY SizeAssumption
      <4> QED BY <4>1
    <3>4. args \in Seq(Nat \ {0}) /\ args \in Seq(Nat) /\ DOMAIN args = 1 .. Len(args)
      <4>1. \A i \in 1 .. Len(args) : args[i] \in Nat \ {0}
        <5>1. \A i \in 1 .. Len(args) : args[i] \in {l \in Lengths : l > 0}
          BY <3>2
        <5> QED BY <3>3, <5>1
      <4>2. Len(args) \in Nat /\ DOMAIN args = 1 .. Len(args)
        BY <3>2
      <4> QED BY <3>2, <4>1, <4>2
    <3>5. ASSUME NEW i \in DOMAIN args, NEW k \in 0 .. args[i] - 1
          PROVE  CopiedTo(args, FoundArgument(args, i) + k) = HostAt(args)[i] + k
      <4>1. FoundArgument(args, i) = GuestPtr(args)[i]
        BY <3>4, PointerFound
      <4>2. CopiedTo(args, GuestPtr(args)[i] + k) = HostAt(args)[i] + k
        BY <3>4, ByteCopied
      <4> QED BY <4>1, <4>2
    <3> QED BY <3>1, <3>5 DEF ArgumentsIntact
  <2>2. CASE passed'.by # "argv"
    BY <2>2 DEF ArgumentsIntact
  <2>3. CASE UNCHANGED passed
    BY <2>3 DEF ArgumentsIntact
  <2> QED BY <2>1, <2>2, <2>3, WhoPassed
<1> QED BY <1>1, <1>2, PTL DEF PassSpec

-----------------------------------------------------------------------------
(* Structures. *)

LEMMA RoundsUp ==
    ASSUME NEW n \in Nat, NEW align \in 1 .. 8
    PROVE  RoundUp(n, align) \in Nat /\ n <= RoundUp(n, align)
<1>1. CASE align = 1
  BY <1>1 DEF RoundUp
<1>2. CASE align = 2
  BY <1>2 DEF RoundUp
<1>3. CASE align = 3
  BY <1>3 DEF RoundUp
<1>4. CASE align = 4
  BY <1>4 DEF RoundUp
<1>5. CASE align = 5
  BY <1>5 DEF RoundUp
<1>6. CASE align = 6
  BY <1>6 DEF RoundUp
<1>7. CASE align = 7
  BY <1>7 DEF RoundUp
<1>8. CASE align = 8
  BY <1>8 DEF RoundUp
<1> QED BY <1>1, <1>2, <1>3, <1>4, <1>5, <1>6, <1>7, <1>8

(* Where fields of these widths end. *)
AreEnds(end, widths) ==
    /\ end \in [0 .. Len(widths) -> Nat]
    /\ \A i \in 1 .. Len(widths) : end[i] = RoundUp(end[i - 1], widths[i]) + widths[i]

LEMMA PlacesUnfold ==
    ASSUME NEW widths \in Seq(1 .. 8)
    PROVE  \E end : /\ AreEnds(end, widths)
                    /\ \A i \in 1 .. Len(widths) : PlacesIn(widths)[i] = end[i] - widths[i]
<1> DEFINE N == Len(widths)
           g == [p \in Nat \X Nat |->
                    IF p[1] < N THEN RoundUp(p[2], widths[p[1] + 1]) + widths[p[1] + 1] ELSE 0]
           Good(f) == f = [i \in 0 .. N |->
                              IF i = 0 THEN 0 ELSE RoundUp(f[i - 1], widths[i]) + widths[i]]
           end == CHOOSE f : Good(f)
<1>1. N \in Nat /\ (\A i \in 1 .. N : widths[i] \in 1 .. 8) /\ DOMAIN widths = 1 .. N
  OBVIOUS
<1>2. \A i \in 1 .. N : PlacesIn(widths)[i] = end[i] - widths[i]
  BY <1>1 DEF PlacesIn
<1> HIDE DEF N, end
<1>3. ASSUME NEW i \in 1 .. N, NEW n \in Nat
      PROVE  RoundUp(n, widths[i]) + widths[i] \in Nat
  <2>1. widths[i] \in 1 .. 8
    BY <1>1
  <2>2. RoundUp(n, widths[i]) \in Nat
    BY <2>1, RoundsUp
  <2> QED BY <2>1, <2>2
<1>4. IsRule(g, Nat)
  <2>1. ASSUME NEW p \in Nat \X Nat
        PROVE  (IF p[1] < N THEN RoundUp(p[2], widths[p[1] + 1]) + widths[p[1] + 1] ELSE 0) \in Nat
    <3>1. CASE p[1] < N
      <4>1. p[1] + 1 \in 1 .. N /\ p[2] \in Nat
        BY <1>1, <3>1
      <4> QED BY <1>3, <3>1, <4>1
    <3> QED BY <3>1
  <2> QED BY <2>1 DEF IsRule
<1>5. ASSUME NEW i \in 0 .. N, NEW m \in Nat, i # 0
      PROVE  g[<<i - 1, m>>] = RoundUp(m, widths[i]) + widths[i]
  <2>1. i - 1 \in Nat /\ i - 1 < N /\ (i - 1) + 1 = i
    BY <1>1, <1>5
  <2> QED BY <2>1
<1> HIDE DEF g
<1>6. PICK f : RecursesUpTo(f, N, Nat, 0, g)
  BY <1>1, <1>4, RecursionUpTo
<1>7. ASSUME NEW i \in 0 .. N
      PROVE  f[i] = IF i = 0 THEN 0 ELSE RoundUp(f[i - 1], widths[i]) + widths[i]
  <2>1. f[i] = IF i = 0 THEN 0 ELSE g[<<i - 1, f[i - 1]>>]
    BY <1>6 DEF RecursesUpTo
  <2>2. CASE i # 0
    <3>1. f[i - 1] \in Nat
      BY <1>1, <1>6, <2>2 DEF RecursesUpTo
    <3> QED BY <1>5, <2>1, <2>2, <3>1
  <2> QED BY <2>1, <2>2
<1>8. Good(f)
  <2>1. DOMAIN f = 0 .. N /\ f = [i \in 0 .. N |-> f[i]]
    BY <1>6 DEF RecursesUpTo
  <2> QED BY <1>7, <2>1
<1>9. Good(end)
  BY <1>8 DEF end
<1>10. \A i \in 0 .. N : end[i] = IF i = 0 THEN 0 ELSE RoundUp(end[i - 1], widths[i]) + widths[i]
  BY <1>9
<1>11. \A i \in 0 .. N : end[i] \in Nat
  <2> DEFINE S == {k \in Nat : k <= N => end[k] \in Nat}
  <2>1. S \in SUBSET Nat /\ 0 \in S
    BY <1>1, <1>10
  <2>2. ASSUME NEW k \in S PROVE k + 1 \in S
    <3>1. k \in Nat /\ (k <= N => end[k] \in Nat)
      OBVIOUS
    <3>2. SUFFICES ASSUME k + 1 <= N PROVE end[k + 1] \in Nat
      BY <3>1
    <3>3. k + 1 \in 0 .. N /\ k + 1 \in 1 .. N /\ k + 1 # 0 /\ (k + 1) - 1 = k /\ k <= N
      BY <1>1, <3>1, <3>2
    <3>4. end[k + 1] = RoundUp(end[k], widths[k + 1]) + widths[k + 1]
      BY <1>10, <3>3
    <3> QED BY <1>3, <3>1, <3>3, <3>4
  <2> HIDE DEF S
  <2>3. S = Nat
    BY <2>1, <2>2, Induction
  <2> QED BY <1>1, <2>3 DEF S
<1>12. AreEnds(end, widths)
  <2>1. end \in [0 .. N -> Nat]
    BY <1>9, <1>11
  <2>2. \A i \in 1 .. N : i \in 0 .. N /\ i # 0
    BY <1>1
  <2>3. \A i \in 1 .. N : end[i] = RoundUp(end[i - 1], widths[i]) + widths[i]
    BY <1>10, <2>2
  <2> QED BY <2>1, <2>3 DEF AreEnds, N
<1> QED BY <1>2, <1>12 DEF N

LEMMA FieldEnd ==
    ASSUME NEW before \in Nat, NEW begin \in Nat, NEW width \in 1 .. 8, NEW end, NEW place,
           before <= begin, end = begin + width, place = end - width
    PROVE  /\ place \in Nat /\ before <= place
           /\ place + width = end /\ before <= end
OBVIOUS

(* Every field lies behind those before it. *)
LEMMA FieldsApart ==
    ASSUME NEW widths \in Seq(1 .. 8), NEW i \in 1 .. Len(widths)
    PROVE  /\ PlacesIn(widths)[i] \in Nat
           /\ \A j \in 1 .. Len(widths) :
                 i < j => PlacesIn(widths)[i] + widths[i] <= PlacesIn(widths)[j]
<1>1. PICK end : /\ AreEnds(end, widths)
                 /\ \A j \in 1 .. Len(widths) : PlacesIn(widths)[j] = end[j] - widths[j]
  BY PlacesUnfold
<1>2. Len(widths) \in Nat /\ \A j \in 1 .. Len(widths) : widths[j] \in 1 .. 8
  OBVIOUS
<1>3. \A j \in 0 .. Len(widths) : end[j] \in Nat
  BY <1>1 DEF AreEnds
<1>4. ASSUME NEW j \in 1 .. Len(widths)
      PROVE  /\ end[j - 1] \in Nat /\ end[j] \in Nat
             /\ PlacesIn(widths)[j] \in Nat
             /\ end[j - 1] <= PlacesIn(widths)[j]
             /\ PlacesIn(widths)[j] + widths[j] = end[j]
             /\ end[j - 1] <= end[j]
  <2>1. j - 1 \in 0 .. Len(widths) /\ j \in 0 .. Len(widths)
    BY <1>2
  <2>2. end[j - 1] \in Nat /\ end[j] \in Nat /\ widths[j] \in 1 .. 8
    BY <1>2, <1>3, <2>1
  <2>3. RoundUp(end[j - 1], widths[j]) \in Nat /\ end[j - 1] <= RoundUp(end[j - 1], widths[j])
    BY <2>2, RoundsUp
  <2>4. end[j] = RoundUp(end[j - 1], widths[j]) + widths[j]
    BY <1>1 DEF AreEnds
  <2>5. PlacesIn(widths)[j] = end[j] - widths[j]
    BY <1>1
  <2> DEFINE before == end[j - 1]
             begin == RoundUp(before, widths[j])
             width == widths[j]
             here == end[j]
             place == PlacesIn(widths)[j]
  <2>6. /\ before \in Nat /\ here \in Nat /\ begin \in Nat /\ width \in 1 .. 8
        /\ before <= begin /\ here = begin + width /\ place = here - width
    BY <2>2, <2>3, <2>4, <2>5
  <2> HIDE DEF before, begin, width, here, place
  <2>7. /\ before \in Nat /\ here \in Nat /\ place \in Nat /\ before <= place
        /\ place + width = here /\ before <= here
    BY <2>6, FieldEnd
  <2> QED BY <2>7 DEF before, width, here, place
<1> DEFINE S == {d \in Nat : i + d <= Len(widths) => end[i] <= end[i + d]}
<1>5. S \in SUBSET Nat /\ 0 \in S
  BY <1>4
<1>6. ASSUME NEW d \in S PROVE d + 1 \in S
  <2>1. d \in Nat /\ (i + d <= Len(widths) => end[i] <= end[i + d])
    OBVIOUS
  <2>2. SUFFICES ASSUME i + (d + 1) <= Len(widths) PROVE end[i] <= end[i + (d + 1)]
    BY <2>1
  <2>3. i + (d + 1) \in 1 .. Len(widths) /\ (i + (d + 1)) - 1 = i + d /\ i + d <= Len(widths)
    BY <1>2, <2>1, <2>2
  <2>4. end[i + d] \in Nat /\ end[i + (d + 1)] \in Nat /\ end[i + d] <= end[i + (d + 1)]
    BY <1>4, <2>3
  <2>5. end[i] \in Nat
    BY <1>4
  <2> QED BY <2>1, <2>3, <2>4, <2>5
<1> HIDE DEF S
<1>7. S = Nat
  BY <1>5, <1>6, Induction
<1>8. ASSUME NEW j \in 1 .. Len(widths), i < j
      PROVE  PlacesIn(widths)[i] + widths[i] <= PlacesIn(widths)[j]
  <2>1. (j - 1) - i \in Nat /\ i + ((j - 1) - i) = j - 1 /\ j - 1 <= Len(widths)
    BY <1>2, <1>8
  <2>2. end[i] <= end[j - 1]
    BY <1>7, <2>1 DEF S
  <2> QED BY <1>4, <2>2
<1> QED BY <1>4, <1>8

LEMMA SpansMeet ==
    ASSUME NEW from \in Nat, NEW there \in Nat, NEW v \in 1 .. 8, NEW w \in 1 .. 8,
           NEW k \in 0 .. v - 1, NEW l \in 0 .. w - 1,
           from + v - 1 - k = there + w - 1 - l
    PROVE  ~(from + v <= there) /\ ~(there + w <= from)
OBVIOUS

(* A byte is a lane of one field at most. *)
LEMMA OneLane ==
    ASSUME NEW widths \in Seq(1 .. 8),
           NEW i \in 1 .. Len(widths), NEW k \in 0 .. widths[i] - 1,
           NEW j \in 1 .. Len(widths), NEW l \in 0 .. widths[j] - 1,
           Place(widths, i, k) = Place(widths, j, l)
    PROVE  i = j /\ k = l
<1> DEFINE from == PlacesIn(widths)[i]
           there == PlacesIn(widths)[j]
<1>1. widths[i] \in 1 .. 8 /\ widths[j] \in 1 .. 8
  OBVIOUS
<1>2. from \in Nat /\ there \in Nat
  BY FieldsApart
<1>3. (i < j => from + widths[i] <= there) /\ (j < i => there + widths[j] <= from)
  BY FieldsApart
<1>4. from + widths[i] - 1 - k = there + widths[j] - 1 - l
  BY DEF Place
<1> HIDE DEF from, there
<1>5. i = j
  <2>1. ~(from + widths[i] <= there) /\ ~(there + widths[j] <= from)
    BY <1>1, <1>2, <1>4, SpansMeet
  <2>2. ~(i < j) /\ ~(j < i)
    BY <1>3, <2>1
  <2> QED BY <2>2
<1> QED BY <1>1, <1>2, <1>4, <1>5 DEF from, there

(* A structure that a compiler may be given. *)
IsStruct(struct) ==
    /\ struct \in Seq([type : FieldTypes, name : STRING])
    /\ \A i, j \in DOMAIN struct :
          struct[i].name = struct[j].name /\ i # j => struct[i].name = ""

(* Both compilers give the fields the same widths. *)
LEMMA SameWidths ==
    ASSUME NEW struct, IsStruct(struct)
    PROVE  /\ OnHost(struct) = OnGuest(struct)
           /\ OnHost(struct) \in Seq(1 .. 8) /\ Len(OnHost(struct)) = Len(struct)
           /\ Len(struct) \in Nat /\ DOMAIN struct = 1 .. Len(struct)
           /\ DOMAIN OnHost(struct) = 1 .. Len(struct)
<1> DEFINE Host(type) == HostBytes[IF type \in DOMAIN abi_types THEN abi_types[type] ELSE type]
           Guest(type) == GuestBytes[IF type \in DOMAIN GuestTypes THEN GuestTypes[type] ELSE type]
<1>1. ASSUME NEW type \in FieldTypes
      PROVE  Host(type) = Guest(type) /\ Host(type) \in 1 .. 8
  <2>1. CASE type = "char"
    BY <2>1 DEF HostBytes, GuestBytes, abi_types, GuestTypes
  <2>2. CASE type = "short"
    BY <2>2 DEF HostBytes, GuestBytes, abi_types, GuestTypes
  <2>3. CASE type = "int"
    BY <2>3 DEF HostBytes, GuestBytes, abi_types, GuestTypes
  <2>4. CASE type = "abi_long"
    BY <2>4 DEF HostBytes, GuestBytes, abi_types, GuestTypes
  <2>5. CASE type = "uint64_t"
    BY <2>5 DEF HostBytes, GuestBytes, abi_types, GuestTypes
  <2> QED BY <2>1, <2>2, <2>3, <2>4, <2>5 DEF FieldTypes
<1>2. /\ Len(struct) \in Nat /\ DOMAIN struct = 1 .. Len(struct)
      /\ \A i \in 1 .. Len(struct) : struct[i].type \in FieldTypes
  <2> DEFINE F == [type : FieldTypes, name : STRING]
  <2>1. struct \in Seq(F) /\ \A f \in F : f.type \in FieldTypes
    BY DEF IsStruct
  <2> HIDE DEF F
  <2>2. /\ Len(struct) \in Nat /\ DOMAIN struct = 1 .. Len(struct)
        /\ \A i \in 1 .. Len(struct) : struct[i] \in F
    BY <2>1
  <2> QED BY <2>1, <2>2
<1>3. /\ OnHost(struct) = [i \in 1 .. Len(struct) |-> Host(struct[i].type)]
      /\ OnGuest(struct) = [i \in 1 .. Len(struct) |-> Guest(struct[i].type)]
  BY <1>2 DEF OnHost, OnGuest
<1> HIDE DEF Host, Guest
<1>4. OnHost(struct) = OnGuest(struct)
  BY <1>1, <1>2, <1>3
<1>5. OnHost(struct) \in [1 .. Len(struct) -> 1 .. 8]
  BY <1>1, <1>2, <1>3
<1>6. OnHost(struct) \in Seq(1 .. 8) /\ Len(OnHost(struct)) = Len(struct)
  BY <1>2, <1>5
<1> QED BY <1>2, <1>3, <1>4, <1>6

(* Memory that holds these fields of the structure, each with the lanes of   *)
(* its value that it has room for, and nothing else.                         *)
LanesOf(struct, I) ==
    {p \in (DOMAIN struct) \X (0 .. 7) : p[1] \in I /\ p[2] < OnHost(struct)[p[1]]}

PlacesOf(struct, I) == {Place(OnHost(struct), p[1], p[2]) : p \in LanesOf(struct, I)}

Holding(struct, values, I) ==
    [a \in PlacesOf(struct, I) |->
        LET q == CHOOSE p \in LanesOf(struct, I) : Place(OnHost(struct), p[1], p[2]) = a
        IN  values[struct[q[1]].name][q[2]]]

LEMMA HoldingAt ==
    ASSUME NEW struct, NEW values, IsStruct(struct), NEW I \in SUBSET DOMAIN struct,
           NEW i \in I, NEW k \in 0 .. OnHost(struct)[i] - 1
    PROVE  /\ Place(OnHost(struct), i, k) \in PlacesOf(struct, I)
           /\ Holding(struct, values, I)[Place(OnHost(struct), i, k)] = values[struct[i].name][k]
<1> DEFINE widths == OnHost(struct)
           a == Place(widths, i, k)
           q == CHOOSE p \in LanesOf(struct, I) : Place(widths, p[1], p[2]) = a
<1>1. /\ widths \in Seq(1 .. 8) /\ Len(widths) = Len(struct) /\ DOMAIN struct = 1 .. Len(struct)
      /\ \A j \in 1 .. Len(struct) : widths[j] \in 1 .. 8
  <2>1. /\ widths \in Seq(1 .. 8) /\ Len(widths) = Len(struct) /\ DOMAIN struct = 1 .. Len(struct)
    BY SameWidths
  <2> HIDE DEF widths
  <2> QED BY <2>1
<1>2. <<i, k>> \in LanesOf(struct, I)
  <2>1. i \in DOMAIN struct /\ widths[i] \in 1 .. 8
    BY <1>1
  <2>2. k \in 0 .. 7 /\ k < widths[i]
    <3> HIDE DEF widths
    <3>1. k \in 0 .. widths[i] - 1
      BY DEF widths
    <3> QED BY <2>1, <3>1
  <2> QED BY <2>1, <2>2 DEF LanesOf
<1>3. Place(widths, <<i, k>>[1], <<i, k>>[2]) = a
  OBVIOUS
<1>4. a \in PlacesOf(struct, I)
  BY <1>2 DEF PlacesOf
<1>5. q \in LanesOf(struct, I) /\ Place(widths, q[1], q[2]) = a
  BY <1>2, <1>3
<1>6. Holding(struct, values, I)[a] = values[struct[q[1]].name][q[2]]
  BY <1>4 DEF Holding
<1> HIDE DEF q
<1>7. q[1] \in 1 .. Len(struct) /\ q[2] \in 0 .. widths[q[1]] - 1
  <2>1. q[1] \in 1 .. Len(struct) /\ q[2] \in 0 .. 7 /\ q[2] < widths[q[1]]
    BY <1>1, <1>5 DEF LanesOf
  <2>2. widths[q[1]] \in 1 .. 8
    BY <1>1, <2>1
  <2> DEFINE l == q[2]
             w == widths[q[1]]
  <2>3. l \in 0 .. 7 /\ l < w /\ w \in 1 .. 8
    BY <2>1, <2>2
  <2> HIDE DEF l, w
  <2>4. l \in 0 .. w - 1
    BY <2>3
  <2> QED BY <2>1, <2>4 DEF l, w
<1>8. i \in 1 .. Len(struct) /\ k \in 0 .. widths[i] - 1
  BY <1>1
<1> HIDE DEF widths
<1>9. i = q[1] /\ k = q[2]
  BY <1>1, <1>5, <1>7, <1>8, OneLane DEF a
<1> QED BY <1>4, <1>6, <1>9 DEF a, widths

Named(struct) == {i \in DOMAIN struct : struct[i].name # ""}

(* The program's own layout is the memory that holds all named fields.       *)
LEMMA LaidHolds ==
    ASSUME NEW struct, NEW values, IsStruct(struct)
    PROVE  Laid(struct, values) = Holding(struct, values, Named(struct))
<1> DEFINE lanes == {p \in (DOMAIN struct) \X (0 .. 7) :
                        struct[p[1]].name # "" /\ p[2] < OnHost(struct)[p[1]]}
<1>1. OnGuest(struct) = OnHost(struct)
  BY SameWidths
<1>2. lanes = LanesOf(struct, Named(struct))
  BY DEF LanesOf, Named
<1>3. Laid(struct, values) = [a \in {Place(OnHost(struct), p[1], p[2]) : p \in lanes} |->
                        LET q == CHOOSE p \in lanes : Place(OnHost(struct), p[1], p[2]) = a
                        IN  values[struct[q[1]].name][q[2]]]
  BY <1>1 DEF Laid
<1> HIDE DEF lanes
<1> QED BY <1>2, <1>3 DEF Holding, PlacesOf

(* A name leads to its field. *)
LEMMA FieldFound ==
    ASSUME NEW struct, IsStruct(struct), NEW i \in Named(struct)
    PROVE  FieldOf(struct, struct[i].name) = i
<1>1. /\ i \in DOMAIN struct /\ struct[i].name # ""
      /\ \A j \in DOMAIN struct : struct[j].name = struct[i].name => j = i
  BY DEF IsStruct, Named
<1> QED BY <1>1 DEF FieldOf

LEMMA HoldingIsMemory ==
    ASSUME NEW struct, NEW values, NEW I
    PROVE  /\ DOMAIN Holding(struct, values, I) = PlacesOf(struct, I)
           /\ Holding(struct, values, I) =
                 [a \in PlacesOf(struct, I) |-> Holding(struct, values, I)[a]]
<1> DEFINE told(a) ==
               LET q == CHOOSE p \in LanesOf(struct, I) : Place(OnHost(struct), p[1], p[2]) = a
               IN  values[struct[q[1]].name][q[2]]
<1>1. Holding(struct, values, I) = [a \in PlacesOf(struct, I) |-> told(a)]
  BY DEF Holding
<1> HIDE DEF told
<1> QED BY <1>1

(* Putting a field adds its bytes and leaves those of the others alone.      *)
LEMMA PutHolds ==
    ASSUME NEW struct, NEW values, IsStruct(struct),
           NEW I \in SUBSET Named(struct), NEW i \in Named(struct)
    PROVE  Put(struct, Holding(struct, values, I), struct[i].name, values[struct[i].name])
               = Holding(struct, values, I \cup {i})
<1> DEFINE widths == OnHost(struct)
           at == PlacesIn(widths)[i]
           width == widths[i]
           name == struct[i].name
           J == I \cup {i}
           old == Holding(struct, values, I)
           new == Holding(struct, values, J)
<1>1. /\ widths \in Seq(1 .. 8) /\ Len(widths) = Len(struct)
      /\ Len(struct) \in Nat /\ DOMAIN struct = 1 .. Len(struct)
  BY SameWidths
<1>2. i \in 1 .. Len(struct) /\ J \in SUBSET DOMAIN struct /\ I \in SUBSET DOMAIN struct
  BY <1>1 DEF Named
<1>3. at \in Nat /\ width \in 1 .. 8
  <2> HIDE DEF widths
  <2>1. i \in 1 .. Len(widths)
    BY <1>1, <1>2
  <2> QED BY <1>1, <2>1, FieldsApart
<1>4. FieldOf(struct, name) = i
  BY FieldFound
<1>5. /\ DOMAIN old = PlacesOf(struct, I) /\ DOMAIN new = PlacesOf(struct, J)
      /\ new = [a \in PlacesOf(struct, J) |-> new[a]]
  BY HoldingIsMemory
<1>6. Put(struct, old, name, values[name]) =
          [a \in PlacesOf(struct, I) \cup at .. at + width - 1 |->
              IF a \in at .. at + width - 1 THEN values[name][width - 1 - (a - at)] ELSE old[a]]
  <2> HIDE DEF old, name
  <2> QED BY <1>4, <1>5 DEF Put
<1>7. ASSUME NEW a \in at .. at + width - 1
      PROVE  /\ a \in PlacesOf(struct, J)
             /\ new[a] = values[name][width - 1 - (a - at)]
  <2> DEFINE k == width - 1 - (a - at)
  <2>1. k \in 0 .. width - 1 /\ at + width - 1 - k = a
    <3> HIDE DEF at, width
    <3> QED BY <1>3
  <2>2. Place(widths, i, k) = a
    BY <2>1 DEF Place
  <2> HIDE DEF k, J
  <2>3. i \in J /\ k \in 0 .. OnHost(struct)[i] - 1
    BY <2>1 DEF J
  <2>4. /\ Place(OnHost(struct), i, k) \in PlacesOf(struct, J)
        /\ Holding(struct, values, J)[Place(OnHost(struct), i, k)] = values[struct[i].name][k]
    BY <1>2, <2>3, HoldingAt
  <2> QED BY <2>2, <2>4 DEF k
<1>8. ASSUME NEW a \in PlacesOf(struct, I)
      PROVE  a \in PlacesOf(struct, J) /\ new[a] = old[a]
  <2>1. PICK p \in LanesOf(struct, I) : a = Place(widths, p[1], p[2])
    BY DEF PlacesOf
  <2> DEFINE j == p[1]
             k == p[2]
  <2>2. j \in I /\ j \in 1 .. Len(struct) /\ k \in 0 .. 7 /\ k < widths[j]
    BY <1>1 DEF LanesOf
  <2>3. widths[j] \in 1 .. 8
    <3> HIDE DEF widths
    <3> QED BY <1>1, <2>2
  <2>4. k \in 0 .. widths[j] - 1
    <3> DEFINE w == widths[j]
    <3>1. k \in 0 .. 7 /\ k < w /\ w \in 1 .. 8
      BY <2>2, <2>3
    <3> HIDE DEF w, k
    <3>2. k \in 0 .. w - 1
      BY <3>1
    <3> QED BY <3>2 DEF w
  <2> HIDE DEF j, k, J
  <2>5. j \in J
    BY <2>2 DEF J
  <2>6. /\ Place(OnHost(struct), j, k) \in PlacesOf(struct, J)
        /\ Holding(struct, values, J)[Place(OnHost(struct), j, k)] = values[struct[j].name][k]
    BY <1>2, <2>4, <2>5, HoldingAt
  <2>7. Holding(struct, values, I)[Place(OnHost(struct), j, k)] = values[struct[j].name][k]
    BY <1>2, <2>2, <2>4, HoldingAt
  <2>8. a = Place(OnHost(struct), j, k)
    BY <2>1 DEF j, k
  <2> QED BY <2>6, <2>7, <2>8
<1>9. ASSUME NEW a \in PlacesOf(struct, J)
      PROVE  a \in PlacesOf(struct, I) \/ a \in at .. at + width - 1
  <2>1. PICK p \in LanesOf(struct, J) : a = Place(widths, p[1], p[2])
    BY DEF PlacesOf
  <2>2. CASE p[1] \in I
    <3>1. p \in LanesOf(struct, I)
      BY <2>2 DEF LanesOf
    <3> QED BY <2>1, <3>1 DEF PlacesOf
  <2>3. CASE p[1] = i
    <3> DEFINE k == p[2]
    <3>1. k \in 0 .. 7 /\ k < width
      BY <2>3 DEF LanesOf
    <3>2. a = at + width - 1 - k
      BY <2>1, <2>3 DEF Place
    <3> HIDE DEF k, at, width
    <3> QED BY <1>3, <3>1, <3>2
  <2> QED BY <2>2, <2>3 DEF LanesOf
<1> DEFINE span == at .. at + width - 1
           told(a) == values[name][width - 1 - (a - at)]
<1>10. /\ Put(struct, old, name, values[name]) =
             [a \in PlacesOf(struct, I) \cup span |-> IF a \in span THEN told(a) ELSE old[a]]
       /\ \A a \in span : a \in PlacesOf(struct, J) /\ new[a] = told(a)
       /\ \A a \in PlacesOf(struct, J) : a \in PlacesOf(struct, I) \/ a \in span
  BY <1>6, <1>7, <1>9
<1> HIDE DEF span, told, old, new
<1>11. PlacesOf(struct, J) = PlacesOf(struct, I) \cup span
  BY <1>8, <1>10
<1>12. Put(struct, old, name, values[name]) = new
  BY <1>5, <1>8, <1>10, <1>11
<1> QED BY <1>12 DEF old, new

(* After all assignments of a call, in whatever order, memory holds the      *)
(* fields that it assigned.                                                  *)
LEMMA FilledHolds ==
    ASSUME NEW struct, NEW values, IsStruct(struct),
           NEW fills \in Seq({struct[i].name : i \in Named(struct)})
    PROVE  Filled(struct, fills, values) =
               Holding(struct, values, {i \in Named(struct) : struct[i].name \in ToSet(fills)})
<1> DEFINE N == Len(fills)
           Good(f) == f = [k \in 0 .. N |->
                              IF k = 0 THEN <<>>
                              ELSE Put(struct, f[k - 1], fills[k], values[fills[k]])]
           mem == CHOOSE f : Good(f)
           I(k) == {i \in Named(struct) : \E j \in 1 .. k : struct[i].name = fills[j]}
           f == [k \in 0 .. N |-> Holding(struct, values, I(k))]
<1>1. /\ N \in Nat /\ DOMAIN fills = 1 .. N
      /\ \A k \in 1 .. N : \E i \in Named(struct) : fills[k] = struct[i].name
  <2> DEFINE F == {struct[i].name : i \in Named(struct)}
  <2>1. fills \in Seq(F) /\ \A n \in F : \E i \in Named(struct) : n = struct[i].name
    OBVIOUS
  <2> HIDE DEF F
  <2> QED BY <2>1
<1>2. Filled(struct, fills, values) = mem[N]
  BY DEF Filled
<1> HIDE DEF N, mem
<1>3. Holding(struct, values, I(0)) = <<>>
  <2>1. I(0) = {}
    OBVIOUS
  <2> HIDE DEF I
  <2>2. PlacesOf(struct, I(0)) = {}
    BY <2>1 DEF PlacesOf, LanesOf
  <2> DEFINE h == Holding(struct, values, I(0))
  <2>3. DOMAIN h = {} /\ h = [a \in {} |-> h[a]]
    BY <2>2, HoldingIsMemory
  <2> HIDE DEF h
  <2>4. h = <<>>
    BY <2>3
  <2> QED BY <2>4 DEF h
<1>4. ASSUME NEW k \in 1 .. N
      PROVE  Put(struct, Holding(struct, values, I(k - 1)), fills[k], values[fills[k]])
                 = Holding(struct, values, I(k))
  <2>1. PICK i \in Named(struct) : fills[k] = struct[i].name
    BY <1>1
  <2>2. ASSUME NEW j \in Named(struct), struct[j].name = struct[i].name
        PROVE  j = i
    BY <2>2, FieldFound
  <2>3. \A j : j \in 1 .. k <=> j \in 1 .. k - 1 \/ j = k
    BY <1>1
  <2>4. I(k) = I(k - 1) \cup {i}
    BY <2>1, <2>2, <2>3
  <2>5. I(k - 1) \in SUBSET Named(struct)
    OBVIOUS
  <2> HIDE DEF I
  <2>6. Put(struct, Holding(struct, values, I(k - 1)), struct[i].name, values[struct[i].name])
            = Holding(struct, values, I(k - 1) \cup {i})
    BY <2>5, PutHolds
  <2> QED BY <2>1, <2>4, <2>6
<1> HIDE DEF I
<1>5. Good(f)
  <2>1. \A k \in 0 .. N : k # 0 => k - 1 \in 0 .. N /\ k \in 1 .. N
    BY <1>1
  <2>2. ASSUME NEW k \in 0 .. N
        PROVE  f[k] = IF k = 0 THEN <<>> ELSE Put(struct, f[k - 1], fills[k], values[fills[k]])
    BY <1>3, <1>4, <2>1
  <2> QED BY <2>2
<1>6. Good(mem)
  <2> HIDE DEF f
  <2> QED BY <1>5 DEF mem
<1>7. \A k \in 0 .. N :
          mem[k] = IF k = 0 THEN <<>> ELSE Put(struct, mem[k - 1], fills[k], values[fills[k]])
  BY <1>6
<1>8. mem[N] = Holding(struct, values, I(N))
  <2> DEFINE S == {k \in Nat : k <= N => mem[k] = Holding(struct, values, I(k))}
  <2>1. S \in SUBSET Nat /\ 0 \in S
    BY <1>1, <1>3, <1>7
  <2>2. ASSUME NEW k \in S PROVE k + 1 \in S
    <3>1. k \in Nat /\ (k <= N => mem[k] = Holding(struct, values, I(k)))
      OBVIOUS
    <3>2. SUFFICES ASSUME k + 1 <= N PROVE mem[k + 1] = Holding(struct, values, I(k + 1))
      BY <3>1
    <3>3. k + 1 \in 0 .. N /\ k + 1 \in 1 .. N /\ k + 1 # 0 /\ (k + 1) - 1 = k /\ k <= N
      BY <1>1, <3>1, <3>2
    <3>4. mem[k + 1] = Put(struct, mem[k], fills[k + 1], values[fills[k + 1]])
      BY <1>7, <3>3
    <3> QED BY <1>4, <3>1, <3>3, <3>4
  <2> HIDE DEF S
  <2>3. S = Nat
    BY <2>1, <2>2, Induction
  <2> QED BY <1>1, <2>3 DEF S
<1>9. I(N) = {i \in Named(struct) : struct[i].name \in ToSet(fills)}
  BY <1>1 DEF I, ToSet
<1> QED BY <1>2, <1>8, <1>9

(* What the emulation reads from the program's layout is the field it names. *)
LEMMA ReadFound ==
    ASSUME NEW struct, IsStruct(struct),
           NEW reads \in SUBSET {struct[i].name : i \in Named(struct)},
           NEW q \in DOMAIN ReadFrom(struct, reads)
    PROVE  ReadFrom(struct, reads)[q] = q
<1> DEFINE values == Own(struct)
           widths == OnHost(struct)
           lanes == {p \in (DOMAIN struct) \X (0 .. 7) :
                        struct[p[1]].name \in reads /\ p[2] < widths[p[1]]}
           asked == {<<struct[p[1]].name, p[2]>> : p \in lanes}
           a == Place(widths, FieldOf(struct, q[1]), q[2])
           mem == Laid(struct, values)
<1>1. ReadFrom(struct, reads) =
          [r \in asked |-> LET b == Place(widths, FieldOf(struct, r[1]), r[2])
                           IN  IF b \in DOMAIN mem THEN mem[b] ELSE Extension]
  BY DEF ReadFrom
<1>2. q \in asked
  <2> HIDE DEF asked, mem
  <2> QED BY <1>1
<1>3. ReadFrom(struct, reads)[q] = IF a \in DOMAIN mem THEN mem[a] ELSE Extension
  <2> HIDE DEF asked, mem
  <2> QED BY <1>1, <1>2
<1>4. PICK p \in lanes : q = <<struct[p[1]].name, p[2]>>
  BY <1>2
<1> DEFINE i == p[1]
           k == p[2]
<1>5. i \in DOMAIN struct /\ struct[i].name \in reads /\ k \in 0 .. 7 /\ k < widths[i]
  OBVIOUS
<1>6. i \in Named(struct)
  <2>1. PICK j \in Named(struct) : struct[i].name = struct[j].name
    BY <1>5
  <2> QED BY <1>5, <2>1 DEF Named
<1>7. FieldOf(struct, q[1]) = i /\ q[2] = k
  BY <1>4, <1>6, FieldFound
<1>8. k \in 0 .. OnHost(struct)[i] - 1
  <2>1. /\ widths \in Seq(1 .. 8) /\ Len(widths) = Len(struct) /\ DOMAIN struct = 1 .. Len(struct)
    BY SameWidths
  <2> DEFINE w == widths[i]
  <2>2. w \in 1 .. 8
    <3> HIDE DEF widths, i
    <3> QED BY <1>5, <2>1
  <2>3. k < w /\ k \in 0 .. 7
    BY <1>5
  <2> HIDE DEF w, k
  <2>4. k \in 0 .. w - 1
    BY <2>2, <2>3
  <2> QED BY <2>4 DEF w
<1>9. values[struct[i].name][k] = <<struct[i].name, k>>
  BY <1>5 DEF Own
<1> HIDE DEF i, k, values
<1>10. Named(struct) \in SUBSET DOMAIN struct
  BY DEF Named
<1>11. /\ Place(OnHost(struct), i, k) \in PlacesOf(struct, Named(struct))
       /\ Holding(struct, values, Named(struct))[Place(OnHost(struct), i, k)]
             = values[struct[i].name][k]
  BY <1>6, <1>8, <1>10, HoldingAt
<1>12. a \in DOMAIN mem /\ mem[a] = values[struct[i].name][k]
  BY <1>7, <1>11, LaidHolds, HoldingIsMemory
<1>13. q = values[struct[i].name][k]
  BY <1>4, <1>9 DEF i, k
<1> HIDE DEF a, mem
<1> QED BY <1>3, <1>12, <1>13

(* The program reads the value that the host gave if its field has room for  *)
(* what the value needs, and another one otherwise.                          *)
LEMMA ReceivedWhole ==
    ASSUME NEW struct, IsStruct(struct), NEW need \in 1 .. 8, NEW i \in Named(struct)
    PROVE  Received(struct, Laid(struct, HostValues(struct, need)), i)
               = HostValues(struct, need)[struct[i].name]
           <=> Fits(struct, i, need)
<1> DEFINE values == HostValues(struct, need)
           name == struct[i].name
           widths == OnGuest(struct)
           mem == Laid(struct, values)
           w == widths[i]
           b == KernelBytes(name)
           received == Received(struct, mem, i)
<1>1. /\ OnHost(struct) = widths /\ widths \in Seq(1 .. 8) /\ DOMAIN widths = 1 .. Len(struct)
      /\ Len(widths) = Len(struct) /\ DOMAIN struct = 1 .. Len(struct)
  BY SameWidths
<1>2. i \in DOMAIN struct /\ name # "" /\ Named(struct) \in SUBSET DOMAIN struct
  BY DEF Named
<1>3. w \in 1 .. 8
  <2>1. i \in 1 .. Len(widths)
    BY <1>1, <1>2
  <2> HIDE DEF widths
  <2> QED BY <1>1, <2>1
<1>4. b \in Nat
  BY DEF KernelBytes
<1>5. /\ values[name] = [k \in 0 .. 7 |-> IF k < need /\ k < b THEN <<name, k>> ELSE Extension]
  BY <1>2 DEF HostValues
<1>6. Fits(struct, i, need) <=> need <= w \/ b <= w
  BY DEF Fits
<1> HIDE DEF values, b
<1>7. ASSUME NEW k \in 0 .. w - 1
      PROVE  mem[Place(widths, i, k)] = values[name][k]
  <2>1. mem = Holding(struct, values, Named(struct))
    BY LaidHolds
  <2>2. k \in 0 .. OnHost(struct)[i] - 1
    <3>1. OnHost(struct)[i] = w
      BY <1>1
    <3> HIDE DEF w
    <3> QED BY <1>7, <3>1
  <2>3. Holding(struct, values, Named(struct))[Place(OnHost(struct), i, k)]
            = values[struct[i].name][k]
    <3>1. Named(struct) \in SUBSET DOMAIN struct
      BY <1>2
    <3> HIDE DEF name, widths, mem, w, received
    <3> QED BY <2>2, <3>1, HoldingAt
  <2> QED BY <1>1, <2>1, <2>3
<1>8. received = [k \in 0 .. 7 |-> IF k < w THEN mem[Place(widths, i, k)] ELSE Extension]
  BY DEF Received
<1> HIDE DEF mem, w, received, name
<1>9. received = [k \in 0 .. 7 |-> IF k < w THEN values[name][k] ELSE Extension]
  <2>1. ASSUME NEW k \in 0 .. 7, k < w
        PROVE  mem[Place(widths, i, k)] = values[name][k]
    <3>1. k \in 0 .. w - 1
      BY <1>3, <2>1
    <3> QED BY <1>7, <3>1
  <2> QED BY <1>8, <2>1
<1>10. CASE need <= w \/ b <= w
  <2>1. \A k \in 0 .. 7 : ~(k < w) => ~(k < need /\ k < b)
    BY <1>3, <1>4, <1>10
  <2>2. received = values[name]
    BY <1>5, <1>9, <2>1
  <2> QED BY <1>6, <1>10, <2>2 DEF received, mem, values, name
<1>11. CASE ~(need <= w \/ b <= w)
  <2>1. w \in 0 .. 7 /\ w < need /\ w < b /\ ~(w < w)
    BY <1>3, <1>4, <1>11
  <2>2. received[w] = Extension /\ values[name][w] = <<name, w>>
    BY <1>5, <1>9, <2>1
  <2>3. <<name, w>> # Extension
    BY <1>2 DEF Extension
  <2>4. received # values[name]
    BY <2>2, <2>3
  <2> QED BY <1>6, <1>11, <2>4 DEF received, mem, values, name
<1> QED BY <1>10, <1>11

LEMMA StructsGood ==
    ASSUME NEW s \in Structs
    PROVE  /\ IsStruct(s.fields)
           /\ s.fills \in Seq({s.fields[i].name : i \in Named(s.fields)})
           /\ s.reads \in SUBSET {s.fields[i].name : i \in Named(s.fields)}
           /\ s.fills # <<>> =>
                 {i \in Named(s.fields) : s.fields[i].name \in ToSet(s.fills)} = Named(s.fields)
<1> DEFINE F == {s.fields[i].name : i \in DOMAIN s.fields} \ {""}
           G == {s.fields[i].name : i \in Named(s.fields)}
<1>1. IsStruct(s.fields)
  BY StructsAssumption DEF IsStruct
<1>2. F = G
  BY DEF Named
<1>3. /\ s.fills \in Seq(STRING) /\ ToSet(s.fills) \cup s.reads \subseteq F
      /\ s.fills # <<>> => \A i \in DOMAIN s.fields : s.fields[i].name \in ToSet(s.fills) \cup {""}
  BY StructsAssumption
<1>4. s.fills \in Seq(G)
  <2> DEFINE fills == s.fills
  <2>1. fills \in Seq(STRING) /\ ToSet(fills) \subseteq G
    BY <1>2, <1>3
  <2> HIDE DEF fills, G
  <2>2. Len(fills) \in Nat /\ DOMAIN fills = 1 .. Len(fills)
        /\ \A k \in 1 .. Len(fills) : fills[k] \in G
    BY <2>1 DEF ToSet
  <2>3. fills \in Seq(G)
    BY <2>1, <2>2
  <2> QED BY <2>3 DEF fills
<1>5. s.reads \in SUBSET G
  BY <1>2, <1>3
<1>6. s.fills # <<>> => {i \in Named(s.fields) : s.fields[i].name \in ToSet(s.fills)} = Named(s.fields)
  BY <1>3 DEF Named
<1> QED BY <1>1, <1>4, <1>5, <1>6

(* Every field arrives in its place, and whole exactly if it has room for    *)
(* its value (FieldsArrive; the conversions of syscall.c): the host places   *)
(* its fields where the program's compiler does, the assignments of a call,  *)
(* in whatever order, leave every byte of a named field and nothing over     *)
(* another, and what is read are the fields asked for.  All that is used of  *)
(* the structures is what StructsAssumption says of their tables.            *)
THEOREM FieldsRight == PassSpec => []FieldsArrive
<1>1. PassInit => FieldsArrive
  BY DEF PassInit, Nothing, FieldsArrive
<1>2. FieldsArrive /\ [Pass]_passed => FieldsArrive'
  <2> SUFFICES ASSUME FieldsArrive, [Pass]_passed PROVE FieldsArrive'
    OBVIOUS
  <2>1. CASE FillStruct
    <3>1. PICK s \in Structs, need \in 1 .. 8 :
              /\ s.fills # <<>>
              /\ passed' = [by |-> "fill", fields |-> s.fields, need |-> need,
                            mem |-> Filled(s.fields, s.fills, HostValues(s.fields, need))]
      BY <2>1 DEF FillStruct
    <3> DEFINE fields == s.fields
               values == HostValues(fields, need)
               mem == Filled(fields, s.fills, values)
    <3>2. OnHost(fields) = OnGuest(fields)
      BY StructsGood, SameWidths
    <3>3. mem = Laid(fields, values)
      <4> HIDE DEF values
      <4>1. /\ IsStruct(fields) /\ s.fills \in Seq({fields[i].name : i \in Named(fields)})
            /\ {i \in Named(fields) : fields[i].name \in ToSet(s.fills)} = Named(fields)
        BY <3>1, StructsGood
      <4> HIDE DEF fields
      <4>2. mem = Holding(fields, values,
                          {i \in Named(fields) : fields[i].name \in ToSet(s.fills)})
        BY <4>1, FilledHolds
      <4>3. Laid(fields, values) = Holding(fields, values, Named(fields))
        BY <4>1, LaidHolds
      <4> QED BY <4>1, <4>2, <4>3
    <3>4. ASSUME NEW i \in DOMAIN fields, fields[i].name # ""
          PROVE  Received(fields, mem, i) = values[fields[i].name] <=> Fits(fields, i, need)
      <4>1. i \in Named(fields) /\ IsStruct(fields)
        BY <3>4, StructsGood DEF Named
      <4> HIDE DEF mem, fields
      <4> QED BY <3>3, <4>1, ReceivedWhole
    <3>5. /\ passed'.by = "fill" /\ passed'.fields = fields /\ passed'.need = need
          /\ passed'.mem = mem
      BY <3>1
    <3> HIDE DEF mem, fields, values
    <3> DEFINE now(p) ==
                   /\ SizeOf(OnHost(p.fields)) = SizeOf(OnGuest(p.fields))
                   /\ p.mem = Laid(p.fields, HostValues(p.fields, p.need))
                   /\ \A i \in DOMAIN p.fields :
                         p.fields[i].name # "" =>
                             (Received(p.fields, p.mem, i)
                                 = HostValues(p.fields, p.need)[p.fields[i].name]
                                 <=> Fits(p.fields, i, p.need))
    <3>6. now(passed')
      BY <3>2, <3>3, <3>4, <3>5 DEF values
    <3>7. passed'.by = "fill"
      BY <3>5
    <3> QED BY <3>6, <3>7 DEF FieldsArrive
  <2>2. CASE ReadStruct
    <3>1. PICK s \in Structs :
              passed' = [by |-> "read", fields |-> s.fields, got |-> ReadFrom(s.fields, s.reads)]
      BY <2>2 DEF ReadStruct
    <3>2. OnHost(s.fields) = OnGuest(s.fields)
      BY StructsGood, SameWidths
    <3>3. \A q \in DOMAIN ReadFrom(s.fields, s.reads) : ReadFrom(s.fields, s.reads)[q] = q
      BY StructsGood, ReadFound
    <3>4. passed'.by = "read" /\ passed'.fields = s.fields /\ passed'.got = ReadFrom(s.fields, s.reads)
      BY <3>1
    <3> QED BY <3>2, <3>3, <3>4 DEF FieldsArrive
  <2>3. CASE CoreStores \/ CallStores \/ CoreLoads \/ CallLoads \/ CallSwaps
    <3>1. passed'.by \in {"store", "load"}
      BY <2>3 DEF CoreStores, CallStores, Store, CoreLoads, CallLoads, CallSwaps, Load
    <3> QED BY <3>1 DEF FieldsArrive
  <2>4. CASE passed'.by \notin {"store", "load", "fill", "read"}
    BY <2>4 DEF FieldsArrive
  <2>5. CASE UNCHANGED passed
    BY <2>5 DEF FieldsArrive
  <2>6. Pass => \/ passed'.by \notin {"store", "load", "fill", "read"}
                \/ FillStruct \/ ReadStruct
                \/ CoreStores \/ CallStores \/ CoreLoads \/ CallLoads \/ CallSwaps
    BY WhoPassed
  <2> QED BY <2>1, <2>2, <2>3, <2>4, <2>5, <2>6
<1> QED BY <1>1, <1>2, PTL DEF PassSpec
=============================================================================
