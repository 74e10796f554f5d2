----------------------------- MODULE Marshalling -----------------------------
(***************************************************************************)
(* What passes between the program and the host: each action converts what  *)
(* one call, one store or one load is given, with the operators that        *)
(* Conversions, ByteLanes and GuestStructs translate from the source, and    *)
(* keeps both sides of it in passed.  Round trips take two steps.            *)
(***************************************************************************)
EXTENDS Conversions, ByteLanes, GuestStructs

VARIABLE passed

Nothing == [by |-> "none"]

-----------------------------------------------------------------------------
(* setrlimit and getrlimit; anybody may set the limit in between. *)
SetLimit ==
    \E v \in abi_ulong :
        passed' = [by |-> "setrlimit", guest |-> v, host |-> target_to_host_rlim(v)]

GetLimit ==
    \E r \in IF passed.by = "setrlimit" THEN {passed.host} ELSE rlim_t :
        passed' = [by |-> "getrlimit", host |-> r, guest |-> host_to_target_rlim(r),
                   set |-> IF passed.by = "setrlimit" THEN passed.guest ELSE -1]

NameResources ==
    \E c, d \in ResourceCodes :
        passed' = [by |-> "resource", guest |-> {c, d},
                   host |-> {target_to_host_resource(c), target_to_host_resource(d)}]

(* getuid, stat, stat64: ids are those of a C int. *)
TellId ==
    \E from \in Tellers, id \in 0 .. TARGET_RLIM_INFINITY :
        passed' = [by |-> "getuid", from |-> from, host |-> id, guest |-> IdTold(from, id)]

(* setreuid, chown, with an id the program was told. *)
GiveId ==
    /\ passed.by = "getuid"
    /\ passed' = [by |-> "setreuid", from |-> passed.from, told |-> passed.host,
                  host |-> low2highuid(passed.guest)]

Select ==
    \E n \in 0 .. MaxFds : \E asked, ready \in SUBSET (0 .. n - 1) :
        passed' = [by |-> "select", n |-> n, asked |-> asked, ready |-> ready,
                   words |-> do_select(n, WordsOf(n, asked), ready)]

LockVector ==
    \E lens \in SeqOf(Lengths, IOV_MAX + 1) :
        /\ ~VectorRefused(Len(lens), lens)
        /\ passed' = [by |-> "iovec", guest |-> lens, host |-> lock_iovec(lens)]

(* init_stack, and the program's start; bytes are told by their place on the *)
(* host.                                                                     *)
LayStack ==
    \E args \in SeqOf({l \in Lengths : l > 0}, IOV_MAX) :
        passed' = [by |-> "argv", host |-> args,
                   found |-> [i \in DOMAIN args |-> [k \in 0 .. args[i] - 1 |->
                                 CopiedTo(args, FoundArgument(args, i) + k)]]]

(* A datum in a doubleword of memory. *)
Data == {d \in Sizes \X Lane : d[2] \in Offsets(d[1])}

Store(size, o, v, before, mem) ==
    passed' = [by |-> "store", size |-> size, at |-> o, value |-> v,
               before |-> before, mem |-> mem]

CoreStores ==
    \E before, v \in Contents, d \in Data :
        Store(d[1], d[2], v, before, CoreStore(before, d[1], d[2], InRegisters(v, d[1])))

CallStores ==
    \E before, v \in Contents, d \in Data :
        Store(d[1], d[2], v, before, StoreTarget(before, d[1], d[2], v))

(* Afterwards either side loads, this datum, a part of it, or more.          *)
Load(size, o, signed, value) ==
    passed' = [by |-> "load", size |-> size, at |-> o, signed |-> signed,
               mem |-> passed.mem, value |-> value]

(* Only bytes and halfwords have loads that extend the sign. *)
CoreLoads ==
    /\ passed.by = "store"
    /\ \E d \in Data, signed \in BOOLEAN :
          /\ d[1] \in {1, 2} \/ ~signed
          /\ Load(d[1], d[2], signed,
                  InRegisters(CoreLoad(passed.mem, d[1], d[2], signed), d[1]))

CallLoads ==
    /\ passed.by = "store"
    /\ \E d \in Data, signed \in BOOLEAN :
          Load(d[1], d[2], signed, get_user(passed.mem, d[1], d[2], signed))

(* A field that is read as the host's and then swapped.                      *)
CallSwaps ==
    /\ passed.by = "store"
    /\ \E d \in Data :
          Load(d[1], d[2], FALSE, tswap(LoadHost(passed.mem, d[1], d[2]), d[1]))

FillStruct ==
    \E s \in Structs, need \in 1 .. 8 :
        /\ s.fills # <<>>
        /\ passed' = [by |-> "fill", fields |-> s.fields, need |-> need,
                      mem |-> Filled(s.fields, s.fills, HostValues(s.fields, need))]

ReadStruct ==
    \E s \in Structs :
        /\ s.reads # {}
        /\ passed' = [by |-> "read", fields |-> s.fields, got |-> ReadFrom(s.fields, s.reads)]

PassInit == passed = Nothing

Pass ==
    \/ passed.by \in {"none", "setrlimit"} /\ GetLimit
    \/ /\ passed = Nothing
       /\ \/ SetLimit \/ NameResources \/ TellId \/ Select \/ LockVector \/ LayStack
          \/ CoreStores \/ CallStores \/ FillStruct \/ ReadStruct
    \/ GiveId \/ CoreLoads \/ CallLoads \/ CallSwaps

PassSpec == PassInit /\ [][Pass]_passed

-----------------------------------------------------------------------------
(* The program is never shown a limit below the host's, a limit it has set   *)
(* reads back as it was set, and no two of its resources are the same one    *)
(* (getrlimit after setrlimit, syscall.c:1474-1502).  From                   *)
(* TARGET_RLIM_INFINITY on all values say that there is no limit.            *)
LimitKept ==
    /\ passed.by = "getrlimit" =>
          /\ \/ passed.guest = passed.host
             \/ passed.guest >= TARGET_RLIM_INFINITY /\ passed.host >= TARGET_RLIM_INFINITY
          /\ passed.set \in 0 .. TARGET_RLIM_INFINITY => passed.guest = passed.set
    /\ passed.by = "resource" =>
          /\ Cardinality(passed.host) = Cardinality(passed.guest)
          /\ \A r \in DOMAIN TargetCodes :
                passed.guest = {TargetCodes[r]} => passed.host = {HostCodes[r]}

(* A program that gives back an id it was told (setreuid after getuid, chown *)
(* after stat or stat64) names the same user, or nobody if getuid had no     *)
(* half-word form of it, or leaves the id alone if its lower half is all     *)
(* ones (syscall.c:273-299).  An id above a half word that stat has told is  *)
(* left out: the program got its lower half, another user's id               *)
(* (syscall.c:2019-2020).                                                    *)
IdsKept ==
    passed.by = "setreuid" /\ (passed.from = "stat" => passed.told <= MaxId) =>
        passed.host = IF passed.from = "getuid" /\ passed.told > MaxId THEN Nobody
                      ELSE IF passed.told % (MaxId + 1) = MaxId THEN NoChange
                      ELSE passed.told

(* What the program reads after select are the descriptors below n that it   *)
(* asked for and that are ready, at their places (do_select).                *)
SelectAnswers ==
    passed.by = "select" =>
        passed.words = WordsOf(passed.n, passed.asked \cap passed.ready)

(* The host moves a prefix of what the program asked for: as much as it may, *)
(* and nothing of a buffer behind one that was cut (lock_iovec and the       *)
(* comment at syscall.c:736).                                                *)
VectorIsPrefix ==
    passed.by = "iovec" =>
        /\ SumOf(passed.host) = Min({SumOf(passed.guest), MaxVector})
        /\ \A i \in DOMAIN passed.guest :
              /\ passed.host[i] \in 0 .. passed.guest[i]
              /\ passed.host[i] < passed.guest[i] =>
                    \A j \in i + 1 .. Len(passed.host) : passed.host[j] = 0

(* Every string of the command line arrives whole: the byte too many that is *)
(* copied behind a string that fills its slot falls on the first byte of the *)
(* next one, and is that byte (init_stack).                                  *)
ArgumentsIntact ==
    passed.by = "argv" =>
        \A i \in DOMAIN passed.host : \A k \in 0 .. passed.host[i] - 1 :
            passed.found[i][k] = HostAt(passed.host)[i] + k

(* A store puts the bytes of the datum in memory, the most significant at    *)
(* the lowest address, and no others: the program's through the cache and    *)
(* the emulation's alike (DCacheDirectMap.sv:110-165, bswap.h, __put_user).  *)
StoresAgree ==
    passed.by = "store" =>
        /\ BigEndianAt(passed.mem, passed.size, passed.at) = Extended(passed.value, passed.size, FALSE)
        /\ \A a \in Lane \ (passed.at .. passed.at + passed.size - 1) :
              passed.mem[a] = passed.before[a]

(* A load finds what is in memory in that order, extended as its type says,  *)
(* whoever stored it and whoever loads: the program through the cache and    *)
(* write-back, the emulation with its accessors                              *)
(* (DCacheDirectMap.sv:97-114, WB.sv:42-54, bswap.h, __get_user).             *)
LoadsAgree ==
    passed.by = "load" =>
        passed.value =
            Extended(BigEndianAt(passed.mem, passed.size, passed.at), passed.size, passed.signed)

(* The program finds every field that the host told where its own compiler   *)
(* looks for it, with the value the host gave if the field has room for it   *)
(* and never otherwise: a wider inode, size or id is cut by the cast of      *)
(* __put_user.  No byte behind the structure is cleared, and the emulation   *)
(* finds every field that the program laid out (__put_user, __get_user,      *)
(* memset, syscall.c:2008-2034, 671-704, 335-376, 516-542).                  *)
FieldsArrive ==
    /\ passed.by \in {"fill", "read"} =>
          SizeOf(OnHost(passed.fields)) = SizeOf(OnGuest(passed.fields))
    /\ passed.by = "fill" =>
          LET fields == passed.fields
              values == HostValues(fields, passed.need)
          IN  /\ passed.mem = Laid(fields, values)
              /\ \A i \in DOMAIN fields :
                    fields[i].name # "" =>
                        (Received(fields, passed.mem, i) = values[fields[i].name]
                            <=> Fits(fields, i, passed.need))
    /\ passed.by = "read" => \A p \in DOMAIN passed.got : passed.got[p] = p
=============================================================================
