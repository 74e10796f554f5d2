---------------------------- MODULE Conversions -----------------------------
(***************************************************************************)
(* What sparc-linux/syscall.c changes of a call's arguments and results on  *)
(* the way between guest and host, where the two differ in more than the    *)
(* order of bytes: resource limits, identities, sets of file descriptors,   *)
(* vectors of buffers, and the program's arguments on its first stack.      *)
(***************************************************************************)
EXTENDS Integers, SequencesExt

CONSTANTS
    AbiBits,    \* bits of an abi_long: 32
    HostBits,   \* bits of a host long: 64
    IOV_MAX,    \* 1024
    MaxVector,  \* bytes one readv or writev may move: 2^31 - PageSize
    MaxFds,     \* sets of descriptors 0 .. MaxFds - 1 are tried: up to 1024
    Lengths,    \* lengths of buffers and strings that are tried
    Slot,       \* strings on the stack start at multiples of this: 16
    StackTop    \* where the strings end: guest_max_mem

(* Powers of two. *)
Pow2[n \in Nat] == IF n = 0 THEN 1 ELSE 2 * Pow2[n - 1]

ASSUME WidthAssumption ==
    /\ AbiBits \in Nat \ {0} /\ HostBits \in Nat /\ HostBits > AbiBits
    /\ MaxVector \in 0 .. Pow2[AbiBits - 1] - 1
    /\ Slot \in Nat \ {0}

ASSUME SizeAssumption ==
    /\ IOV_MAX \in Nat /\ MaxFds \in Nat /\ StackTop \in Nat
    /\ Lengths \subseteq Int

abi_ulong == 0 .. Pow2[AbiBits] - 1
rlim_t == 0 .. Pow2[HostBits] - 1

TARGET_RLIM_INFINITY == Pow2[AbiBits - 1] - 1
RLIM_INFINITY == Pow2[HostBits] - 1

-----------------------------------------------------------------------------
(* Resource limits. *)
target_to_host_rlim(v) == IF v = TARGET_RLIM_INFINITY THEN RLIM_INFINITY ELSE v

(* (abi_long)rlim, compared as a host value. *)
SignExtended(r) ==
    LET low == r % Pow2[AbiBits]
    IN  IF low < Pow2[AbiBits - 1] THEN low ELSE low + Pow2[HostBits] - Pow2[AbiBits]

(* Faulty variant: the upper bits are cut off. *)
host_to_target_rlim_cut(r) ==
    IF r = RLIM_INFINITY THEN TARGET_RLIM_INFINITY ELSE r % Pow2[AbiBits]

host_to_target_rlim(r) ==
    IF r = RLIM_INFINITY \/ r # SignExtended(r) THEN TARGET_RLIM_INFINITY
    ELSE r % Pow2[AbiBits]

(* NOFILE and NPROC have each other's numbers on SPARC. *)
TargetCodes == [NPROC |-> 7, NOFILE |-> 6]
HostCodes   == [NPROC |-> 6, NOFILE |-> 7]
ResourceCodes == 0 .. 15

target_to_host_resource(code) ==
    IF \E r \in DOMAIN TargetCodes : TargetCodes[r] = code
    THEN HostCodes[CHOOSE r \in DOMAIN TargetCodes : TargetCodes[r] = code]
    ELSE code

-----------------------------------------------------------------------------
(* Identities: the old calls know ids of half a word.                        *)
MaxId == Pow2[AbiBits \div 2] - 1
Nobody == MaxId - 1
NoChange == -1

high2lowuid(id) == IF id > MaxId THEN Nobody ELSE id

(* Faulty variant: the sign of a half word is forgotten. *)
low2highuid_wide(id) == id

(* -1 in a half word means that the id is to stay.                           *)
low2highuid(id) == IF id % (MaxId + 1) = MaxId THEN NoChange ELSE id

(* Not every call that tells an id converts it.  stat puts st_uid as it is   *)
(* into a half word, which keeps its lower half; stat64 has room for it.     *)
Tellers == {"getuid", "stat", "stat64"}

IdTold(from, id) ==
    CASE from = "getuid" -> high2lowuid(id)
      [] from = "stat"   -> id % (MaxId + 1)
      [] from = "stat64" -> id

-----------------------------------------------------------------------------
(* Sets of descriptors: an array of abi_ulong words for the guest, each a    *)
(* set of bits.  The host's fd_set has room for 1024 (FD_SETSIZE), which     *)
(* do_select never compares with n: what a larger n does is not modelled.    *)
WordsFor(n) == (n + AbiBits - 1) \div AbiBits

(* Faulty variant: a last word that is not full is forgotten. *)
copy_from_user_fdset_full(n, words) ==
    {k \in 0 .. (n \div AbiBits) * AbiBits - 1 : k % AbiBits \in words[k \div AbiBits]}

copy_from_user_fdset(n, words) ==
    {k \in 0 .. WordsFor(n) * AbiBits - 1 : k % AbiBits \in words[k \div AbiBits]}

copy_to_user_fdset(n, fds) ==
    [i \in 0 .. WordsFor(n) - 1 |-> {j \in 0 .. AbiBits - 1 : i * AbiBits + j \in fds}]

(* The words of a set, as a program lays it out. *)
WordsOf(n, fds) ==
    [i \in 0 .. WordsFor(n) - 1 |->
        {j \in 0 .. AbiBits - 1 : \E k \in fds : k \div AbiBits = i /\ k % AbiBits = j}]

(* do_select: the host clears what is not ready and looks at nothing above n;*)
(* the words go back.                                                        *)
do_select(n, words, ready) ==
    LET fds == copy_from_user_fdset(n, words)
    IN  copy_to_user_fdset(n, fds \cap ready)

-----------------------------------------------------------------------------
(* lock_iovec: the lengths the host is given, cut where the sum of those     *)
(* before and this one would exceed MaxVector.                               *)
Cut(len, total) == IF len > MaxVector - total THEN MaxVector - total ELSE len

(* Faulty variant: each buffer is cut by itself. *)
lock_iovec_alone(lens) == [i \in 1 .. Len(lens) |-> Cut(lens[i], 0)]

lock_iovec(lens) ==
    LET total[i \in 0 .. Len(lens)] ==
            IF i = 0 THEN 0 ELSE total[i - 1] + Cut(lens[i], total[i - 1])
    IN  [i \in 1 .. Len(lens) |-> Cut(lens[i], total[i - 1])]

(* With EINVAL; a count of 0 is refused with errno 0. *)
VectorRefused(count, lens) == count \notin 1 .. IOV_MAX \/ \E i \in DOMAIN lens : lens[i] < 0

SumOf(lens) ==
    LET sum[i \in 0 .. Len(lens)] == IF i = 0 THEN 0 ELSE sum[i - 1] + lens[i]
    IN  sum[Len(lens)]

-----------------------------------------------------------------------------
(* init_stack: a sequence of strings, given by their lengths with the NUL.   *)
(* The host keeps them one behind the other (external: the kernel's layout); *)
(* they are copied from the last to the first, each with one byte more than  *)
(* it has, to slots that end at the top of memory.                           *)
HostAt(args) ==
    LET at[i \in 1 .. Len(args) + 1] == IF i = 1 THEN 0 ELSE at[i - 1] + args[i - 1]
    IN  at

(* Faulty variant: the slot is rounded down. *)
SlotFor_down(len) == (len \div Slot) * Slot

SlotFor(len) == ((len + Slot - 1) \div Slot) * Slot

GuestPtr(args) ==
    LET ptr[i \in 1 .. Len(args) + 1] ==
            IF i = Len(args) + 1 THEN StackTop ELSE ptr[i + 1] - SlotFor(args[i])
    IN  ptr

(* Which byte of the host's strings is at a guest address: the first string  *)
(* that covers it was copied last.                                           *)
CopiedTo(args, a) ==
    LET ptr == GuestPtr(args)
        i == Min({j \in DOMAIN args : a \in ptr[j] .. ptr[j] + args[j]})
    IN  HostAt(args)[i] + a - ptr[i]

(* Behind the first window's save area: argc, the pointers, and a zero.      *)
InitialFrame(args) ==
    <<Len(args)>> \o [i \in 1 .. Len(args) |-> GuestPtr(args)[i]] \o <<0>>

(* What main.cpp:39-57 and the program's start make of it. *)
FoundArgument(args, j) == InitialFrame(args)[j + 1]

=============================================================================
