---------------------------- MODULE SyscallsProofs ----------------------------
(***************************************************************************)
(* Proofs about Syscalls for every guest memory, page size and word, every  *)
(* set of calls and requests that meets the assumptions, and every answer   *)
(* of the host: types, what the program is told of failures, when its       *)
(* memory is written, and that memory is handed out as Areas promises.      *)
(***************************************************************************)
EXTENDS Syscalls, Induction

(******************************* Arithmetic ********************************)

(* The remainder, which is all that the code's masks and casts need.         *)
LEMMA ModBounds ==
    ASSUME NEW a \in Nat, NEW b \in Nat \ {0}
    PROVE  a % b \in 0 .. b - 1 /\ a % b <= a
OBVIOUS

(* A sum below the end of the word keeps its value.                          *)
LEMMA NoWrap ==
    ASSUME NEW a \in Nat, NEW b \in Nat \ {0}, a < b
    PROVE  a % b = a
OBVIOUS

(* Rounding up to a page loses nothing and adds less than a page.            *)
LEMMA PageAlignBounds ==
    ASSUME NEW n \in Requests
    PROVE  /\ PageAlign(n) \in Nat
           /\ n <= PageAlign(n)
           /\ PageAlign(n) < n + PageSize
<1> DEFINE sum == n + PageSize - 1
<1>1. n \in Nat /\ PageSize \in Nat \ {0} /\ sum \in Nat /\ WordSize \in Nat \ {0} /\ sum < WordSize
  BY SpaceAssumption, RequestAssumption
<1>2. sum % WordSize = sum
  BY <1>1, NoWrap
<1>3. sum % PageSize \in 0 .. PageSize - 1 /\ sum % PageSize <= sum
  BY <1>1, ModBounds
<1>4. PageAlign(n) = sum - (sum % PageSize)
  BY <1>2 DEF PageAlign
<1> HIDE DEF sum
<1> QED BY <1>1, <1>3, <1>4 DEF sum

(************************** What the program is told ************************)

(* The table of errno values is the identity, whatever is asked of it.       *)
LEMMA ErrnoSame == ASSUME NEW e PROVE host_to_target_errno(e) = e
BY DEF host_to_target_errno, host_to_target_errno_table

(* What a host function that returns these values may have done.             *)
LEMMA HostOutcome ==
    ASSUME NEW values \in SUBSET Int, errno \in 0 .. MaxErrno, NEW o \in Outcomes(values)
    PROVE  /\ o.value \in Int /\ o.failed \in 0 .. MaxErrno /\ o.errno \in 0 .. MaxErrno
           /\ o.failed = 0 => o.value \in values /\ o.errno = errno
           /\ o.failed # 0 => o.value = -1 /\ o.errno = o.failed
<1>1. CASE o \in [value : values, errno : {errno}, failed : {0}]
  <2>1. o.value \in values /\ o.errno = errno /\ o.failed = 0
    BY <1>1
  <2>2. o.value \in Int
    BY <2>1
  <2>3. 0 \in 0 .. MaxErrno
    BY CallAssumption
  <2> QED BY <2>1, <2>2, <2>3
<1>2. CASE o \in {[value |-> -1, errno |-> e, failed |-> e] : e \in HostErrors}
  <2>1. PICK e \in HostErrors : o = [value |-> -1, errno |-> e, failed |-> e]
    BY <1>2
  <2>2. o.value = -1 /\ o.errno = e /\ o.failed = e
    BY <2>1
  <2>3. e \in 1 .. MaxErrno
    BY CallAssumption
  <2> QED BY <2>2, <2>3, CallAssumption
<1> QED BY <1>1, <1>2 DEF Outcomes

(* get_errno makes of it a result that tells failure from success.           *)
LEMMA SmallOutcome ==
    ASSUME errno \in 0 .. MaxErrno, NEW o \in Outcomes(Small),
           NEW ret, ret = get_errno(o.value, o.errno)
    PROVE  /\ ret \in Int
           /\ o.failed \in 0 .. MaxErrno /\ o.errno \in 0 .. MaxErrno
           /\ is_error(ret) <=> o.failed # 0
           /\ o.failed # 0 => ret = -o.failed
<1>1. Small \in SUBSET Int /\ \A v \in Small : v >= 0
  BY DEF Small
<1>2. /\ o.value \in Int /\ o.failed \in 0 .. MaxErrno /\ o.errno \in 0 .. MaxErrno
      /\ o.failed = 0 => o.value \in Small
      /\ o.failed # 0 => o.value = -1 /\ o.errno = o.failed
  BY <1>1, HostOutcome
<1>3. ret = IF o.value = -1 THEN -o.errno ELSE o.value
  BY ErrnoSame DEF get_errno
<1>4. CASE o.failed = 0
  BY <1>1, <1>2, <1>3, <1>4, CallAssumption DEF is_error
<1>5. CASE o.failed # 0
  <2>1. o.failed \in 1 .. MaxErrno /\ ret = -o.failed
    BY <1>2, <1>3, <1>5, CallAssumption
  <2> QED BY <2>1, <1>2, <1>5, CallAssumption DEF is_error
<1> QED BY <1>4, <1>5

(* Calls that fill a structure, and the invariant of this section. *)
Filling == CallsOf("fill") \cup CallsOf("fillOpt")

Told == TypeOK /\ FailureTold /\ FilledIffDone

(* What an answer has to be like for the invariant.                          *)
LEMMA AnswerTold ==
    ASSUME TypeOK, NEW c \in Used, NEW ret \in Int, NEW o, NEW wrote \in BOOLEAN,
           NEW given \in BOOLEAN, Answer(c, ret, o, wrote, given),
           o.failed \in 0 .. MaxErrno, o.errno \in 0 .. MaxErrno,
           c \notin Ambiguous => /\ is_error(ret) <=> o.failed # 0
                                 /\ o.failed # 0 => ret = -o.failed,
           o.failed # 0 => ~wrote,
           c \in Filling /\ o.failed = 0 => (wrote <=> given)
    PROVE  Told'
<1>1. /\ call' = [name |-> c, ret |-> ret, failed |-> o.failed, wrote |-> wrote,
                  given |-> given, size |-> 0]
      /\ errno' = o.errno
      /\ UNCHANGED <<space, target_exit_called>>
  BY DEF Answer, NoCall
<1>2. 0 \in 0 .. WordSize - 1
  BY SpaceAssumption, CallAssumption
<1>3. call' \in Call
  BY <1>1, <1>2 DEF Call
<1>4. TypeOK'
  BY <1>1, <1>3 DEF TypeOK, SpaceTypeOK, space
<1>5. FailureTold'
  BY <1>1 DEF FailureTold, Ambiguous, CallsOf
<1>6. FilledIffDone'
  BY <1>1 DEF FilledIffDone, Filling, CallsOf
<1> QED BY <1>4, <1>5, <1>6 DEF Told

(* The sections of Shape are disjoint. *)
LEMMA Shapes ==
    ASSUME NEW shape, NEW c \in CallsOf(shape)
    PROVE  /\ c \in Used
           /\ c \in Ambiguous <=> shape \in {"wide", "fillTime", "times", "nice"}
           /\ c \in Filling <=> shape \in {"fill", "fillOpt"}
BY DEF CallsOf, Ambiguous, Filling

(* The cut to a guest word. *)
LEMMA AbiLong == ASSUME NEW v \in Int PROVE abi_long(v) \in Int
<1>1. WordSize \in Nat \ {0}
  BY SpaceAssumption, CallAssumption
<1>2. v % WordSize \in Int
  BY <1>1
<1> QED BY <1>1, <1>2 DEF abi_long

(* Calls whose result is the host's, told without a conversion. *)
LEMMA PlainCalls ==
    ASSUME TypeOK, NEW c,
           \/ c \in CallsOf("host") /\ HostCall(c)
           \/ c \in CallsOf("buffer") /\ BufferCall(c)
           \/ c \in CallsOf("read") /\ BufferCall(c)
           \/ c \in CallsOf("readv") /\ BufferCall(c)
           \/ c \in CallsOf("writev") /\ HostCall(c)
           \/ c \in CallsOf("linkat") /\ HostCall(c)
    PROVE  Told'
<1>1. errno \in 0 .. MaxErrno
  BY DEF TypeOK
<1>2. c \in Used /\ c \notin Ambiguous /\ c \notin Filling
  BY Shapes
<1>3. CASE HostCall(c)
  <2>1. PICK o \in Outcomes(Small) : Answer(c, get_errno(o.value, o.errno), o, FALSE, FALSE)
    BY <1>3 DEF HostCall
  <2> DEFINE ret == get_errno(o.value, o.errno)
  <2>2. /\ ret \in Int /\ o.failed \in 0 .. MaxErrno /\ o.errno \in 0 .. MaxErrno
        /\ is_error(ret) <=> o.failed # 0
        /\ o.failed # 0 => ret = -o.failed
    BY <1>1, SmallOutcome
  <2> HIDE DEF ret
  <2> QED BY <1>2, <2>1, <2>2, AnswerTold DEF ret
<1>4. CASE BufferCall(c)
  <2>1. PICK o \in Outcomes(Small) :
            Answer(c, get_errno(o.value, o.errno), o, o.failed = 0 /\ o.value > 0, TRUE)
    BY <1>4 DEF BufferCall
  <2> DEFINE ret == get_errno(o.value, o.errno)
             wrote == o.failed = 0 /\ o.value > 0
  <2>2. /\ ret \in Int /\ o.failed \in 0 .. MaxErrno /\ o.errno \in 0 .. MaxErrno
        /\ is_error(ret) <=> o.failed # 0
        /\ o.failed # 0 => ret = -o.failed
    BY <1>1, SmallOutcome
  <2>3. wrote \in BOOLEAN /\ (o.failed # 0 => ~wrote) /\ Answer(c, ret, o, wrote, TRUE)
    BY <2>1
  <2> HIDE DEF ret, wrote
  <2> QED BY <1>2, <2>2, <2>3, AnswerTold
<1> QED BY <1>3, <1>4

(* Calls that fill a structure of the program. *)
LEMMA FillCalls ==
    ASSUME TypeOK, NEW c,
           \/ c \in CallsOf("fill") /\ FillCall(c)
           \/ c \in CallsOf("fillOpt") /\ FillOptCall(c)
    PROVE  Told'
<1>1. errno \in 0 .. MaxErrno
  BY DEF TypeOK
<1>2. c \in Used /\ c \notin Ambiguous
  BY Shapes
<1>3. PICK o \in Outcomes(Small), given \in BOOLEAN :
          Answer(c, get_errno(o.value, o.errno), o,
                 ~is_error(get_errno(o.value, o.errno)) /\ given, given)
  <2>1. CASE FillCall(c)
    <3>1. PICK o \in Outcomes(Small) :
              Answer(c, get_errno(o.value, o.errno), o, ~is_error(get_errno(o.value, o.errno)), TRUE)
      BY <2>1 DEF FillCall
    <3>2. (~is_error(get_errno(o.value, o.errno)) /\ TRUE) = ~is_error(get_errno(o.value, o.errno))
      BY DEF is_error
    <3> QED BY <3>1, <3>2
  <2>2. CASE FillOptCall(c)
    BY <2>2 DEF FillOptCall
  <2> QED BY <2>1, <2>2
<1> DEFINE ret == get_errno(o.value, o.errno)
           wrote == ~is_error(ret) /\ given
<1>4. /\ ret \in Int /\ o.failed \in 0 .. MaxErrno /\ o.errno \in 0 .. MaxErrno
      /\ is_error(ret) <=> o.failed # 0
      /\ o.failed # 0 => ret = -o.failed
  BY <1>1, SmallOutcome
<1>5. wrote \in BOOLEAN /\ (o.failed # 0 => ~wrote) /\ (o.failed = 0 => (wrote <=> given))
  BY <1>4
<1>6. Answer(c, ret, o, wrote, given)
  BY <1>3
<1> HIDE DEF ret, wrote
<1> QED BY <1>2, <1>4, <1>5, <1>6, AnswerTold

(* -1 survives the cut. *)
LEMMA LastWord == (-1) % WordSize = WordSize - 1 /\ abi_long(-1) = -1
<1>1. WordSize \in Nat /\ WordSize > 3
  BY SpaceAssumption
<1>2. (-1) % WordSize = WordSize - 1
  BY <1>1
<1> QED BY <1>1, <1>2 DEF abi_long

LEMMA WideValues == Wide \in SUBSET Int /\ Levels \in SUBSET Int /\ -1 \notin Wide
BY SpaceAssumption DEF Wide, Small, Levels

LEMMA GetErrno ==
    ASSUME NEW v \in Int, NEW e \in Int
    PROVE  get_errno(v, e) \in Int /\ (v = -1 => get_errno(v, e) = -e)
BY ErrnoSame DEF get_errno

(* Calls whose result can be mistaken for an error. *)
LEMMA AmbiguousCalls ==
    ASSUME TypeOK, NEW c,
           \/ c \in CallsOf("wide") /\ WideCall(c)
           \/ c \in CallsOf("fillTime") /\ TimeCall(c)
           \/ c \in CallsOf("times") /\ TimesCall(c)
           \/ c \in CallsOf("nice") /\ NiceCall(c)
    PROVE  Told'
<1>1. errno \in 0 .. MaxErrno /\ errno \in Int /\ MaxErrno \in Nat
  BY CallAssumption DEF TypeOK
<1>2. c \in Used /\ c \in Ambiguous /\ c \notin Filling
  BY Shapes
<1>3. CASE WideCall(c)
  <2>1. PICK o \in Outcomes(Wide) :
            Answer(c, get_errno(abi_long(o.value), o.errno), o, FALSE, FALSE)
    BY <1>3 DEF WideCall
  <2>2. o.value \in Int /\ o.failed \in 0 .. MaxErrno /\ o.errno \in 0 .. MaxErrno
    BY <1>1, WideValues, HostOutcome
  <2>3. get_errno(abi_long(o.value), o.errno) \in Int
    <3>1. abi_long(o.value) \in Int /\ o.errno \in Int
      BY <2>2, AbiLong
    <3> QED BY <3>1, GetErrno
  <2> QED BY <1>2, <2>1, <2>2, <2>3, AnswerTold
<1>4. CASE TimeCall(c)
  <2> DEFINE ret(o) == get_errno(abi_long(o.value), o.errno)
  <2>1. PICK o \in Outcomes(Wide), given \in BOOLEAN :
            Answer(c, ret(o), o, ~is_error(ret(o)) /\ given, given)
    BY <1>4 DEF TimeCall
  <2> DEFINE wrote == ~is_error(ret(o)) /\ given
  <2>2. /\ o.value \in Int /\ o.failed \in 0 .. MaxErrno /\ o.errno \in 0 .. MaxErrno
        /\ o.failed # 0 => o.value = -1 /\ o.errno = o.failed
    BY <1>1, WideValues, HostOutcome
  <2>3. ret(o) \in Int /\ (o.failed # 0 => ret(o) = -o.failed)
    <3>1. abi_long(o.value) \in Int /\ o.errno \in Int
      BY <2>2, AbiLong
    <3>2. o.failed # 0 => abi_long(o.value) = -1
      BY <2>2, LastWord
    <3> QED BY <2>2, <3>1, <3>2, GetErrno
  <2>4. wrote \in BOOLEAN
    OBVIOUS
  <2> HIDE DEF ret
  <2>5. o.failed # 0 => is_error(ret(o))
    BY <1>1, <2>2, <2>3 DEF is_error
  <2>6. o.failed # 0 => ~wrote
    BY <2>5
  <2>7. Answer(c, ret(o), o, wrote, given)
    BY <2>1
  <2> HIDE DEF wrote
  <2> QED BY <1>2, <2>2, <2>3, <2>4, <2>6, <2>7, AnswerTold
<1>5. CASE TimesCall(c)
  <2>1. PICK v \in Wide, given \in BOOLEAN :
            Answer(c, get_errno(abi_long(v), errno), [failed |-> 0, errno |-> errno], given, given)
    BY <1>5 DEF TimesCall
  <2> DEFINE o == [failed |-> 0, errno |-> errno]
  <2>2. o.failed = 0 /\ o.failed \in 0 .. MaxErrno /\ o.errno \in 0 .. MaxErrno
    BY <1>1
  <2>3. get_errno(abi_long(v), errno) \in Int
    BY <1>1, WideValues, AbiLong, GetErrno
  <2>4. Answer(c, get_errno(abi_long(v), errno), o, given, given)
    BY <2>1
  <2> HIDE DEF o
  <2> QED BY <1>2, <2>2, <2>3, <2>4, AnswerTold
<1>6. CASE NiceCall(c)
  <2>1. PICK o \in Outcomes(Levels) : Answer(c, get_errno(o.value, o.errno), o, FALSE, FALSE)
    BY <1>6 DEF NiceCall
  <2>2. o.value \in Int /\ o.failed \in 0 .. MaxErrno /\ o.errno \in 0 .. MaxErrno
    BY <1>1, WideValues, HostOutcome
  <2>3. get_errno(o.value, o.errno) \in Int
    <3>1. o.errno \in Int
      BY <2>2
    <3> QED BY <2>2, <3>1, GetErrno
  <2> QED BY <1>2, <2>1, <2>2, <2>3, AnswerTold
<1> QED BY <1>3, <1>4, <1>5, <1>6

(* The two calls that look at the result before they return another. *)
LEMMA SeekPriority ==
    ASSUME TypeOK, NEW c,
           \/ c \in CallsOf("_llseek") /\ SeekCall(c)
           \/ c \in CallsOf("getpriority") /\ PriorityCall(c)
    PROVE  Told'
<1>1. errno \in 0 .. MaxErrno /\ errno \in Int /\ MaxErrno \in Nat
  BY CallAssumption DEF TypeOK
<1>2. c \in Used /\ c \notin Ambiguous /\ c \notin Filling
  BY Shapes
<1>3. CASE SeekCall(c)
  <2> DEFINE result(o) == IF o.value = -1 THEN get_errno(o.value, o.errno) ELSE 0
  <2>1. PICK o \in Outcomes(Wide) : Answer(c, result(o), o, result(o) = 0, TRUE)
    BY <1>3 DEF SeekCall
  <2> DEFINE ret == result(o)
             wrote == ret = 0
  <2>2. /\ o.value \in Int /\ o.failed \in 0 .. MaxErrno /\ o.errno \in 0 .. MaxErrno
        /\ o.failed = 0 => o.value # -1
        /\ o.failed # 0 => o.value = -1 /\ o.errno = o.failed
    BY <1>1, WideValues, HostOutcome
  <2>3. ret = IF o.failed # 0 THEN -o.failed ELSE 0
    BY <2>2, ErrnoSame DEF get_errno
  <2>4. Answer(c, ret, o, wrote, TRUE) /\ wrote \in BOOLEAN
    BY <2>1
  <2> HIDE DEF ret
  <2>5. /\ ret \in Int
        /\ is_error(ret) <=> o.failed # 0
        /\ o.failed # 0 => ret = -o.failed /\ ~wrote
    BY <1>1, <2>2, <2>3 DEF is_error
  <2> HIDE DEF wrote
  <2> QED BY <1>2, <2>2, <2>4, <2>5, AnswerTold
<1>4. CASE PriorityCall(c)
  <2> DEFINE e(o) == IF o.failed = 0 THEN 0 ELSE o.errno
             result(o) == IF o.value = -1 /\ e(o) # 0 THEN -host_to_target_errno(e(o))
                          ELSE 20 - o.value
  <2>1. PICK o \in Outcomes(Levels) :
            Answer(c, result(o), [o EXCEPT !.errno = e(o)], FALSE, FALSE)
    BY <1>4 DEF PriorityCall
  <2>2. /\ o.value \in Int /\ o.failed \in 0 .. MaxErrno /\ o.errno \in 0 .. MaxErrno
        /\ o.failed = 0 => o.value \in Levels
        /\ o.failed # 0 => o.value = -1 /\ o.errno = o.failed
    BY <1>1, WideValues, HostOutcome
  <2> DEFINE out == [o EXCEPT !.errno = e(o)]
             ret == result(o)
  <2>3. out.failed = o.failed /\ out.errno \in 0 .. MaxErrno
    <3>1. DOMAIN o = {"value", "errno", "failed"}
      BY DEF Outcomes
    <3> QED BY <1>1, <2>2, <3>1
  <2>4. ret = IF o.failed # 0 THEN -o.failed ELSE 20 - o.value
    BY <2>2, ErrnoSame
  <2>5. Answer(c, ret, out, FALSE, FALSE)
    BY <2>1
  <2> HIDE DEF out, ret
  <2>6. /\ ret \in Int
        /\ is_error(ret) <=> out.failed # 0
        /\ out.failed # 0 => ret = -out.failed
    BY <1>1, <2>2, <2>3, <2>4 DEF is_error, Levels
  <2> QED BY <1>2, <2>2, <2>3, <2>5, <2>6, AnswerTold
<1> QED BY <1>3, <1>4

(* Calls that the emulation answers, or refuses, by itself. *)
LEMMA EmulatedTold ==
    ASSUME TypeOK, NEW c \in Used, c \notin Filling, NEW ret \in Int, NEW failed \in 0 .. MaxErrno,
           Emulated(c, ret, failed),
           IF failed = 0 THEN ret >= 0 ELSE ret = -failed
    PROVE  Told'
<1> DEFINE o == [failed |-> failed, errno |-> errno]
<1>1. o.failed = failed /\ o.errno = errno /\ errno \in 0 .. MaxErrno
  BY DEF TypeOK
<1>2. Answer(c, ret, o, FALSE, FALSE)
  BY DEF Emulated
<1>3. /\ is_error(ret) <=> failed # 0
      /\ failed # 0 => ret = -failed
  BY CallAssumption DEF is_error
<1> HIDE DEF o
<1> QED BY <1>1, <1>2, <1>3, AnswerTold

LEMMA OwnAnswers ==
    ASSUME TypeOK, NEW c,
           \/ c \in CallsOf("read") /\ Emulated(c, 0, 0)
           \/ c \in CallsOf("linkat") /\ Emulated(c, -EFAULT, EFAULT)
           \/ c \in CallsOf("const") /\ ConstCall(c)
           \/ c \in CallsOf("nosys") /\ NotImplemented(c)
           \/ c \in CallsOf("_sysctl") /\ SysctlCall(c)
           \/ c \in CallsOf("readv") /\ BadVector(c)
           \/ c \in CallsOf("writev") /\ BadVector(c)
    PROVE  Told'
<1>1. c \in Used /\ c \notin Filling
  BY Shapes
<1>2. /\ 0 \in 0 .. MaxErrno /\ PageSize \in Nat
      /\ {ENOSYS, ENOTDIR, EFAULT, ENOMEM, EINVAL} \subseteq 1 .. MaxErrno /\ MaxErrno \in Nat
  BY CallAssumption, SpaceAssumption
<1>3. CASE Emulated(c, 0, 0)
  BY <1>1, <1>2, <1>3, EmulatedTold
<1>4. CASE ConstCall(c)
  <2>1. PICK v \in {0, PageSize} : Emulated(c, v, 0)
    BY <1>4 DEF ConstCall
  <2>2. v \in Int /\ v >= 0
    BY <1>2
  <2> QED BY <1>1, <1>2, <2>1, <2>2, EmulatedTold
<1>5. CASE NotImplemented(c)
  <2>1. -ENOSYS \in Int /\ ENOSYS \in 0 .. MaxErrno /\ ENOSYS # 0
    BY <1>2
  <2> QED BY <1>1, <1>5, <2>1, EmulatedTold DEF NotImplemented
<1>6. CASE SysctlCall(c)
  <2>1. -ENOTDIR \in Int /\ ENOTDIR \in 0 .. MaxErrno /\ ENOTDIR # 0
    BY <1>2
  <2> QED BY <1>1, <1>6, <2>1, EmulatedTold DEF SysctlCall
<1>7. CASE BadVector(c)
  <2>1. PICK e \in {0, EINVAL, ENOMEM} :
            Answer(c, -host_to_target_errno(e), [failed |-> e, errno |-> e], FALSE, TRUE)
    BY <1>7 DEF BadVector
  <2> DEFINE o == [failed |-> e, errno |-> e]
  <2>2. e \in 0 .. MaxErrno /\ -e \in Int
    BY <1>2
  <2>3. o.failed = e /\ o.errno = e /\ Answer(c, -e, o, FALSE, TRUE)
    BY <2>1, ErrnoSame
  <2>4. /\ is_error(-e) <=> e # 0
        /\ e # 0 => -e = -o.failed
    BY <1>2, <2>2, <2>3 DEF is_error
  <2> HIDE DEF o
  <2> QED BY <1>1, <2>2, <2>3, <2>4, AnswerTold
<1>8. CASE Emulated(c, -EFAULT, EFAULT)
  <2>1. -EFAULT \in Int /\ EFAULT \in 0 .. MaxErrno /\ EFAULT # 0
    BY <1>2
  <2> QED BY <1>1, <1>8, <2>1, EmulatedTold
<1> QED BY <1>3, <1>4, <1>5, <1>6, <1>7, <1>8

(* Where the break and the mappings may be. *)
LEMMA Limits ==
    /\ target_brk_limit \in Nat /\ target_mmap_limit \in Nat
    /\ target_brk_limit <= target_mmap_limit /\ target_mmap_limit <= MaxMem
    /\ MaxMem < WordSize
BY SpaceAssumption DEF target_brk_limit, target_mmap_limit

(* The break moves up, to its limit at most. *)
LEMMA BreakBounds ==
    ASSUME SpaceTypeOK, NEW n \in Requests
    PROVE  /\ BreakAfter(n) \in 0 .. target_brk_limit
           /\ target_brk <= BreakAfter(n)
           /\ BreakAfter(n) < n => BreakAfter(n) = target_brk
<1>1. n \in Nat
  BY RequestAssumption
<1> QED BY <1>1, PageAlignBounds, Limits DEF SpaceTypeOK, BreakAfter

(* A mapping that is granted fits below its limit, without a wrap. *)
LEMMA MapBounds ==
    ASSUME SpaceTypeOK, NEW n \in Requests, NEW anonymous \in BOOLEAN, target_mmap(n, anonymous)
    PROVE  /\ target_cur_mmap_ptr' \in target_cur_mmap_ptr .. target_mmap_limit
           /\ MapErrno(n, anonymous) # 0 => target_cur_mmap_ptr' = target_cur_mmap_ptr
           /\ MapErrno(n, anonymous) = 0 => target_cur_mmap_ptr + n <= target_cur_mmap_ptr'
<1> DEFINE end == PageAlign(n) + target_cur_mmap_ptr
<1>1. /\ PageAlign(n) \in Nat /\ target_cur_mmap_ptr \in Nat /\ n \in Nat /\ n <= PageAlign(n)
      /\ end \in Nat /\ end < WordSize /\ WordSize \in Nat \ {0}
  BY PageAlignBounds, Limits, RequestAssumption, SpaceAssumption DEF SpaceTypeOK
<1>2. end % WordSize = end /\ (target_cur_mmap_ptr + PageAlign(n)) % WordSize = end
  <2>1. target_cur_mmap_ptr + PageAlign(n) = end
    BY <1>1
  <2> HIDE DEF end
  <2> QED BY <1>1, <2>1, NoWrap
<1>3. MapErrno(n, anonymous) = 0 => end < target_mmap_limit
  BY <1>2, ErrnoAssumption DEF MapErrno, MapFits
<1>4. target_cur_mmap_ptr' = IF MapErrno(n, anonymous) = 0 THEN end ELSE target_cur_mmap_ptr
  BY <1>2 DEF target_mmap
<1> HIDE DEF end
<1>5. target_cur_mmap_ptr <= target_mmap_limit /\ target_mmap_limit \in Nat
  BY Limits DEF SpaceTypeOK
<1>6. target_cur_mmap_ptr <= end /\ target_cur_mmap_ptr + n <= end
  BY <1>1 DEF end
<1> QED BY <1>1, <1>3, <1>4, <1>5, <1>6

(* What the reply of a memory call has to be like for the invariant. *)
LEMMA MemoryReply ==
    ASSUME SpaceTypeOK', errno' \in 0 .. MaxErrno, target_exit_called' \in BOOLEAN,
           NEW c \in Used, c \notin Filling, NEW ret \in Int, NEW failed \in 0 .. MaxErrno,
           NEW n \in 0 .. WordSize - 1,
           call' = [name |-> c, ret |-> ret, failed |-> failed, wrote |-> FALSE,
                    given |-> FALSE, size |-> n],
           IF failed = 0 THEN ret >= 0 ELSE ret = -failed
    PROVE  Told'
<1>1. call' \in Call
  BY DEF Call
<1>2. TypeOK'
  BY <1>1 DEF TypeOK
<1>3. FailureTold'
  <2>1. is_error(ret) <=> failed # 0
    BY CallAssumption DEF is_error
  <2>2. failed # 0 => ret = -failed
    OBVIOUS
  <2> QED BY <2>1, <2>2 DEF FailureTold
<1>4. FilledIffDone'
  <2>1. /\ call'.name = c /\ ~call'.wrote
    OBVIOUS
  <2> QED BY <2>1 DEF FilledIffDone, Filling
<1> QED BY <1>2, <1>3, <1>4 DEF Told

LEMMA SpaceCalls ==
    ASSUME TypeOK, NEW c,
           \/ c \in CallsOf("exit") /\ ExitCall(c)
           \/ c \in CallsOf("brk") /\ BrkCall(c)
           \/ c \in CallsOf("mmap") /\ MmapCall(c)
           \/ c \in CallsOf("munmap") /\ MunmapCall(c)
    PROVE  Told'
<1>1. /\ SpaceTypeOK /\ errno \in 0 .. MaxErrno /\ target_exit_called \in BOOLEAN
      /\ c \in Used /\ c \notin Filling
  BY Shapes DEF TypeOK
<1>2. 0 \in 0 .. MaxErrno /\ 0 \in 0 .. WordSize - 1
  BY CallAssumption, SpaceAssumption
<1>3. CASE ExitCall(c)
  <2>1. PICK v \in Small : call' = [NoCall EXCEPT !.name = c, !.ret = v]
    BY <1>3 DEF ExitCall
  <2>2. /\ call' = [name |-> c, ret |-> v, failed |-> 0, wrote |-> FALSE,
                     given |-> FALSE, size |-> 0]
        /\ v \in Int /\ v >= 0
    <3>1. call' = [name |-> c, ret |-> v, failed |-> 0, wrote |-> FALSE,
                   given |-> FALSE, size |-> 0]
      BY <2>1 DEF NoCall
    <3> QED BY <3>1 DEF Small
  <2>3. SpaceTypeOK' /\ errno' \in 0 .. MaxErrno /\ target_exit_called' \in BOOLEAN
    BY <1>1, <1>3 DEF ExitCall, space, SpaceTypeOK
  <2> QED BY <1>1, <1>2, <2>2, <2>3, MemoryReply
<1>4. CASE BrkCall(c)
  <2>1. PICK n \in Requests :
            /\ do_brk(n)
            /\ call' = [NoCall EXCEPT !.name = c, !.ret = BreakAfter(n), !.size = n]
            /\ UNCHANGED <<errno, target_exit_called>>
    BY <1>4 DEF BrkCall
  <2>2. BreakAfter(n) \in 0 .. target_brk_limit /\ n \in 0 .. WordSize - 1
    BY <1>1, BreakBounds, RequestAssumption
  <2>3. BreakAfter(n) \in Int /\ BreakAfter(n) >= 0
    BY <2>2, Limits
  <2>4. SpaceTypeOK'
    BY <1>1, <2>1, <2>2 DEF do_brk, SpaceTypeOK
  <2>5. call' = [name |-> c, ret |-> BreakAfter(n), failed |-> 0, wrote |-> FALSE,
                 given |-> FALSE, size |-> n]
    BY <2>1 DEF NoCall
  <2> QED BY <1>1, <1>2, <2>1, <2>2, <2>3, <2>4, <2>5, MemoryReply
<1>5. CASE MmapCall(c)
  <2> DEFINE refused(n, a) == MapErrno(n, a)
             e(n, a) == IF refused(n, a) # 0 THEN refused(n, a) ELSE errno
             p(n, a) == IF refused(n, a) # 0 THEN -1 ELSE target_cur_mmap_ptr
  <2>1. PICK n \in Requests, a \in BOOLEAN :
            /\ target_mmap(n, a)
            /\ errno' = e(n, a)
            /\ call' = [NoCall EXCEPT !.name = c, !.ret = get_errno(p(n, a), e(n, a)),
                                      !.failed = refused(n, a), !.size = n]
            /\ UNCHANGED target_exit_called
    BY <1>5 DEF MmapCall
  <2>2. refused(n, a) \in 0 .. MaxErrno /\ e(n, a) \in 0 .. MaxErrno
    BY <1>1, CallAssumption DEF MapErrno
  <2>3. target_cur_mmap_ptr \in Nat
    BY <1>1, Limits DEF SpaceTypeOK
  <2> DEFINE ret == get_errno(p(n, a), e(n, a))
  <2>4. ret = IF refused(n, a) # 0 THEN -refused(n, a) ELSE target_cur_mmap_ptr
    BY <2>3, ErrnoSame DEF get_errno
  <2>5. SpaceTypeOK'
    <3>1. target_cur_mmap_ptr' \in target_cur_mmap_ptr .. target_mmap_limit
      BY <1>1, <2>1, MapBounds
    <3> QED BY <1>1, <2>1, <2>3, <3>1, Limits DEF target_mmap, SpaceTypeOK
  <2>6. n \in 0 .. WordSize - 1
    BY RequestAssumption
  <2> HIDE DEF refused, e, p
  <2>7. ret \in Int /\ IF refused(n, a) = 0 THEN ret >= 0 ELSE ret = -refused(n, a)
    BY <2>2, <2>3, <2>4
  <2>8. call' = [name |-> c, ret |-> ret, failed |-> refused(n, a), wrote |-> FALSE,
                 given |-> FALSE, size |-> n]
    BY <2>1 DEF NoCall
  <2> HIDE DEF ret
  <2> QED BY <1>1, <2>1, <2>2, <2>5, <2>6, <2>7, <2>8, MemoryReply
<1>6. CASE MunmapCall(c)
  <2>1. call' = [name |-> c, ret |-> 0, failed |-> 0, wrote |-> FALSE,
                 given |-> FALSE, size |-> 0]
    BY <1>6 DEF MunmapCall, NoCall
  <2>2. SpaceTypeOK' /\ errno' \in 0 .. MaxErrno /\ target_exit_called' \in BOOLEAN
    BY <1>1, <1>6 DEF MunmapCall, target_munmap, SpaceTypeOK
  <2> QED BY <1>1, <1>2, <2>1, <2>2, MemoryReply
<1> QED BY <1>3, <1>4, <1>5, <1>6

LEMMA ToldInit == Init => Told
<1> SUFFICES ASSUME Init PROVE Told
  OBVIOUS
<1>1. /\ call = [name |-> "none", ret |-> 0, failed |-> 0, wrote |-> FALSE,
                 given |-> FALSE, size |-> 0]
      /\ errno \in {0} \cup HostErrors /\ target_exit_called = FALSE
      /\ program \in Programs /\ target_brk = max_elf_addr(program)
      /\ target_cur_mmap_ptr = target_brk_limit
  BY DEF Init, SpaceInit, NoCall
<1>2. SpaceTypeOK
  BY <1>1, ProgramAssumption, Limits DEF SpaceTypeOK
<1>3. TypeOK
  <2>1. 0 \in 0 .. MaxErrno /\ 0 \in 0 .. WordSize - 1 /\ HostErrors \subseteq 0 .. MaxErrno
    BY CallAssumption, SpaceAssumption
  <2>2. call \in Call
    BY <1>1, <2>1 DEF Call
  <2> QED BY <1>1, <1>2, <2>1, <2>2 DEF TypeOK
<1>4. FailureTold
  BY <1>1, CallAssumption DEF FailureTold, is_error
<1>5. FilledIffDone
  BY <1>1, CallAssumption DEF FilledIffDone, CallsOf
<1> QED BY <1>3, <1>4, <1>5 DEF Told

LEMMA ToldStep == Told /\ [Next]_vars => Told'
<1> SUFFICES ASSUME Told, [Next]_vars PROVE Told'
  OBVIOUS
<1>1. CASE UNCHANGED vars
  BY <1>1 DEF vars, space, Told, TypeOK, SpaceTypeOK, FailureTold, FilledIffDone
<1>2. CASE Next
  <2>1. TypeOK /\ do_syscall
    BY <1>2 DEF Told, Next
  <2>2. ASSUME NEW c \in CallsOf("read"), ReadCall(c) PROVE Told'
    BY <2>1, <2>2, PlainCalls, OwnAnswers DEF ReadCall
  <2>3. ASSUME NEW c \in CallsOf("readv"), ReadvCall(c) PROVE Told'
    BY <2>1, <2>3, PlainCalls, OwnAnswers DEF ReadvCall
  <2>4. ASSUME NEW c \in CallsOf("writev"), WritevCall(c) PROVE Told'
    BY <2>1, <2>4, PlainCalls, OwnAnswers DEF WritevCall
  <2>5. ASSUME NEW c \in CallsOf("linkat"), LinkatCall(c) PROVE Told'
    BY <2>1, <2>5, PlainCalls, OwnAnswers DEF LinkatCall
  <2> QED BY <2>1, <2>2, <2>3, <2>4, <2>5, PlainCalls, FillCalls, AmbiguousCalls, SeekPriority,
             OwnAnswers, SpaceCalls DEF do_syscall
<1> QED BY <1>1, <1>2

(* The state keeps its types: the break and the mappings stay below their    *)
(* limits (TypeOK; syscall.c:123-148, 848-872).                              *)
THEOREM TypeCorrect == Spec => []TypeOK
<1>1. Told => TypeOK
  BY DEF Told
<1> QED BY <1>1, ToldInit, ToldStep, PTL DEF Spec

(* The program is told of every failure, with its errno and not one of an    *)
(* earlier call, and of no failure that was none (FailureTold; get_errno and *)
(* the cases of do_syscall).                                                 *)
THEOREM FailureReported == Spec => []FailureTold
<1>1. Told => FailureTold
  BY DEF Told
<1> QED BY <1>1, ToldInit, ToldStep, PTL DEF Spec

(* A failed call has left guest memory alone; a structure is filled when the *)
(* call succeeds (FilledIffDone; the !is_error(ret) of the cases).           *)
THEOREM FilledWhenDone == Spec => []FilledIffDone
<1>1. Told => FilledIffDone
  BY DEF Told
<1> QED BY <1>1, ToldInit, ToldStep, PTL DEF Spec

(************************* Memory that is handed out ***********************)

LEMMA AreasInit == Init => Promise!Init
<1> SUFFICES ASSUME Init PROVE Promise!Init
  OBVIOUS
<1>1. /\ call.name = "none" /\ target_brk = max_elf_addr(program) /\ program \in Programs
      /\ target_cur_mmap_ptr = target_brk_limit
  BY DEF Init, SpaceInit, NoCall
<1>2. target_brk \in 0 .. MaxMem /\ target_brk_limit \in Nat
  <2>1. target_brk \in 0 .. target_brk_limit
    BY <1>1, ProgramAssumption
  <2> QED BY <2>1, Limits, SpaceAssumption
<1>3. Area(0, target_brk) = Promise!Area(0, target_brk)
  BY <1>2 DEF Area, Promise!Area
<1>4. Area(target_brk_limit, target_cur_mmap_ptr) = {}
  BY <1>1, <1>2 DEF Area
<1>5. Request = Promise!NoReply
  BY <1>1, CallAssumption DEF Request, CallsOf, Promise!NoReply
<1> QED BY <1>2, <1>3, <1>4, <1>5 DEF Promise!Init

(* A call that is no memory request is no step of Areas. *)
LEMMA OtherCall ==
    ASSUME UNCHANGED space, call'.name \in Used, Shape[call'.name] \notin {"brk", "mmap"}
    PROVE  Promise!Other
<1>1. Request' = Promise!NoReply
  BY DEF Request, CallsOf, Promise!NoReply
<1> QED BY <1>1 DEF Promise!Other, space, Area, target_brk_limit

(* brk is a step of the heap. *)
LEMMA BreakCall ==
    ASSUME SpaceTypeOK, NEW c \in CallsOf("brk"), BrkCall(c)
    PROVE  Promise!Break
<1>1. PICK n \in Requests :
          /\ do_brk(n)
          /\ call' = [NoCall EXCEPT !.name = c, !.ret = BreakAfter(n), !.size = n]
  BY DEF BrkCall
<1>2. call'.name = c /\ call'.ret = BreakAfter(n) /\ call'.size = n
  BY <1>1 DEF NoCall
<1>3. Request' = [kind |-> "break", size |-> n, at |-> BreakAfter(n), ok |-> n <= BreakAfter(n)]
  BY <1>2 DEF Request, CallsOf
<1>4. target_brk' = BreakAfter(n) /\ target_cur_mmap_ptr' = target_cur_mmap_ptr
  BY <1>1 DEF do_brk
<1>5. /\ BreakAfter(n) \in Nat /\ target_brk \in Nat /\ n \in Nat
      /\ target_brk_limit \in Nat /\ target_cur_mmap_ptr \in Nat
      /\ target_brk <= BreakAfter(n) /\ BreakAfter(n) <= target_brk_limit
      /\ BreakAfter(n) < n => BreakAfter(n) = target_brk
  BY BreakBounds, Limits, RequestAssumption DEF SpaceTypeOK
<1>6. Area(0, target_brk)' = Promise!Area(0, BreakAfter(n))
  BY <1>4, <1>5 DEF Area, Promise!Area
<1>7. /\ Area(0, target_brk) \subseteq Area(0, target_brk)'
      /\ Area(0, target_brk)' \cap Area(target_brk_limit, target_cur_mmap_ptr) = {}
      /\ BreakAfter(n) < n => Area(0, target_brk)' = Area(0, target_brk)
  BY <1>4, <1>5 DEF Area
<1>8. Area(target_brk_limit, target_cur_mmap_ptr)' = Area(target_brk_limit, target_cur_mmap_ptr)
  BY <1>4 DEF Area, target_brk_limit
<1>9. /\ Request'.kind = "break" /\ Request'.at = BreakAfter(n) /\ Request'.size = n
      /\ Request'.ok <=> Request'.size <= Request'.at
      /\ ~Request'.ok => BreakAfter(n) < n
  <2>1. /\ Request'.kind = "break" /\ Request'.at = BreakAfter(n) /\ Request'.size = n
        /\ Request'.ok = (n <= BreakAfter(n))
    BY <1>3
  <2>2. CASE n <= BreakAfter(n)
    <3>1. Request'.ok
      BY <2>1, <2>2, Zenon
    <3> QED BY <2>1, <2>2, <3>1
  <2>3. CASE ~(n <= BreakAfter(n))
    <3>1. ~Request'.ok
      BY <2>1, <2>3, Zenon
    <3>2. BreakAfter(n) < n
      BY <1>5, <2>3
    <3> QED BY <2>1, <2>3, <3>1, <3>2
  <2> QED BY <2>2, <2>3
<1> QED BY <1>6, <1>7, <1>8, <1>9 DEF Promise!Break

(* The addresses of a new mapping are nobody's. *)
LEMMA NewArea ==
    ASSUME NEW end \in Nat, NEW from \in Nat, NEW old \in Nat, NEW new \in Nat, NEW n \in Nat,
           end <= from, from <= old, old + n <= new, new <= MaxMem
    PROVE  /\ Promise!Area(old, n) \subseteq Area(from, new) \ (Area(from, old) \cup Area(0, end))
           /\ Promise!Area(old, n) \subseteq 0 .. MaxMem - 1
           /\ Area(from, old) \subseteq Area(from, new)
           /\ Area(from, new) \cap Area(0, end) = {}
<1>1. MaxMem \in Nat
  BY SpaceAssumption
<1> QED BY <1>1 DEF Area, Promise!Area

(* mmap is a step of the mappings. *)
LEMMA MapCall ==
    ASSUME SpaceTypeOK, NEW c \in CallsOf("mmap"), MmapCall(c)
    PROVE  Promise!Map
<1>1. PICK n \in Requests, a \in BOOLEAN :
          /\ target_mmap(n, a)
          /\ call' = [NoCall EXCEPT !.name = c,
                          !.ret = get_errno(IF MapErrno(n, a) # 0 THEN -1 ELSE target_cur_mmap_ptr,
                                            IF MapErrno(n, a) # 0 THEN MapErrno(n, a) ELSE errno),
                          !.failed = MapErrno(n, a), !.size = n]
  BY DEF MmapCall
<1> DEFINE ptr == target_cur_mmap_ptr
<1>2. /\ ptr \in Nat /\ n \in Nat /\ target_brk \in Nat /\ target_brk_limit \in Nat
      /\ target_brk <= target_brk_limit /\ target_brk_limit <= ptr /\ MaxMem \in Nat
      /\ target_mmap_limit <= MaxMem /\ target_mmap_limit \in Nat
  BY Limits, RequestAssumption, SpaceAssumption DEF SpaceTypeOK
<1>3. /\ ptr' \in ptr .. target_mmap_limit
      /\ MapErrno(n, a) # 0 => ptr' = ptr
      /\ MapErrno(n, a) = 0 => ptr + n <= ptr'
  BY <1>1, MapBounds
<1>4. target_brk' = target_brk
  BY <1>1 DEF target_mmap
<1>5. /\ call'.name = c /\ call'.size = n /\ call'.failed = MapErrno(n, a)
      /\ MapErrno(n, a) = 0 => call'.ret = ptr
  BY <1>1, <1>2 DEF NoCall, get_errno
<1>6. /\ Request'.kind = "map" /\ Request'.size = n
      /\ Request'.ok <=> MapErrno(n, a) = 0
      /\ MapErrno(n, a) = 0 => Request'.at = ptr
  BY <1>5 DEF Request, CallsOf
<1>7. Area(0, target_brk)' = Area(0, target_brk)
  BY <1>4 DEF Area
<1> DEFINE granted == Area(target_brk_limit, ptr)
           heap == Area(0, target_brk)
<1>8. granted' = Area(target_brk_limit, ptr')
  BY DEF Area, target_brk_limit
<1>9. CASE MapErrno(n, a) = 0
  <2>0. ptr' \in Nat /\ ptr + n <= ptr' /\ ptr' <= MaxMem
    BY <1>2, <1>3, <1>9
  <2>1. /\ Promise!Area(ptr, n) \subseteq Area(target_brk_limit, ptr') \ (granted \cup heap)
        /\ Promise!Area(ptr, n) \subseteq 0 .. MaxMem - 1
        /\ granted \subseteq Area(target_brk_limit, ptr')
        /\ Area(target_brk_limit, ptr') \cap heap = {}
    BY SMTT(30), <2>0, <1>2, NewArea
  <2>2. granted' = Area(target_brk_limit, ptr')
    BY <1>8
  <2>3. Promise!Area(Request'.at, Request'.size) = Promise!Area(ptr, n)
    BY <1>6, <1>9
  <2> QED BY <1>6, <1>7, <1>9, <2>1, <2>2, <2>3 DEF Promise!Map
<1>10. CASE MapErrno(n, a) # 0
  BY <1>3, <1>6, <1>7, <1>8, <1>10 DEF Promise!Map
<1> QED BY <1>9, <1>10

(* The other calls leave the space alone. *)
LEMMA AnswerQuiet ==
    ASSUME NEW c, NEW ret, NEW o, NEW wrote, NEW given, Answer(c, ret, o, wrote, given)
    PROVE  UNCHANGED space /\ call'.name = c
BY DEF Answer, NoCall

LEMMA HostQuiet ==
    ASSUME NEW c,
           \/ HostCall(c) \/ WideCall(c) \/ BufferCall(c) \/ FillCall(c) \/ FillOptCall(c)
           \/ TimeCall(c) \/ TimesCall(c) \/ SeekCall(c) \/ NiceCall(c) \/ PriorityCall(c)
    PROVE  UNCHANGED space /\ call'.name = c
<1>1. CASE HostCall(c)
  BY <1>1, AnswerQuiet DEF HostCall
<1>2. CASE WideCall(c)
  BY <1>2, AnswerQuiet DEF WideCall
<1>3. CASE BufferCall(c)
  BY <1>3, AnswerQuiet DEF BufferCall
<1>4. CASE FillCall(c)
  BY <1>4, AnswerQuiet DEF FillCall
<1>5. CASE FillOptCall(c)
  BY <1>5, AnswerQuiet DEF FillOptCall
<1>6. CASE TimeCall(c)
  BY <1>6, AnswerQuiet DEF TimeCall
<1>7. CASE TimesCall(c)
  BY <1>7, AnswerQuiet DEF TimesCall
<1>8. CASE SeekCall(c)
  BY <1>8, AnswerQuiet DEF SeekCall
<1>9. CASE NiceCall(c)
  BY <1>9, AnswerQuiet DEF NiceCall
<1>10. CASE PriorityCall(c)
  BY <1>10, AnswerQuiet DEF PriorityCall
<1> QED BY <1>1, <1>2, <1>3, <1>4, <1>5, <1>6, <1>7, <1>8, <1>9, <1>10

LEMMA OwnQuiet ==
    ASSUME NEW c,
           \/ ReadCall(c) \/ ReadvCall(c) \/ WritevCall(c) \/ LinkatCall(c)
           \/ ConstCall(c) \/ NotImplemented(c) \/ SysctlCall(c)
           \/ ExitCall(c) \/ MunmapCall(c)
    PROVE  UNCHANGED space /\ call'.name = c
<1>1. ASSUME NEW ret, NEW failed, Emulated(c, ret, failed)
      PROVE  UNCHANGED space /\ call'.name = c
  BY <1>1, AnswerQuiet DEF Emulated
<1>2. CASE ReadCall(c) \/ LinkatCall(c)
  BY <1>1, <1>2, HostQuiet DEF ReadCall, LinkatCall
<1>3. ASSUME BadVector(c) PROVE UNCHANGED space /\ call'.name = c
  BY <1>3, AnswerQuiet DEF BadVector
<1>4. CASE ReadvCall(c) \/ WritevCall(c)
  BY <1>3, <1>4, HostQuiet DEF ReadvCall, WritevCall
<1>5. CASE ConstCall(c) \/ NotImplemented(c) \/ SysctlCall(c)
  BY <1>1, <1>5 DEF ConstCall, NotImplemented, SysctlCall
<1>6. CASE ExitCall(c)
  BY <1>6 DEF ExitCall, NoCall
<1>7. CASE MunmapCall(c)
  BY <1>7 DEF MunmapCall, target_munmap, space, NoCall
<1> QED BY <1>2, <1>4, <1>5, <1>6, <1>7

(* The variables of Areas, as Syscalls maps them. *)
AreasView ==
    <<Area(0, target_brk), Area(target_brk_limit, target_cur_mmap_ptr), Request>>

LEMMA AreasStep == TypeOK /\ [Next]_vars => [Promise!Next]_AreasView
<1> SUFFICES ASSUME TypeOK, [Next]_vars PROVE [Promise!Next]_AreasView
  OBVIOUS
<1>1. CASE UNCHANGED vars
  BY <1>1 DEF vars, space, Area, Request, target_brk_limit, AreasView
<1>2. CASE Next
  <2>1. SpaceTypeOK /\ do_syscall
    BY <1>2 DEF TypeOK, Next
  <2>2. ASSUME NEW c \in CallsOf("brk"), BrkCall(c) PROVE Promise!Next
    BY <2>1, <2>2, BreakCall DEF Promise!Next
  <2>3. ASSUME NEW c \in CallsOf("mmap"), MmapCall(c) PROVE Promise!Next
    BY <2>1, <2>3, MapCall DEF Promise!Next
  <2>4. ASSUME NEW shape, shape \notin {"brk", "mmap"}, NEW c \in CallsOf(shape),
               UNCHANGED space, call'.name = c
        PROVE  Promise!Next
    BY <2>4, OtherCall DEF Promise!Next, CallsOf
  <2>5. ASSUME NEW c,
               \/ c \in CallsOf("host")        /\ HostCall(c)
               \/ c \in CallsOf("wide")        /\ WideCall(c)
               \/ c \in CallsOf("buffer")      /\ BufferCall(c)
               \/ c \in CallsOf("fill")        /\ FillCall(c)
               \/ c \in CallsOf("fillOpt")     /\ FillOptCall(c)
               \/ c \in CallsOf("fillTime")    /\ TimeCall(c)
               \/ c \in CallsOf("times")       /\ TimesCall(c)
               \/ c \in CallsOf("_llseek")     /\ SeekCall(c)
               \/ c \in CallsOf("nice")        /\ NiceCall(c)
               \/ c \in CallsOf("getpriority") /\ PriorityCall(c)
        PROVE  Promise!Next
    BY <2>4, <2>5, HostQuiet
  <2>6. ASSUME NEW c,
               \/ c \in CallsOf("read")    /\ ReadCall(c)
               \/ c \in CallsOf("readv")   /\ ReadvCall(c)
               \/ c \in CallsOf("writev")  /\ WritevCall(c)
               \/ c \in CallsOf("linkat")  /\ LinkatCall(c)
               \/ c \in CallsOf("const")   /\ ConstCall(c)
               \/ c \in CallsOf("nosys")   /\ NotImplemented(c)
               \/ c \in CallsOf("_sysctl") /\ SysctlCall(c)
               \/ c \in CallsOf("exit")    /\ ExitCall(c)
               \/ c \in CallsOf("munmap")  /\ MunmapCall(c)
        PROVE  Promise!Next
    BY <2>4, <2>6, OwnQuiet
  <2> QED BY <2>1, <2>2, <2>3, <2>5, <2>6 DEF do_syscall
<1> QED BY <1>1, <1>2

(* The break and the mappings are handed out as Areas promises: no area      *)
(* twice, the heap only grows, a refused request changes nothing             *)
(* (ImplementsAreas; do_brk, target_mmap, target_munmap).                    *)
THEOREM AreasKept == Spec => ImplementsAreas
<1>1. Told => TypeOK
  BY DEF Told
<1> QED BY <1>1, AreasInit, AreasStep, ToldInit, ToldStep, PTL
        DEF Spec, ImplementsAreas, Promise!Spec, AreasView

(********************* The heap and the program's image ********************)

(* Every byte that came from the file is below the first break.              *)
LEMMA FileBelowBreak ==
    ASSUME NEW p \in Programs, NEW s \in p
    PROVE  /\ s \in Segment /\ max_elf_addr(p) \in Nat
           /\ s.vaddr + s.filesz <= max_elf_addr(p)
<1> DEFINE ends == {0} \cup {t.vaddr + t.filesz : t \in p}
           end == Max(ends)
           sum == end + PageSize - 1
<1>1. /\ p \subseteq Segment /\ max_elf_addr(p) \in Nat
      /\ PageSize \in Nat \ {0} /\ MaxMem \in Nat
  BY ProgramAssumption, SpaceAssumption DEF target_brk_limit
<1>2. /\ \A t \in p : t.vaddr \in 0 .. MaxMem /\ t.filesz \in 0 .. MaxMem
      /\ ends \in SUBSET Nat /\ ends # {} /\ \A x \in ends : x <= 2 * MaxMem
  BY <1>1 DEF Segment
<1>3. \E m \in ends : \A x \in ends : m >= x
  <2>1. 2 * MaxMem \in Nat
    BY <1>1
  <2> HIDE DEF ends
  <2> QED BY <1>2, <2>1, GreatestNumber
<1>4. end \in ends /\ \A x \in ends : end >= x
  BY <1>3 DEF Max
<1>5. s.vaddr + s.filesz \in ends
  OBVIOUS
<1>6. max_elf_addr(p) = (sum \div PageSize) * PageSize
  BY DEF max_elf_addr
<1> HIDE DEF ends, end
<1>7. end \in Nat /\ s.vaddr + s.filesz <= end
  BY <1>2, <1>4, <1>5
<1>8. end <= (sum \div PageSize) * PageSize
  <2>1. sum = PageSize * (sum \div PageSize) + (sum % PageSize) /\ sum % PageSize \in 0 .. PageSize - 1
    BY <1>1, <1>7
  <2>2. sum \div PageSize \in Nat
    BY <1>1, <1>7
  <2>3. PageSize * (sum \div PageSize) = (sum \div PageSize) * PageSize
    BY <1>1, <2>2
  <2>4. PageSize * (sum \div PageSize) \in Nat
    BY <1>1, <2>2
  <2> DEFINE whole == PageSize * (sum \div PageSize)
  <2> HIDE DEF whole
  <2>5. sum = whole + (sum % PageSize) /\ whole \in Nat
    BY <2>1, <2>4 DEF whole
  <2>6. end <= whole
    BY <1>1, <1>7, <2>1, <2>5
  <2> QED BY <2>3, <2>6 DEF whole
<1>9. s.vaddr + s.filesz \in Nat /\ s \in Segment
  BY <1>1, <1>2
<1> QED BY <1>1, <1>6, <1>7, <1>8, <1>9

(* The bss ends on the page on which the file's own bytes end, or before.    *)
BssOnLastPage(p) == \A s \in p : s.vaddr + s.memsz <= max_elf_addr(p)

(* The heap of a program with such a bss holds none of its code, data or     *)
(* bss, wherever the program moves its break (HeapOffImage; system.cpp:267,  *)
(* syscall.c:123-148).  With a larger bss it does, which the run heap_image  *)
(* shows: the hypothesis is what the loader would have to look at.           *)
THEOREM HeapBehindImage ==
    ASSUME \A p \in Programs : BssOnLastPage(p)
    PROVE  Spec => []HeapOffImage
<1>1. TypeOK => HeapOffImage
  <2> SUFFICES ASSUME TypeOK, NEW a \in Loaded(program), a \in max_elf_addr(program) .. target_brk - 1
               PROVE  FALSE
    BY DEF HeapOffImage
  <2>1. program \in Programs /\ target_brk \in Int
    BY Limits DEF TypeOK, SpaceTypeOK
  <2>2. PICK s \in program : a \in s.vaddr .. s.vaddr + s.memsz - 1
    BY DEF Loaded
  <2>3. s \in Segment /\ max_elf_addr(program) \in Nat /\ s.vaddr + s.memsz <= max_elf_addr(program)
    BY <2>1, FileBelowBreak DEF BssOnLastPage
  <2>4. s.vaddr \in Nat /\ s.memsz \in Nat
    BY <2>3, SpaceAssumption DEF Segment
  <2> QED BY <2>1, <2>2, <2>3, <2>4
<1> QED BY <1>1, TypeCorrect, PTL

(* What the program read from its file, and what it has been given since.    *)
FromFile(p) == UNION {s.vaddr .. s.vaddr + s.filesz - 1 : s \in p}
Given == Area(max_elf_addr(program), target_brk) \cup Area(target_brk_limit, target_cur_mmap_ptr)

(* Whatever the bss, no heap and no mapping lies over code or data that came *)
(* from the file: what HeapOffImage may lose is only zeroes (system.cpp:267, *)
(* syscall.c:123-148, 848-872).                                              *)
THEOREM FileUntouched == Spec => [](FromFile(program) \cap Given = {})
<1>1. TypeOK => FromFile(program) \cap Given = {}
  <2> SUFFICES ASSUME TypeOK, NEW a \in FromFile(program), a \in Given
               PROVE  FALSE
    OBVIOUS
  <2>1. /\ program \in Programs /\ target_brk \in Int /\ target_brk_limit \in Nat
        /\ target_cur_mmap_ptr \in Int /\ max_elf_addr(program) <= target_brk_limit
    BY Limits, ProgramAssumption DEF TypeOK, SpaceTypeOK
  <2>2. PICK s \in program : a \in s.vaddr .. s.vaddr + s.filesz - 1
    BY DEF FromFile
  <2>3. s \in Segment /\ max_elf_addr(program) \in Nat /\ s.vaddr + s.filesz <= max_elf_addr(program)
    BY <2>1, FileBelowBreak
  <2>4. s.vaddr \in Nat /\ s.filesz \in Nat
    BY <2>3, SpaceAssumption DEF Segment
  <2>5. a \in Int /\ a < max_elf_addr(program)
    BY <2>2, <2>3, <2>4
  <2>6. a >= max_elf_addr(program)
    BY <2>1, <2>3, <2>5 DEF Given, Area
  <2> QED BY <2>3, <2>5, <2>6
<1> QED BY <1>1, TypeCorrect, PTL
=============================================================================
