------------------------------ MODULE Syscalls ------------------------------
(***************************************************************************)
(* The system calls of sparc-linux/syscall.c: one action per shape of case  *)
(* (Calls), over the state they keep (AddressSpace, errno and the exit      *)
(* flag).  The host kernel may answer any call with success or an error.    *)
(* lock_user and lock_user_string are g2h, which is never NULL, so of the   *)
(* EFAULT paths of the source only that of linkat can be taken, which tests *)
(* the program's pointers themselves; the others are left out.              *)
(***************************************************************************)
EXTENDS AddressSpace, Calls

CONSTANTS
    Used,       \* the calls the program makes; calls of one shape are alike
    Requests,   \* sizes and addresses that brk and mmap are called with
    HostErrors, \* errno values the host may set
    MaxErrno,   \* results from -MaxErrno to -1 are errors: 4096
    ENOSYS, ENOTDIR, EFAULT

ASSUME CallAssumption ==
    /\ Used \subseteq DOMAIN Shape /\ "none" \notin Used
    /\ MaxErrno \in Nat /\ 2 * MaxErrno <= WordSize
    /\ HostErrors \cup {ENOSYS, ENOTDIR, EFAULT, ENOMEM, EINVAL} \subseteq 1 .. MaxErrno

(* No request is so near the end of the word that rounding it up to a page,  *)
(* or adding it to the mappings, wraps: the code does not look.              *)
ASSUME RequestAssumption ==
    /\ Requests \subseteq 0 .. WordSize - 1
    /\ \A n \in Requests : n + PageSize + MaxMem < WordSize

VARIABLES
    errno,              \* the host's, which a success leaves alone
    target_exit_called,
    call                \* the last call and what became of it

space == <<program, target_brk, target_cur_mmap_ptr>>
vars == <<space, errno, target_exit_called, call>>

CallsOf(shape) == {c \in Used : Shape[c] = shape}

(* failed: the host or the emulation refused it, with this errno (0: none).  *)
(* wrote: guest memory was written.  given: the program passed a pointer.    *)
Call == [name : Used \cup {"none"}, ret : Int, failed : 0 .. MaxErrno,
         wrote : BOOLEAN, given : BOOLEAN, size : 0 .. WordSize - 1]

NoCall == [name |-> "none", ret |-> 0, failed |-> 0, wrote |-> FALSE,
           given |-> FALSE, size |-> 0]

-----------------------------------------------------------------------------
(* An abi_long keeps the low bits of a host value. *)
abi_long(v) ==
    LET low == v % WordSize IN IF 2 * low >= WordSize THEN low - WordSize ELSE low

is_error(ret) == ret \in -MaxErrno .. -1

(* The table of syscall.c maps every errno it lists to the same number and   *)
(* the function passes the others on.                                        *)
ListedErrors == 35 .. 131
host_to_target_errno_table == [e \in ListedErrors |-> e]
host_to_target_errno(err) ==
    IF err \in ListedErrors THEN host_to_target_errno_table[err] ELSE err

(* Takes the -1 of a host function; e is errno at that moment. *)
get_errno(ret, e) == IF ret = -1 THEN -host_to_target_errno(e) ELSE ret

(* What a host function may do, when it can return these values. *)
Outcomes(values) ==
    [value : values, errno : {errno}, failed : {0}]
    \cup {[value |-> -1, errno |-> e, failed |-> e] : e \in HostErrors}

Small == {0, 3}
Wide == Small \cup {WordSize - 1, WordSize - 3}
Levels == {-20, -1, 19}

(* The record of a call that the host answered with o. *)
Answer(c, ret, o, wrote, given) ==
    /\ call' = [NoCall EXCEPT !.name = c, !.ret = ret, !.failed = o.failed,
                              !.wrote = wrote, !.given = given]
    /\ errno' = o.errno
    /\ UNCHANGED <<space, target_exit_called>>

(* A call that the emulation answers by itself. *)
Emulated(c, ret, failed) == Answer(c, ret, [failed |-> failed, errno |-> errno], FALSE, FALSE)

-----------------------------------------------------------------------------
HostCall(c) ==
    \E o \in Outcomes(Small) : Answer(c, get_errno(o.value, o.errno), o, FALSE, FALSE)

(* A NULL path is refused before the host is asked. *)
LinkatCall(c) == Emulated(c, -EFAULT, EFAULT) \/ HostCall(c)

(* lseek: the offset of the host is cut to 32 bits before it is looked at.   *)
WideCall(c) ==
    \E o \in Outcomes(Wide) :
        Answer(c, get_errno(abi_long(o.value), o.errno), o, FALSE, FALSE)

(* The host writes as much as it says it did. *)
BufferCall(c) ==
    \E o \in Outcomes(Small) :
        Answer(c, get_errno(o.value, o.errno), o, o.failed = 0 /\ o.value > 0, TRUE)

(* A read of no bytes does not reach the host. *)
ReadCall(c) == Emulated(c, 0, 0) \/ BufferCall(c)

(* Faulty variant: the structure is copied whatever the host answered. *)
FillCallAlways(c) ==
    \E o \in Outcomes(Small) : Answer(c, get_errno(o.value, o.errno), o, TRUE, TRUE)

FillCall(c) ==
    \E o \in Outcomes(Small) :
        LET ret == get_errno(o.value, o.errno)
        IN  Answer(c, ret, o, ~is_error(ret), TRUE)

FillOptCall(c) ==
    \E o \in Outcomes(Small), given \in BOOLEAN :
        LET ret == get_errno(o.value, o.errno)
        IN  Answer(c, ret, o, ~is_error(ret) /\ given, given)

TimeCall(c) ==
    \E o \in Outcomes(Wide), given \in BOOLEAN :
        LET ret == get_errno(abi_long(o.value), o.errno)
        IN  Answer(c, ret, o, ~is_error(ret) /\ given, given)

(* times fills the structure before it looks at the result, which cannot be  *)
(* a failure of the host: its only argument is the emulation's own.          *)
TimesCall(c) ==
    \E v \in Wide, given \in BOOLEAN :
        Answer(c, get_errno(abi_long(v), errno), [failed |-> 0, errno |-> errno], given, given)

(* The 64-bit offset is compared before it is cut, and stored for the guest. *)
SeekCall(c) ==
    \E o \in Outcomes(Wide) :
        LET ret == IF o.value = -1 THEN get_errno(o.value, o.errno) ELSE 0
        IN  Answer(c, ret, o, ret = 0, TRUE)

(* nice returns a level, which may be -1; errno is not reset before.         *)
NiceCall(c) ==
    \E o \in Outcomes(Levels) : Answer(c, get_errno(o.value, o.errno), o, FALSE, FALSE)

(* Faulty variant: the level is returned as it is. *)
PriorityCallUnbiased(c) ==
    \E o \in Outcomes(Levels) :
        LET e == IF o.failed = 0 THEN 0 ELSE o.errno
        IN  Answer(c, IF o.value = -1 /\ e # 0 THEN -host_to_target_errno(e) ELSE o.value,
                   [o EXCEPT !.errno = e], FALSE, FALSE)

(* getpriority resets errno, so -1 with errno 0 is a level; the level is      *)
(* returned as 20 minus it.                                                  *)
PriorityCall(c) ==
    \E o \in Outcomes(Levels) :
        LET e == IF o.failed = 0 THEN 0 ELSE o.errno
        IN  Answer(c, IF o.value = -1 /\ e # 0 THEN -host_to_target_errno(e) ELSE 20 - o.value,
                   [o EXCEPT !.errno = e], FALSE, FALSE)

(* lock_iovec refuses a bad vector with an errno of its own; a count of 0 is *)
(* "refused" with errno 0, which the case returns as 0.                      *)
BadVector(c) ==
    \E e \in {0, EINVAL, ENOMEM} :
        Answer(c, -host_to_target_errno(e), [failed |-> e, errno |-> e], FALSE, TRUE)

ReadvCall(c)  == BadVector(c) \/ BufferCall(c)
WritevCall(c) == BadVector(c) \/ HostCall(c)

ConstCall(c) == \E v \in {0, PageSize} : Emulated(c, v, 0)

NotImplemented(c) == Emulated(c, -ENOSYS, ENOSYS)

SysctlCall(c) == Emulated(c, -ENOTDIR, ENOTDIR)

(* ret is not assigned: the program is not resumed to see it. *)
ExitCall(c) ==
    /\ target_exit_called' = TRUE
    /\ \E v \in Small : call' = [NoCall EXCEPT !.name = c, !.ret = v]
    /\ UNCHANGED <<space, errno>>

BrkCall(c) ==
    \E n \in Requests :
        /\ do_brk(n)
        /\ call' = [NoCall EXCEPT !.name = c, !.ret = BreakAfter(n), !.size = n]
        /\ UNCHANGED <<errno, target_exit_called>>

MmapCall(c) ==
    \E n \in Requests, anonymous \in BOOLEAN :
        LET refused == MapErrno(n, anonymous)
            e == IF refused # 0 THEN refused ELSE errno
            p == IF refused # 0 THEN -1 ELSE target_cur_mmap_ptr
        IN  /\ target_mmap(n, anonymous)
            /\ errno' = e
            /\ call' = [NoCall EXCEPT !.name = c, !.ret = get_errno(p, e),
                                      !.failed = refused, !.size = n]
            /\ UNCHANGED target_exit_called

MunmapCall(c) ==
    /\ target_munmap
    /\ call' = [NoCall EXCEPT !.name = c]
    /\ UNCHANGED <<errno, target_exit_called>>

-----------------------------------------------------------------------------
Init ==
    /\ SpaceInit
    /\ errno \in {0} \cup HostErrors
    /\ target_exit_called = FALSE
    /\ call = NoCall

(* do_syscall.  After exit the simulation loop ends (main.cpp:96). *)
do_syscall ==
    \/ \E c \in CallsOf("host")        : HostCall(c)
    \/ \E c \in CallsOf("linkat")      : LinkatCall(c)
    \/ \E c \in CallsOf("wide")        : WideCall(c)
    \/ \E c \in CallsOf("buffer")      : BufferCall(c)
    \/ \E c \in CallsOf("read")        : ReadCall(c)
    \/ \E c \in CallsOf("fill")        : FillCall(c)
    \/ \E c \in CallsOf("fillOpt")     : FillOptCall(c)
    \/ \E c \in CallsOf("fillTime")    : TimeCall(c)
    \/ \E c \in CallsOf("times")       : TimesCall(c)
    \/ \E c \in CallsOf("_llseek")     : SeekCall(c)
    \/ \E c \in CallsOf("nice")        : NiceCall(c)
    \/ \E c \in CallsOf("getpriority") : PriorityCall(c)
    \/ \E c \in CallsOf("readv")       : ReadvCall(c)
    \/ \E c \in CallsOf("writev")      : WritevCall(c)
    \/ \E c \in CallsOf("const")       : ConstCall(c)
    \/ \E c \in CallsOf("nosys")       : NotImplemented(c)
    \/ \E c \in CallsOf("_sysctl")     : SysctlCall(c)
    \/ \E c \in CallsOf("exit")        : ExitCall(c)
    \/ \E c \in CallsOf("brk")         : BrkCall(c)
    \/ \E c \in CallsOf("mmap")        : MmapCall(c)
    \/ \E c \in CallsOf("munmap")      : MunmapCall(c)

Next == ~target_exit_called /\ do_syscall

Spec == Init /\ [][Next]_vars

-----------------------------------------------------------------------------
TypeOK ==
    /\ SpaceTypeOK
    /\ errno \in 0 .. MaxErrno
    /\ target_exit_called \in BOOLEAN
    /\ call \in Call

(* Calls whose result can be mistaken for an error: an offset or a time in   *)
(* the last MaxErrno values below 2^32, and the level -1 of nice.            *)
Ambiguous ==
    CallsOf("wide") \cup CallsOf("fillTime") \cup CallsOf("times") \cup CallsOf("nice")

(* The program can tell a failure from a success, and is told the errno of   *)
(* this failure and not of an earlier call (the comment at syscall.c:1732).  *)
FailureTold ==
    call.name \notin Ambiguous =>
        /\ is_error(call.ret) <=> call.failed # 0
        /\ call.failed # 0 => call.ret = -call.failed

(* A call that failed has left guest memory alone; a call that fills a       *)
(* structure and succeeded has filled it if there was one to fill.           *)
FilledIffDone ==
    /\ call.failed # 0 => ~call.wrote
    /\ call.name \in CallsOf("fill") \cup CallsOf("fillOpt") /\ call.failed = 0 =>
           (call.wrote <=> call.given)

(* Memory requests: what the program may rely on (Areas). *)
Area(from, to) == from .. to - 1

Request ==
    CASE call.name \in CallsOf("brk") ->
            [kind |-> "break", size |-> call.size, at |-> call.ret,
             ok |-> call.size <= call.ret]
      [] call.name \in CallsOf("mmap") ->
            [kind |-> "map", size |-> call.size, at |-> call.ret, ok |-> call.failed = 0]
      [] OTHER -> [kind |-> "none", size |-> 0, at |-> 0, ok |-> TRUE]

Promise == INSTANCE Areas WITH
    Limit <- MaxMem,
    heap <- Area(0, target_brk),
    granted <- Area(target_brk_limit, target_cur_mmap_ptr),
    reply <- Request

ImplementsAreas == Promise!Spec
=============================================================================
