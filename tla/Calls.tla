------------------------------- MODULE Calls --------------------------------
(***************************************************************************)
(* The cases of do_syscall, region by region in the order of the source:    *)
(* every call that is carried out, under the shape its case has.  A call    *)
(* that a region does not name is answered -ENOSYS: its case jumps to       *)
(* "unimplemented", the preprocessor removes it, or it falls to default;    *)
(* the calls named under nosys stand for all of these.                      *)
(*                                                                         *)
(* Shapes:                                                                 *)
(*   host      the arguments, guest strings and structures are handed to   *)
(*             the host, the result through get_errno back                 *)
(*   buffer    so too, and the host writes into guest memory itself        *)
(*   fill      the host fills a structure of its own, copied to the guest  *)
(*             after !is_error(ret); the pointer is not tested             *)
(*   fillOpt   the same, if the program gave a pointer                     *)
(*   const     nothing happens, the result is a constant                   *)
(*   wide      the result of the host has more bits than the guest's       *)
(* and a shape of its own for each call that fits none of these.            *)
(***************************************************************************)
EXTENDS TLC

Rows(shape, calls) == [c \in calls |-> shape]

FromExit ==
    Rows("exit", {"exit"}) @@ Rows("brk", {"brk"}) @@ Rows("read", {"read"})
    @@ Rows("fillTime", {"time"}) @@ Rows("linkat", {"linkat"})
    @@ Rows("host", {"write", "open", "close", "creat", "link", "unlink", "unlinkat",
                     "chdir", "mknod"})

FromMknodat ==
    Rows("wide", {"lseek"})
    @@ Rows("host", {"mknodat", "chmod", "getpid", "stime", "utime", "utimes",
                     "futimesat", "access"})

FromFaccessat ==
    Rows("nice", {"nice"}) @@ Rows("times", {"times"}) @@ Rows("const", {"sync"})
    @@ Rows("host", {"faccessat", "rename", "renameat", "mkdir", "mkdirat", "rmdir",
                     "dup"})

FromFcntl ==
    Rows("host", {"setpgid", "umask", "chroot", "dup2", "getppid", "getpgrp", "setsid",
                  "sethostname"})

FromSetrlimit ==
    Rows("fill", {"getrlimit", "getrusage", "gettimeofday"})
    @@ Rows("fillOpt", {"select"})
    @@ Rows("host", {"setrlimit", "settimeofday", "symlink", "symlinkat"})

FromUselib ==
    Rows("mmap", {"mmap", "mmap2"}) @@ Rows("munmap", {"munmap"})
    @@ Rows("getpriority", {"getpriority"})
    @@ Rows("host", {"msync", "mlock", "munlock", "munlockall", "truncate", "ftruncate",
                     "fchmod", "fchmodat", "setpriority"})

FromStatfs == Rows("fill", {"statfs", "fstatfs", "statfs64", "fstatfs64"})

FromSendmsg ==
    Rows("buffer", {"syslog"}) @@ Rows("fillOpt", {"setitimer", "getitimer"})
    @@ Rows("fill", {"stat", "lstat", "fstat"})

FromVhangup ==
    Rows("fillOpt", {"sysinfo"}) @@ Rows("exit", {"exit_group"})
    @@ Rows("host", {"vhangup", "fsync"})

FromSetdomainname ==
    Rows("_llseek", {"_llseek"})
    @@ Rows("host", {"setdomainname", "getpgid", "fchdir", "personality"})

FromGetdents == Rows("buffer", {"getdents"})

FromGetdents64 ==
    Rows("buffer", {"getdents64"}) @@ Rows("fillOpt", {"_newselect"})
    @@ Rows("readv", {"readv"}) @@ Rows("writev", {"writev"})
    @@ Rows("_sysctl", {"_sysctl"})
    @@ Rows("host", {"flock", "getsid", "fdatasync", "sched_getscheduler", "sched_yield",
                     "sched_get_priority_max", "sched_get_priority_min"})

(* prctl has three options of its own; the others pass as they are. *)
FromQueryModule ==
    Rows("fillOpt", {"prctl_get_pdeathsig", "sendfile"})
    @@ Rows("buffer", {"prctl_get_name", "getcwd"})
    @@ Rows("host", {"prctl_set_name", "prctl"})

FromTruncate64 ==
    Rows("fill", {"stat64", "lstat64", "fstat64", "fstatat64"})
    @@ Rows("host", {"lchown", "getuid", "getgid", "geteuid", "getegid", "setreuid",
                     "setregid", "fchown", "fchownat"})

FromChown ==
    Rows("host", {"chown", "setuid", "setgid", "setfsuid", "setfsgid", "lchown32",
                  "getuid32", "getgid32", "geteuid32", "getegid32", "setreuid32",
                  "setregid32", "fchown32"})

FromSetresuid32 ==
    Rows("fill", {"getresuid32", "getresgid32"})
    @@ Rows("const", {"madvise", "getpagesize"})
    @@ Rows("host", {"setresuid32", "setresgid32", "chown32", "setuid32", "setgid32",
                     "setfsuid32", "setfsgid32", "gettid"})

FromGetdomainname == Rows("host", {"tee"})

FromEventfd == Rows("nosys", {"eventfd", "fallocate", "epoll_pwait", "prlimit64"})

FromTimers == Rows("host", {"unshare"}) @@ Rows("nosys", {"timer_create", "setns"})

(* Calls that have a number but no case, in the order of their numbers. *)
NumberedLow ==
    Rows("nosys", {"perfctr", "execv", "pciconfig_read", "pciconfig_write"})

NumberedHigh ==
    Rows("nosys", {"clock_settime", "mq_notify", "io_setup", "preadv", "signalfd",
                   "process_vm_readv", "kern_features"})

Shape ==
    FromExit @@ FromMknodat @@ FromFaccessat @@ FromFcntl @@ FromSetrlimit @@ FromUselib
    @@ FromStatfs @@ FromSendmsg @@ FromVhangup @@ FromSetdomainname @@ FromGetdents
    @@ FromGetdents64 @@ FromQueryModule @@ FromTruncate64 @@ FromChown
    @@ FromSetresuid32 @@ FromGetdomainname @@ FromEventfd @@ FromTimers
    @@ NumberedLow @@ NumberedHigh
=============================================================================
