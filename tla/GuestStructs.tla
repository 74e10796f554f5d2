---------------------------- MODULE GuestStructs ----------------------------
(***************************************************************************)
(* The structures of sparc-linux/syscall_defs.h that system calls read from *)
(* the program or fill for it.  The program was compiled with the layout of *)
(* a 32-bit machine; the emulation declares the same structures to the      *)
(* compiler of a 64-bit host, with the types of abitypes.h in the places    *)
(* where the sizes differ, and fills them field by field in its own order.  *)
(***************************************************************************)
EXTENDS Integers, SequencesExt

(* Bytes of a C type for either compiler, which is its alignment as well.    *)
GuestBytes == [char |-> 1, short |-> 2, int |-> 4, long |-> 4, llong |-> 8]
HostBytes  == [char |-> 1, short |-> 2, int |-> 4, long |-> 8, llong |-> 8]

(* Faulty variant: abi_long is the host's long. *)
abi_types_long == [abi_long |-> "long", uint64_t |-> "llong"]

(* What the declared types are for the host, and for the program.            *)
abi_types == [abi_long |-> "int", uint64_t |-> "llong"]

GuestTypes == [abi_long |-> "long", uint64_t |-> "llong"]

(* The bytes of each field of a structure, for either. *)
OnHost(struct) ==
    [i \in DOMAIN struct |->
        LET type == struct[i].type
        IN  HostBytes[IF type \in DOMAIN abi_types THEN abi_types[type] ELSE type]]
OnGuest(struct) ==
    [i \in DOMAIN struct |->
        LET type == struct[i].type
        IN  GuestBytes[IF type \in DOMAIN GuestTypes THEN GuestTypes[type] ELSE type]]

(* A structure is the sequence of its fields; padding has no name.           *)
Field(type, name) == [type |-> type, name |-> name]
Fields(type, names) == [i \in DOMAIN names |-> Field(type, names[i])]
Pad(type, count) == [i \in 1 .. count |-> Field(type, "")]

timeval(of) == Fields("abi_long", <<of \o "tv_sec", of \o "tv_usec">>)

target_timezone == Fields("int", <<"tz_minuteswest", "tz_dsttime">>)

target_utimbuf == Fields("abi_long", <<"actime", "modtime">>)

target_iovec == Fields("abi_long", <<"iov_base", "iov_len">>)

target_rlimit == Fields("abi_long", <<"rlim_cur", "rlim_max">>)

target_itimerval == timeval("it_interval.") \o timeval("it_value.")

target_tms == Fields("abi_long", <<"tms_utime", "tms_stime", "tms_cutime", "tms_cstime">>)

target_rusage ==
    timeval("ru_utime.") \o timeval("ru_stime.")
    \o Fields("abi_long", <<"ru_maxrss", "ru_ixrss", "ru_idrss", "ru_isrss", "ru_minflt",
                            "ru_majflt", "ru_nswap", "ru_inblock", "ru_oublock",
                            "ru_msgsnd", "ru_msgrcv", "ru_nsignals", "ru_nvcsw",
                            "ru_nivcsw">>)

target_stat ==
    Fields("short", <<"st_dev">>) \o Fields("abi_long", <<"st_ino">>)
    \o Fields("short", <<"st_mode", "st_nlink", "st_uid", "st_gid", "st_rdev">>)
    \o Fields("abi_long", <<"st_size", "st_atime">>) \o Pad("abi_long", 1)
    \o Fields("abi_long", <<"st_mtime">>) \o Pad("abi_long", 1)
    \o Fields("abi_long", <<"st_ctime">>) \o Pad("abi_long", 1)
    \o Fields("abi_long", <<"st_blksize", "st_blocks">>) \o Pad("abi_long", 2)

target_stat64 ==
    Pad("char", 6) \o Fields("short", <<"st_dev">>) \o Fields("uint64_t", <<"st_ino">>)
    \o Fields("int", <<"st_mode", "st_nlink", "st_uid", "st_gid">>)
    \o Pad("char", 6) \o Fields("short", <<"st_rdev">>) \o Pad("char", 8)
    \o Fields("uint64_t", <<"st_size">>) \o Fields("int", <<"st_blksize">>)
    \o Pad("char", 8) \o Fields("int", <<"st_blocks", "st_atime">>) \o Pad("int", 1)
    \o Fields("int", <<"st_mtime">>) \o Pad("int", 1)
    \o Fields("int", <<"st_ctime">>) \o Pad("int", 3)

Counts == <<"f_blocks", "f_bfree", "f_bavail", "f_files", "f_ffree">>

statfs(type) ==
    Fields("int", <<"f_type", "f_bsize">>) \o Fields(type, Counts)
    \o Fields("int", <<"f_fsid.0", "f_fsid.1", "f_namelen", "f_frsize">>) \o Pad("int", 5)

target_sysinfo ==
    Fields("abi_long", <<"uptime", "loads.0", "loads.1", "loads.2", "totalram", "freeram",
                         "sharedram", "bufferram", "totalswap", "freeswap">>)
    \o Fields("short", <<"procs">>) \o Pad("short", 1)
    \o Fields("abi_long", <<"totalhigh", "freehigh">>) \o Fields("int", <<"mem_unit">>)
    \o Pad("char", 8)

-----------------------------------------------------------------------------
(* The fields that a call assigns, in its order. *)
Names(struct) == SelectSeq([i \in DOMAIN struct |-> struct[i].name], LAMBDA n : n # "")

fill_times == <<"st_atime", "st_mtime", "st_ctime">>

do_stat ==
    <<"st_dev", "st_ino", "st_mode", "st_uid", "st_gid", "st_nlink", "st_rdev", "st_size",
      "st_blksize", "st_blocks">> \o fill_times

host_to_target_stat64 ==
    <<"st_dev", "st_ino", "st_mode", "st_nlink", "st_uid", "st_gid", "st_rdev", "st_size",
      "st_blksize", "st_blocks">> \o fill_times

(* Structures by the call that fills or reads them. *)
Fill(struct, names) == [fields |-> struct, fills |-> names, reads |-> {}]
FillAll(struct) == Fill(struct, Names(struct))
ReadAll(struct) == [fields |-> struct, fills |-> <<>>, reads |-> ToSet(Names(struct))]

host_to_target_rusage == FillAll(target_rusage)
copy_to_user_timeval == FillAll(timeval(""))
copy_from_user_timeval == ReadAll(timeval(""))
copy_from_user_timezone == ReadAll(target_timezone)

Structs ==
    {host_to_target_rusage, copy_to_user_timeval, copy_from_user_timeval,
     copy_from_user_timezone, ReadAll(target_utimbuf), ReadAll(target_iovec),
     ReadAll(target_rlimit), FillAll(target_rlimit),
     ReadAll(target_itimerval), FillAll(target_itimerval), FillAll(target_tms),
     Fill(target_stat, do_stat), Fill(target_stat64, host_to_target_stat64),
     FillAll(statfs("int")), FillAll(statfs("uint64_t")), FillAll(target_sysinfo)}

(* The tables above: every name is given to one field, a call that fills a   *)
(* structure assigns each of them, and one that reads it asks for no other.  *)
FieldTypes == {"char", "short", "int", "abi_long", "uint64_t"}

ASSUME StructsAssumption ==
    \A s \in Structs :
        /\ s.fields \in Seq([type : FieldTypes, name : STRING]) /\ s.fills \in Seq(STRING)
        /\ \A i, j \in DOMAIN s.fields :
              s.fields[i].name = s.fields[j].name /\ i # j => s.fields[i].name = ""
        /\ ToSet(s.fills) \cup s.reads \subseteq {s.fields[i].name : i \in DOMAIN s.fields} \ {""}
        /\ s.fills # <<>> => \A i \in DOMAIN s.fields :
                                 s.fields[i].name \in ToSet(s.fills) \cup {""}

-----------------------------------------------------------------------------
(* Where a compiler places fields of these widths, each aligned to its own.  *)
RoundUp(n, align) == ((n + align - 1) \div align) * align

PlacesIn(widths) ==
    LET end[i \in 0 .. Len(widths)] ==
            IF i = 0 THEN 0 ELSE RoundUp(end[i - 1], widths[i]) + widths[i]
    IN  [i \in DOMAIN widths |-> end[i] - widths[i]]

(* sizeof, which the emulation clears: up to the largest alignment. *)
SizeOf(widths) ==
    RoundUp(PlacesIn(widths)[Len(widths)] + widths[Len(widths)],
            Max({widths[i] : i \in DOMAIN widths}))

FieldOf(struct, name) == CHOOSE i \in DOMAIN struct : struct[i].name = name

(* A value has eight lanes, the least significant first: bytes of its own,   *)
(* and above them its sign, as the declared type extends it.                 *)
Extension == <<"", 0>>

(* Bytes of what a call has to tell, by field: the members of the host's own *)
(* structures, and what the code has made of a limit.                        *)
KernelBytes(name) ==
    CASE name = "procs" -> 2
      [] name \in {"st_mode", "st_uid", "st_gid", "f_fsid.0", "f_fsid.1", "mem_unit",
                   "rlim_cur", "rlim_max"} -> 4
      [] OTHER -> 8

(* Values that need so many bytes, or all that their member has.             *)
HostValues(struct, need) ==
    [n \in {struct[i].name : i \in DOMAIN struct} |->
        [k \in 0 .. 7 |-> IF k < need /\ k < KernelBytes(n) THEN <<n, k>> ELSE Extension]]

(* __put_user of one field: what its declared type keeps of the value, the   *)
(* most significant byte first.                                              *)
Put(struct, mem, name, value) ==
    LET i == FieldOf(struct, name)
        at == PlacesIn(OnHost(struct))[i]
        width == OnHost(struct)[i]
    IN  [a \in DOMAIN mem \cup at .. at + width - 1 |->
            IF a \in at .. at + width - 1 THEN value[width - 1 - (a - at)] ELSE mem[a]]

Filled(struct, fills, values) ==
    LET mem[k \in 0 .. Len(fills)] ==
            IF k = 0 THEN <<>> ELSE Put(struct, mem[k - 1], fills[k], values[fills[k]])
    IN  mem[Len(fills)]

(* Lane k of field i, for a compiler that gives the fields these widths.     *)
Place(widths, i, k) == PlacesIn(widths)[i] + widths[i] - 1 - k

(* The structure with these values, as the program lays it out. *)
Laid(struct, values) ==
    LET widths == OnGuest(struct)
        lanes == {p \in (DOMAIN struct) \X (0 .. 7) :
                     struct[p[1]].name # "" /\ p[2] < widths[p[1]]}
    IN  [a \in {Place(widths, p[1], p[2]) : p \in lanes} |->
            LET q == CHOOSE p \in lanes : Place(widths, p[1], p[2]) = a
            IN  values[struct[q[1]].name][q[2]]]

(* What the program reads in field i of such a memory, and whether the field *)
(* has room for a value that needs so many bytes.                            *)
Received(struct, mem, i) ==
    LET widths == OnGuest(struct)
    IN  [k \in 0 .. 7 |-> IF k < widths[i] THEN mem[Place(widths, i, k)] ELSE Extension]

Fits(struct, i, need) ==
    need <= OnGuest(struct)[i] \/ KernelBytes(struct[i].name) <= OnGuest(struct)[i]

(* Every byte of a structure that the program wrote, by its field and lane.  *)
Own(struct) ==
    [n \in {struct[i].name : i \in DOMAIN struct} |-> [k \in 0 .. 7 |-> <<n, k>>]]

(* __get_user: what the emulation finds at the lanes of the fields it reads. *)
ReadFrom(struct, reads) ==
    LET widths == OnHost(struct)
        mem == Laid(struct, Own(struct))
        lanes == {p \in (DOMAIN struct) \X (0 .. 7) :
                     struct[p[1]].name \in reads /\ p[2] < widths[p[1]]}
    IN  [q \in {<<struct[p[1]].name, p[2]>> : p \in lanes} |->
            LET a == Place(widths, FieldOf(struct, q[1]), q[2])
            IN  IF a \in DOMAIN mem THEN mem[a] ELSE Extension]
=============================================================================
