----------------------------- MODULE MCSyscalls -----------------------------
(***************************************************************************)
(* A small guest: pages of four bytes, sixteen of them, in a word four      *)
(* times as large as memory, as in the code.  The conversions keep no       *)
(* state: each is tried from the beginning, with longs of four bits on a    *)
(* host with six, vectors and command lines of up to three, doublewords     *)
(* with all signs.                                                          *)
(***************************************************************************)
EXTENDS Syscalls, Marshalling

GuestInit == Init /\ PassInit

Calling == passed = Nothing /\ Next /\ UNCHANGED passed

Converting == call = NoCall /\ errno = 0 /\ Pass /\ UNCHANGED vars

GuestSpec == GuestInit /\ [][Calling \/ Converting]_<<vars, passed>>

PtLoad(vaddr, filesz, memsz) == [vaddr |-> vaddr, filesz |-> filesz, memsz |-> memsz]

(* Text and data, the bss inside the last page of the data. *)
MCPrograms == {{PtLoad(0, 3, 3)}, {PtLoad(0, 3, 3), PtLoad(4, 2, 4)}, {PtLoad(1, 3, 3), PtLoad(4, 1, 2)}}

(* The bss needs a page of its own. *)
MCBssPrograms == {{PtLoad(0, 3, 6)}}

(* A call of every shape. *)
MCUsed ==
    {"write", "linkat", "lseek", "read", "syslog", "statfs", "select", "time", "times", "_llseek",
     "nice", "getpriority", "readv", "writev", "sync", "eventfd", "_sysctl", "exit",
     "brk", "mmap", "mmap2", "munmap"}

(* No request near the end of the word. *)
MCRequests == {0, 1, 4, 5, 7, 8, 9, 13, 16, 17, 40, 100}

MCLengths == {-1, 0, 1, 2, 3, 4, 6}

(* All bytes different, without signs, with signs, and with both. *)
MCContents ==
    {[k \in Lane |-> k + 1], [k \in Lane |-> k + 200],
     [k \in Lane |-> IF k % 2 = 0 THEN k + 100 ELSE k + 150]}
=============================================================================
