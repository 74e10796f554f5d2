---------------------------- MODULE AddressSpace ----------------------------
(***************************************************************************)
(* Guest memory as the loader and sparc-linux/syscall.c hand it out: the    *)
(* program's segments, the break behind them up to a quarter of memory, and *)
(* mappings from there up to a half, with the 32-bit arithmetic of          *)
(* abi_ulong.                                                               *)
(***************************************************************************)
EXTENDS Integers, FiniteSetsExt

CONSTANTS
    PageSize,   \* 4096
    WordSize,   \* 2^32, where an abi_ulong wraps
    MaxMem,     \* bytes of guest memory: 2^30
    Programs,   \* the programs that may be loaded, each a set of segments
    ENOMEM, EINVAL

Segment == [vaddr : 0 .. MaxMem, filesz : 0 .. MaxMem, memsz : 0 .. MaxMem]

ASSUME SpaceAssumption ==
    /\ PageSize \in Nat \ {0}
    /\ WordSize \in Nat /\ WordSize > 3 /\ MaxMem \in Nat /\ 4 * MaxMem <= WordSize

ASSUME ErrnoAssumption ==
    ENOMEM \in Nat \ {0} /\ EINVAL \in Nat \ {0}

VARIABLES program, target_brk, target_cur_mmap_ptr

target_brk_limit  == MaxMem \div 4
target_mmap_limit == MaxMem \div 2

(* Faulty variant: the break starts behind the last byte itself, on no page. *)
max_elf_addr_unaligned(p) == Max({0} \cup {s.vaddr + s.filesz : s \in p})

(* The loader: every PT_LOAD segment is zeroed over memsz bytes and filled   *)
(* with filesz bytes of the file; the break starts on the page behind the    *)
(* last byte that came from the file.                                        *)
max_elf_addr(p) ==
    LET end == Max({0} \cup {s.vaddr + s.filesz : s \in p})
    IN  ((end + PageSize - 1) \div PageSize) * PageSize

(* A program fits below the limit of the break; the loader does not check.   *)
ASSUME ProgramAssumption ==
    /\ Programs \subseteq SUBSET Segment
    /\ \A p \in Programs : max_elf_addr(p) \in 0 .. target_brk_limit

Loaded(p) == UNION {s.vaddr .. s.vaddr + s.memsz - 1 : s \in p}

SpaceInit ==
    /\ program \in Programs
    /\ target_brk = max_elf_addr(program)
    /\ target_cur_mmap_ptr = target_brk_limit

(* HOST_PAGE_ALIGN and TARGET_PAGE_ALIGN: the sum wraps before it is masked. *)
PageAlign(n) ==
    LET sum == (n + PageSize - 1) % WordSize IN sum - (sum % PageSize)

(* Faulty variant: a shrinking request is carried out. *)
BreakAfterShrinking(n) ==
    IF n # 0 /\ PageAlign(n) <= target_brk_limit THEN PageAlign(n) ELSE target_brk

(* Where the break is after brk(n).  A shrinking request is not refused and  *)
(* not carried out.                                                          *)
BreakAfter(n) ==
    IF n # 0 /\ n >= target_brk /\ PageAlign(n) <= target_brk_limit
    THEN PageAlign(n) ELSE target_brk

do_brk(n) ==
    /\ target_brk' = BreakAfter(n)
    /\ UNCHANGED <<program, target_cur_mmap_ptr>>

(* Faulty variant: the length is forgotten. *)
MapFitsSomehow(len) == target_cur_mmap_ptr < target_mmap_limit

(* Mappings of files and at fixed addresses are refused. *)
MapFits(len) == (PageAlign(len) + target_cur_mmap_ptr) % WordSize < target_mmap_limit

MapErrno(len, anonymous) ==
    CASE ~anonymous    -> EINVAL
      [] ~MapFits(len) -> ENOMEM
      [] OTHER         -> 0

target_mmap(len, anonymous) ==
    /\ target_cur_mmap_ptr' =
          IF MapErrno(len, anonymous) = 0
          THEN (target_cur_mmap_ptr + PageAlign(len)) % WordSize
          ELSE target_cur_mmap_ptr
    /\ UNCHANGED <<program, target_brk>>

(* munmap succeeds and gives nothing back. *)
target_munmap == UNCHANGED <<program, target_brk, target_cur_mmap_ptr>>

-----------------------------------------------------------------------------
SpaceTypeOK ==
    /\ program \in Programs
    /\ target_brk \in 0 .. target_brk_limit
    /\ target_cur_mmap_ptr \in target_brk_limit .. target_mmap_limit

(* What the program adds to its heap (syscall.c:135-138 zeroes it) holds     *)
(* none of the program's own code, data or bss.                              *)
HeapOffImage == Loaded(program) \cap (max_elf_addr(program) .. target_brk - 1) = {}
=============================================================================
