----------------------------- MODULE ByteLanes ------------------------------
(***************************************************************************)
(* Where the bytes of a datum are.  The guest is big-endian, the host and   *)
(* the data array of the cache are little-endian, and two pieces of code    *)
(* that never meet put the bytes in their places: the shifts and write      *)
(* enables of DCacheDirectMap.sv with the beat swap of the memory           *)
(* controller, and the accessors that the system calls use.                 *)
(*                                                                         *)
(* A value is a function from lanes to bytes, lane 0 the least significant; *)
(* memory is one aligned doubleword, its eight bytes by address.            *)
(***************************************************************************)
EXTENDS Integers

CONSTANTS Contents      \* what a doubleword or a register pair may hold

Lane == 0 .. 7
Byte == 0 .. 255

ASSUME ContentsAssumption == Contents \subseteq [Lane -> Byte]

(* Sizes in bytes, and the aligned offsets of a datum in its doubleword. *)
Sizes == {1, 2, 4, 8}
Offsets(size) == {o \in Lane : o % size = 0}

LeftBy(v, n)  == [k \in Lane |-> IF k >= n THEN v[k - n] ELSE 0]
RightBy(v, n) == [k \in Lane |-> IF k + n \in Lane THEN v[k + n] ELSE 0]

(* The low lanes of a value, the rest copies of its sign or zero.            *)
Extended(v, size, signed) ==
    [k \in Lane |-> IF k < size THEN v[k]
                    ELSE IF signed /\ v[size - 1] >= 128 THEN 255 ELSE 0]

-----------------------------------------------------------------------------
(* The core and the memory controller. *)

(* Between ram and the bus, in both directions. *)
cse502_be64toh(v) == [k \in Lane |-> v[7 - k]]

(* The first word of a pair has the lower address and the even register.     *)
WordsSwapped(v) == [k \in Lane |-> v[(k + 4) % 8]]

(* proc_byte_offset inverted bit by bit: the lane of the datum.              *)
LaneOf(size, o) == size * ((8 \div size) - 1 - (o \div size))

(* Faulty variant: the offset is not inverted. *)
StoredFromOffset(row, size, o, v) ==
    LET half == RightBy(WordsSwapped(v), 4 * (o \div 4))
        data == IF size = 8 THEN WordsSwapped(v) ELSE LeftBy(half, o % 4)
    IN  [k \in Lane |-> IF k \in o .. o + size - 1 THEN data[k] ELSE row[k]]

(* A store that hits: the half that is wanted is moved down, the datum up to *)
(* its lane in it, and its lanes are enabled.                                *)
Stored(row, size, o, v) ==
    LET lane == LaneOf(size, o)
        half == RightBy(WordsSwapped(v), 4 * (o \div 4))
        data == IF size = 8 THEN WordsSwapped(v) ELSE LeftBy(half, lane % 4)
    IN  [k \in Lane |-> IF k \in lane .. lane + size - 1 THEN data[k] ELSE row[k]]

(* A load that hits.  The inverted offset is computed with 64 bits, so its   *)
(* upper bits are ones; the shift of the simulator takes the count mod 64.   *)
LoadShift(size, o) == ((-1 - (o \div size)) * size) % 8

Found(row, size, o) ==
    IF size = 8 THEN WordsSwapped(row) ELSE RightBy(row, LoadShift(size, o))

(* Faulty variant: a signed load is extended with zeroes. *)
WriteBackUnsigned(v, size, signed) == Extended(v, size, FALSE)

(* LDSB, LDSH, LDUB, LDUH, LD and LDD. *)
WriteBack(v, size, signed) == Extended(v, size, signed)

(* The program's store and load, with the way through the cache to ram.      *)
CoreStore(mem, size, o, v) ==
    cse502_be64toh(Stored(cse502_be64toh(mem), size, o, v))

CoreLoad(mem, size, o, signed) ==
    WriteBack(Found(cse502_be64toh(mem), size, o), size, signed)

-----------------------------------------------------------------------------
(* The system calls. *)

(* bswap16, bswap32 and bswap64. *)
bswap(v, size) == [k \in Lane |-> IF k < size THEN v[size - 1 - k] ELSE 0]

(* The host's own loads and stores (ld*_he_p, st*_he_p). *)
LoadHost(mem, size, p) == [k \in Lane |-> IF k < size THEN mem[p + k] ELSE 0]

StoreHost(mem, size, p, v) ==
    [a \in Lane |-> IF a \in p .. p + size - 1 THEN v[a - p] ELSE mem[a]]

(* ldub_p, ldsb_p, ld*_be_p: swapped, then extended like the C type.         *)
LoadTarget(mem, size, p, signed) ==
    Extended(bswap(LoadHost(mem, size, p), size), size, signed)

StoreTarget(mem, size, p, v) == StoreHost(mem, size, p, bswap(v, size))

(* __get_user goes through the unsigned load and a cast to the field's type. *)
get_user(mem, size, p, signed) ==
    Extended(LoadTarget(mem, size, p, size = 4), size, signed)

(* tswap16, tswap32 and tswap64, for fields that are read as host values.    *)
tswap(v, size) == bswap(v, size)

-----------------------------------------------------------------------------
(* What the SPARC architecture says: the byte at the lowest address is the   *)
(* most significant.                                                         *)
BigEndianAt(mem, size, o) ==
    [k \in Lane |-> IF k < size THEN mem[o + size - 1 - k] ELSE 0]

(* A pair in registers has its first word in the low half.                   *)
InRegisters(v, size) == IF size = 8 THEN WordsSwapped(v) ELSE v

=============================================================================
