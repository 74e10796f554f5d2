------------------------------ MODULE MCFarData -------------------------------
(***************************************************************************)
(* A program whose data are more than a megabyte apart.  stored remembers   *)
(* what it was loaded with and has stored since, by the addresses it used.  *)
(***************************************************************************)
EXTENDS MCMemorySystem

VARIABLE stored

(* A store is done when it is acknowledged. *)
Remember ==
    stored' = IF access.up /\ access.store /\ ~dcRegs.ack /\ dcRegs'.ack
              THEN [stored EXCEPT ![access.alures][access.word] = access.value]
              ELSE stored

FarSpec ==
    /\ Init /\ stored = [l \in DataLines |-> InitRam[l]]
    /\ [][Next /\ Remember]_<<vars, stored>>

(* The data returned by a read is that of the last write to the same memory  *)
(* address (hw2/README:54-57; Mem.sv:116 puts 20 bits of it on the port).    *)
LoadsLastStored ==
    access.up /\ dcRegs.ack /\ ~access.store =>
        dcRegs.dataOut = stored[access.alures][access.word]
=============================================================================
