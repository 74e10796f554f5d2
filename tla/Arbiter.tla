------------------------------ MODULE Arbiter ------------------------------
(***************************************************************************)
(* Arbiter.sv: the FSM that shares the one bus port of the core between    *)
(* the two caches.  Its only register is p_state; everything else is wires *)
(* computed from that register, the two request lines and the bus inputs.  *)
(***************************************************************************)

VARIABLE owner          \* p_state: "I" idle, "A" I-cache, "B" D-cache

States == {"I", "A", "B"}

TypeOK == owner \in States

Init == owner = "I"

(* Faulty variant: the I-cache takes the bus from an owner in STATEB.       *)
DriverWithoutOwner(icReqcyc, dcReqcyc) ==
    CASE icReqcyc              -> "ic"
      [] ~icReqcyc /\ dcReqcyc -> "dc"
      [] OTHER                 -> "none"

(* Which cache drives bus_reqcyc, bus_req and bus_reqtag in this cycle.     *)
(* From idle the I-cache has priority; an owner that lowered its request    *)
(* leaves the bus idle for the one cycle in which the FSM returns to "I".   *)
Driver(icReqcyc, dcReqcyc) ==
    CASE owner # "B" /\ icReqcyc              -> "ic"
      [] owner = "I" /\ ~icReqcyc /\ dcReqcyc -> "dc"
      [] owner = "B" /\ dcReqcyc              -> "dc"
      [] OTHER                                -> "none"

(* Routing of bus_reqack.  In the idle cycle of an owner the acknowledgement *)
(* still reaches the cache that owned the bus (lines 115 and 147).           *)
IcReqack(icReqcyc, busReqack) ==
    busReqack /\ \/ owner = "A"
                 \/ owner = "I" /\ icReqcyc

DcReqack(icReqcyc, dcReqcyc, busReqack) ==
    busReqack /\ \/ owner = "B"
                 \/ owner = "I" /\ ~icReqcyc /\ dcReqcyc

(* n_state, latched at the rising edge. *)
Step(icReqcyc, dcReqcyc) ==
    owner' = CASE Driver(icReqcyc, dcReqcyc) = "ic"   -> "A"
               [] Driver(icReqcyc, dcReqcyc) = "dc"   -> "B"
               [] Driver(icReqcyc, dcReqcyc) = "none" -> "I"
=============================================================================
