------------------------------- MODULE Areas --------------------------------
(***************************************************************************)
(* What a program may rely on when it asks for memory: the heap is one area *)
(* that only grows at its end, a mapping is an area nobody had before, and  *)
(* a request that is refused changes nothing.  Addresses are bytes.         *)
(***************************************************************************)
EXTENDS Naturals

CONSTANTS Limit     \* a natural number: no area reaches this address

VARIABLES
    heap,       \* the addresses below the break
    granted,    \* the addresses handed out as mappings
    reply       \* the last request and its answer

Area(from, size) == from .. from + size - 1

NoReply == [kind |-> "none", size |-> 0, at |-> 0, ok |-> TRUE]

Init ==
    /\ \E end \in 0 .. Limit : heap = Area(0, end)
    /\ granted = {}
    /\ reply = NoReply

(* The answer to a request for a break is where the break now is; the        *)
(* program sees from it whether it got what it asked for.                    *)
Break ==
    /\ reply'.kind = "break"
    /\ heap' = Area(0, reply'.at)
    /\ heap \subseteq heap' /\ heap' \cap granted = {}
    /\ reply'.ok <=> reply'.size <= reply'.at
    /\ ~reply'.ok => heap' = heap
    /\ granted' = granted

Map ==
    /\ reply'.kind = "map"
    /\ \/ /\ reply'.ok
          /\ LET area == Area(reply'.at, reply'.size)
             IN  /\ area \subseteq granted' \ (granted \cup heap)
                 /\ area \subseteq 0 .. Limit - 1
          /\ granted \subseteq granted' /\ granted' \cap heap = {}
       \/ ~reply'.ok /\ granted' = granted
    /\ heap' = heap

Other == reply' = NoReply /\ UNCHANGED <<heap, granted>>

Next == Break \/ Map \/ Other

Spec == Init /\ [][Next]_<<heap, granted, reply>>
=============================================================================
