---------------------------- MODULE SerialMemory ----------------------------
(***************************************************************************)
(* What the program is promised by the memory system: one memory, read by  *)
(* the fetch unit and read and written by the memory stage, in which every *)
(* request is performed at one instant between its start and its answer.    *)
(* An access is answered with the word as it was before the access.         *)
(***************************************************************************)
EXTENDS Naturals

CONSTANTS
    Lines, Word, Values, NoValue, InitMem,
    NoFetch, Fetches,               \* requests of the fetch port
    NoAccess, Loads, Stores         \* requests of the data port

VARIABLES
    mem,                    \* line -> word -> value
    fetch, fetchAnswer,     \* fetch port: request and answer
    access, accessAnswer    \* data port: request and answer

fetchPort  == <<fetch, fetchAnswer>>
accessPort == <<access, accessAnswer>>
vars == <<mem, fetchPort, accessPort>>

NoAnswer    == [done |-> FALSE, value |-> NoValue]
Answer(v)   == [done |-> TRUE, value |-> v]

TypeOK ==
    /\ mem \in [Lines -> [Word -> Values]]
    /\ fetch \in Fetches \cup {NoFetch}
    /\ access \in Loads \cup Stores \cup {NoAccess}
    /\ fetchAnswer \in [done : BOOLEAN, value : Values \cup {NoValue}]
    /\ accessAnswer \in [done : BOOLEAN, value : Values \cup {NoValue}]

Init ==
    /\ mem = InitMem
    /\ fetch = NoFetch /\ fetchAnswer = NoAnswer
    /\ access = NoAccess /\ accessAnswer = NoAnswer

-----------------------------------------------------------------------------
FetchStart ==
    /\ ~fetch.up /\ ~fetchAnswer.done
    /\ fetch' \in Fetches
    /\ UNCHANGED fetchAnswer

FetchPerform ==
    /\ fetch.up /\ ~fetchAnswer.done
    /\ fetchAnswer' = Answer(mem[fetch.line][fetch.word])
    /\ UNCHANGED fetch

(* The request goes down half a cycle before its answer does. *)
FetchTake ==
    /\ fetch.up /\ fetchAnswer.done
    /\ fetch' = NoFetch
    /\ UNCHANGED fetchAnswer

FetchEnd ==
    /\ ~fetch.up /\ fetchAnswer.done
    /\ fetchAnswer' = NoAnswer
    /\ UNCHANGED fetch

FetchStep == FetchStart \/ FetchPerform \/ FetchTake \/ FetchEnd

AccessStart ==
    /\ ~access.up
    /\ access' \in Loads \cup Stores
    /\ UNCHANGED <<mem, accessAnswer>>

AccessPerform ==
    /\ access.up /\ ~accessAnswer.done
    /\ accessAnswer' = Answer(mem[access.line][access.word])
    /\ mem' = IF access.store
              THEN [mem EXCEPT ![access.line][access.word] = access.value]
              ELSE mem
    /\ UNCHANGED access

(* The next access may follow at once. *)
AccessEnd ==
    /\ access.up /\ accessAnswer.done
    /\ accessAnswer' = NoAnswer
    /\ access' \in Loads \cup Stores \cup {NoAccess}
    /\ UNCHANGED mem

AccessStep == AccessStart \/ AccessPerform \/ AccessEnd

(* The two ports run side by side and may both take a step at one edge.     *)
Next ==
    /\ FetchStep \/ UNCHANGED fetchPort
    /\ AccessStep \/ UNCHANGED <<mem, accessPort>>

Spec == Init /\ [][Next]_vars
=============================================================================
