----------------------------- MODULE Reassembly ------------------------------
(***************************************************************************)
(* What TcpStream takes the reassembly buffer for: the number of the next  *)
(* byte expected and the set of those held above it.  A segment that       *)
(* leaves a gap may fail to be stored, or leave a bad link in the buffer's *)
(* list; once there is one, any later Add may follow it, and then nothing  *)
(* more is said.                                                           *)
(***************************************************************************)
EXTENDS Integers

CONSTANT Sequence      \* the sequence numbers, an initial part of Nat

VARIABLES rcv_nxt, held, suspect, wild

vars == <<rcv_nxt, held, suspect, wild>>

Init == rcv_nxt \in Sequence /\ held = {} /\ suspect = FALSE /\ wild = FALSE

Stored(bytes) ==
    LET got == held \cup bytes
    IN  /\ \E n \in Sequence :
              /\ n >= rcv_nxt /\ n \notin got /\ rcv_nxt .. n - 1 \subseteq got
              /\ rcv_nxt' = n
              /\ held' = {p \in got : p > n}
        /\ \/ suspect' = suspect
           \/ suspect' = TRUE /\ rcv_nxt \notin bytes

Refused == UNCHANGED <<rcv_nxt, held, suspect>>

Add(start, size) ==
    /\ ~wild
    /\ \/ Stored(start .. start + size - 1) /\ wild' = FALSE
       \/ start > rcv_nxt /\ Refused /\ wild' = FALSE
       \/ suspect /\ wild' = TRUE
       \/ start > rcv_nxt /\ wild' = TRUE      \* no memory, and not checked

Next == \E start, last \in Sequence :
            start >= rcv_nxt /\ last >= start /\ Add(start, last - start + 1)

Spec == Init /\ [][Next]_vars
=============================================================================
