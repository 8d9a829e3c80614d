----------------------------- MODULE HeapPromise -----------------------------
(***************************************************************************)
(* What malloc and free promise their callers: a block is all of the heap, *)
(* is as large as was asked, overlaps no other block in use and stays      *)
(* where it is until it is freed; a request may fail.                      *)
(***************************************************************************)
EXTENDS Integers

CONSTANTS HeapSize, Requests

VARIABLE live     \* the blocks in use: where they start and what was asked

Blocks == [start : 0 .. HeapSize, size : Requests]

Overlap(b, c) == b.start < c.start + c.size /\ c.start < b.start + b.size

Init == live = {}

Malloc(b) ==
    /\ b.start + b.size <= HeapSize
    /\ \A c \in live : ~Overlap(b, c) /\ b.start # c.start
    /\ live' = live \cup {b}

Free(b) == b \in live /\ live' = live \ {b}

Next == \E b \in Blocks : Malloc(b) \/ Free(b)

Spec == Init /\ [][Next]_live
=============================================================================
