------------------------------ MODULE MCKHeap ------------------------------
(* Small instances of KHeap for TLC. *)
EXTENDS KHeap

\* One byte, a block that takes much of the heap, and one that no heap of
\* this size can hold.
SomeSizes == {0, 1, 26, Word - 5}

SmallSizes == {1, 9}
=============================================================================
