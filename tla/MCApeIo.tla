------------------------------ MODULE MCApeIo ------------------------------
(***************************************************************************)
(* Instances of ApeIo: a caller with five pages, the last one read-only,   *)
(* a regular file of three bytes, and a pipe.                              *)
(***************************************************************************)
EXTENDS ApeIo

MCUserMap ==
  [a \in 1..5 |-> [frame |-> a, flags |-> IF a < 5 THEN {"r", "w"} ELSE {"r"}]]
MCMem == <<"a", "b", "c", "d", "e">>
MCByte == {"a", "b", "c", "d", "e", "x", "y", "z", "0"}
MCContent == <<"x", "y", "z">>

At0(file) == [file |-> file, offset |-> 0]
MCFds == (3 :> At0("reg")) @@ (4 :> At0("rd")) @@ (5 :> At0("wr")) @@ (6 :> Closed)

\* A buffer longer than a chunk, two buffers of which the second runs into the
\* page that cannot be written, and one whose second buffer is not mapped.
Buffer(base, len) == [base |-> base, len |-> len]
MCVectors == {<<Buffer(1, 4)>>, <<Buffer(2, 1), Buffer(3, 3)>>, <<Buffer(4, 1), Buffer(6, 1)>>}

\* No call has two bytes of its buffers in one place.
ASSUME BuffersAssumption == DistinctBuffers

\* A page read twice in a row, one come back to, and one more than the slots.
MCExecInputs == {<<1, 2, 2, 1, 3, 2>>}
MCDeltas == {-1, 0, 1}
============================================================================
