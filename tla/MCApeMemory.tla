---------------------------- MODULE MCApeMemory ----------------------------
(* Small instances of ApeMemory: one image page, one heap page, two mmap  *)
(* pages, one or two stack pages and one or two of thread-local storage.  *)
EXTENDS ApeMemory, TLC

MCImage == <<<<0, {"r", "x"}>>>>
MCDataImage == <<<<0, {"r"}>>>>
ASSUME ImageClearAssumption == ImageClear

MCRanges == {<<2, 1>>, <<2, 2>>, <<3, 1>>}
MCProtRanges == {<<7, 1>>}
MCNoRanges == {}
MCProts == {{"r", "w"}}
MCProtChoices == {{"r"}, {"r", "w"}}

\* Frames as model values, of which any free one may come next; and frames as
\* numbers, of which the lowest free one does.
AnyFree(S) == S
Symmetry == Permutations(Frame)
LowestFree(S) == IF S = {} THEN {} ELSE {CHOOSE f \in S : \A g \in S : f <= g}
=============================================================================
