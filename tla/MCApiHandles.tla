---------------------------- MODULE MCApiHandles -----------------------------
(* TLC instances of ApiHandles.                                            *)
EXTENDS ApiHandles, TLC

CONSTANTS b1, b2

(* The second bundle's tokenizer fits the first one's model as well.       *)
MCCompatible == {<<b1, b1>>, <<b1, b2>>, <<b2, b2>>}

MCOnePair == {<<b1, b1>>}

(* Threads are alike, and so are the handles they will be given.           *)
MCSymmetry == Permutations(Callers) \cup Permutations(Sessions)
=============================================================================
