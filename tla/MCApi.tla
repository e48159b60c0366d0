------------------------------- MODULE MCApi --------------------------------
(* The embedding API: a behaviour either creates, shares and frees handles   *)
(* (ApiHandles) or generates with one session (ApiGeneration over KVCache),  *)
(* with two ordinary tokens, of one and of two bytes, and prompts shorter    *)
(* and longer than the window.                                               *)
EXTENDS ApiHandles, ApiGeneration, TLC

CONSTANTS b1, b2, a, b, u

VARIABLE subject   \* "handles" or "generation"

(* The second bundle's tokenizer fits the first one's model as well.       *)
MCCompatible == {<<b1, b1>>, <<b1, b2>>, <<b2, b2>>}

MCUnassigned == {u}
MCPrompts == {<< >>, <<a>>, <<a, b, a>>}
MCPieceLength == [t \in Tokens |-> IF t = b THEN 2 ELSE 1]

(* Threads are alike, and so are the handles they will be given.           *)
MCSymmetry == Permutations(Callers) \cup Permutations(Sessions)

ApiInit ==
  /\ Init /\ SessionInit
  /\ subject \in {"handles", "generation"}
  /\ subject = "handles" => special = FALSE /\ \A n \in Capacities : capacity <= n

HandlesNext == subject = "handles" /\ Next /\ UNCHANGED <<subject, sessionVars>>
GenerationNext == subject = "generation" /\ SessionNext /\ UNCHANGED <<subject, vars>>
ApiSpec ==
  ApiInit /\ [][HandlesNext \/ GenerationNext]_<<subject, vars, sessionVars>>
=============================================================================
