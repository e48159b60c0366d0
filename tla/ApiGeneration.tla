---------------------------- MODULE ApiGeneration ----------------------------
(***************************************************************************)
(* A greedy generation session of the embedding API: dranzer_generation_   *)
(* reset primes the session's key/value cache with a prompt, and each      *)
(* dranzer_generation_next_greedy returns the best token and feeds it back.*)
(* It extends KVCache, whose ForwardToken both call.                       *)
(*                                                                         *)
(* Logits are abstracted to the token that wins once the excluded ones are *)
(* masked, free at every forward pass and fixed until the next, and to the *)
(* sequence they were computed for.                                        *)
(***************************************************************************)
EXTENDS KVCache

CONSTANTS
  Pad, Bos, Eos,   (* The control tokens; Pad stands for UNK as well.       *)
  Unassigned,      (* Ids of the model's vocabulary the tokenizer lacks.    *)
  Prompts,         (* Encoded prompts, the empty one among them.            *)
  PieceLength,     (* Token -> bytes of its piece.                          *)
  Rooms            (* Sizes of the caller's piece buffer.                   *)

(* Known tokens only, and a window is held in memory.                      *)
ASSUME ApiGenerationAssumption ==
  /\ {Pad, Bos, Eos} \cup Unassigned \subseteq Tokens
  /\ Prompts \subseteq Seq(Tokens \ Unassigned)
  /\ PieceLength \in [Tokens -> Nat]
  /\ Rooms \subseteq Nat
  /\ \A n \in Capacities : n <= SizeMax

VARIABLES
  special,      (* bpe_encoder_has_special_tokens                           *)
  ready, finished,
  logits,       (* [best, of]: the winner, and the sequence it continues.   *)
  pending,      (* Prompt tokens a reset under way has still to feed.       *)
  begun,        (* History: the prompt of the last reset that succeeded     *)
  taken,        (* and the tokens returned since.                           *)
  last          (* Status and *inout_piece_size of the last call.           *)

session == <<special, ready, finished, logits, pending, begun, taken, last>>
sessionVars == <<cacheVars, session>>

NoLogits == [best |-> Garbage, of |-> << >>]

(* dranzer_generation_create                                               *)
SessionInit ==
  /\ KVInit
  /\ special \in BOOLEAN
  /\ ready = FALSE
  /\ finished = FALSE
  /\ logits = NoLogits
  /\ pending = << >>
  /\ begun = << >>
  /\ taken = << >>
  /\ last = [status |-> "ok", size |-> 0]

Answer(status, size) == last' = [status |-> status, size |-> size]

(* The tokens that survive the masks.                                      *)
Candidates ==
  (Tokens \ Unassigned) \ IF special THEN {Pad, Bos} ELSE {}

(* A forward pass leaves the logits of the sequence it extended.           *)
ForwardLogits(token) ==
  /\ ForwardToken(token)
  /\ \E best \in Candidates : logits' = [best |-> best, of |-> fed']

NotPriming == pending = << >>

-----------------------------------------------------------------------------
(* dranzer_generation_reset                                                *)

(* BOS, then the newest prompt tokens that fit the window.                 *)
Prepared(prompt) ==
  LET available == IF special THEN capacity - 1 ELSE capacity
      retained  == IF Len(prompt) < available THEN Len(prompt) ELSE available
  IN  (IF special THEN <<Bos>> ELSE << >>)
        \o SubSeq(prompt, Len(prompt) - retained + 1, Len(prompt))

(* The prompt cannot be encoded, or leaves nothing to feed: the session is *)
(* as it was.                                                              *)
ResetFails ==
  /\ NotPriming
  /\ \/ Answer("error", last.size)
     \/ /\ \E prompt \in Prompts : Prepared(prompt) = << >>
        /\ Answer("invalid", last.size)
  /\ UNCHANGED <<cacheVars, special, ready, finished, logits, pending, begun,
                 taken>>

(* Mutant: the tokens of the last sequence stay in the window.             *)
ClearWindow_Skipped == UNCHANGED cacheVars

ClearWindow == ResetCache

ResetBegins ==
  /\ NotPriming
  /\ \E prompt \in Prompts :
       /\ Prepared(prompt) # << >>
       /\ pending' = Prepared(prompt)
       /\ begun' = Prepared(prompt)
  /\ ClearWindow
  /\ taken' = << >>
  /\ UNCHANGED <<special, ready, finished, logits, last>>

(* One turn of the priming loop, and the return after the last. What was   *)
(* prepared fits a window just cleared, so no forward pass is refused.     *)
Prime ==
  /\ ~NotPriming
  /\ ForwardLogits(Head(pending))
  /\ pending' = Tail(pending)
  /\ IF pending' = << >>
     THEN ready' = TRUE /\ finished' = FALSE /\ Answer("ok", last.size)
     ELSE UNCHANGED <<ready, finished, last>>
  /\ UNCHANGED <<special, begun, taken>>

-----------------------------------------------------------------------------
(* dranzer_generation_next_greedy                                          *)

NotReady ==
  /\ NotPriming
  /\ ~ready
  /\ Answer("invalid", last.size)
  /\ UNCHANGED <<cacheVars, special, ready, finished, logits, pending, begun,
                 taken>>

AlreadyFinished ==
  /\ NotPriming
  /\ ready /\ finished
  /\ Answer("finished", 0)
  /\ UNCHANGED <<cacheVars, special, ready, finished, logits, pending, begun,
                 taken>>

Choosing == NotPriming /\ ready /\ ~finished

IsEos == special /\ logits.best = Eos

(* Control tokens have no bytes.                                           *)
Required ==
  IF special /\ logits.best \in {Pad, Bos, Eos} THEN 0
  ELSE PieceLength[logits.best]

(* Mutant: the token is fed back before the buffer is looked at.           *)
Untaken_FedBack ==
  /\ ForwardLogits(logits.best)
  /\ UNCHANGED <<special, ready, finished, pending, begun, taken>>

(* What a call that returns no token leaves alone.                         *)
Untaken ==
  UNCHANGED <<cacheVars, special, ready, finished, logits, pending, begun,
              taken>>

(* The piece does not fit: its size is reported and nothing consumed.      *)
TooSmall(room) ==
  /\ Choosing
  /\ room < Required
  /\ Answer("too_small", Required)
  /\ Untaken

ReturnEos(room) ==
  /\ Choosing
  /\ room >= Required
  /\ IsEos
  /\ finished' = TRUE
  /\ Answer("finished", Required)
  /\ UNCHANGED <<cacheVars, special, ready, logits, pending, begun, taken>>

(* The token is returned and fed back; if that fails, so does the call,    *)
(* and the token remains the next.                                         *)
ReturnToken(room) ==
  /\ Choosing
  /\ room >= Required
  /\ ~IsEos
  /\ \/ /\ ForwardLogits(logits.best)
        /\ taken' = Append(taken, logits.best)
        /\ Answer("ok", Required)
     \/ /\ ~CanForward
        /\ Answer("invalid", Required)
        /\ UNCHANGED <<cacheVars, logits, taken>>
  /\ UNCHANGED <<special, ready, finished, pending, begun>>

NextGreedy ==
  \/ NotReady
  \/ AlreadyFinished
  \/ \E room \in Rooms : TooSmall(room) \/ ReturnEos(room) \/ ReturnToken(room)

SessionNext == ResetFails \/ ResetBegins \/ Prime \/ NextGreedy

SessionSpec == SessionInit /\ [][SessionNext]_sessionVars
-----------------------------------------------------------------------------
(* Properties.                                                             *)

(* What is primed fits the window.                                         *)
SessionTypeOK ==
  /\ CacheTypeOK
  /\ special \in BOOLEAN /\ ready \in BOOLEAN /\ finished \in BOOLEAN
  /\ logits \in [best : Tokens \cup {Garbage}, of : Seq(Tokens)]
  /\ pending \in Seq(Tokens) /\ Len(begun) <= capacity
  /\ taken \in Seq(Tokens)
  /\ last.status \in {"ok", "invalid", "error", "too_small", "finished"}
  /\ last.size \in Nat

(* public-api.md: a short buffer returns "without consuming the token".    *)
(* Whatever calls succeeded or failed before, the next token is chosen     *)
(* from logits of the prompt and of every token returned since, each once, *)
(* as far back as the window reaches.                                      *)
SessionSeesWholeSequence ==
  Choosing =>
    /\ fed = begun \o taken
    /\ logits.of = fed
    /\ AttentionSeesNewestTokens

(* "so the caller can resize and retry": the call that follows a short     *)
(* buffer returns the piece whose size was reported.                       *)
RetryReturnsThePiece ==
  [][/\ last.status = "too_small"
     /\ last'.status \in {"ok", "finished"}
     /\ begun' = begun
     => last'.size = last.size]_sessionVars
=============================================================================
