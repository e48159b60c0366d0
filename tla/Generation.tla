----------------------------- MODULE Generation -----------------------------
(***************************************************************************)
(* The decode loop of the CLI (generation_decode_with_options): prime the  *)
(* key/value cache with the prepared prompt, sample a token at a time,     *)
(* stop on EOS, on a registered stop sequence or on the callback, and      *)
(* deliver every token as soon as it can no longer belong to a stop        *)
(* sequence. It extends KVCache, whose ForwardToken it calls.              *)
(*                                                                         *)
(* Sampling is a free choice among the tokens the masks leave; delivering  *)
(* one token is one step, whose callback may accept and continue or accept *)
(* and cancel. No callback is a callback that never cancels.               *)
(***************************************************************************)
EXTENDS KVCache

CONSTANTS
  Pad, Bos, Eos,      (* The control tokens; Pad stands for UNK as well.     *)
  Prompts,            (* Encoded prompts.                                    *)
  StopLists,          (* Registered stop sequences, in registration order.   *)
  Minimums,           (* --min-length values.                                *)
  Requests,           (* --length values.                                    *)
  SequenceCapacities  (* Sizes of the caller's sequence buffer.              *)

(* What options_are_valid, the encoder and the argument parser leave of    *)
(* the call: known tokens, and no empty stop sequence.                     *)
GenerationAssumption ==
  /\ {Pad, Bos, Eos} \subseteq Tokens
  /\ Prompts \subseteq Seq(Tokens)
  /\ StopLists \subseteq Seq(Seq(Tokens) \ {<< >>})
  /\ Minimums \cup Requests \cup SequenceCapacities \subseteq Nat

VARIABLES
  special,            (* bpe_encoder_has_special_tokens                      *)
  stops, minimum_new_tokens,   (* The generation_options_t of the call.      *)
  limit,              (* Tokens the loop may generate.                       *)
  prompt_count,       (* Tokens of the prepared prompt.                      *)
  sequence,           (* The caller's buffer: prompt, then generated tokens. *)
  result,             (* generation_result_t                                 *)
  delivered,          (* The generated tokens emitted so far.                *)
  target, reason,     (* The emit_until under way and what it is for.        *)
  is_training,        (* model->is_training, and its value before the call.  *)
  prior_training,
  pc

options == <<special, stops, minimum_new_tokens, limit, prompt_count,
             prior_training>>
vars == <<cacheVars, options, sequence, result, delivered, target, reason,
          is_training, pc>>

Least(m, n) == IF m < n THEN m ELSE n

(* generation_prepare_prompt: BOS, then the end of the prompt that fits.   *)
Prepared(prompt, framed, room) ==
  LET available == IF framed THEN room - 1 ELSE room
      retained  == Least(Len(prompt), available)
  IN  (IF framed THEN <<Bos>> ELSE << >>)
        \o SubSeq(prompt, Len(prompt) - retained + 1, Len(prompt))

NewResult ==
  [new_count |-> 0, total_count |-> prompt_count, emitted_count |-> 0,
   stopped_on_eos |-> FALSE, stopped_on_stop_sequence |-> FALSE,
   stop_sequence_index |-> 0, stopped_by_callback |-> FALSE]

(* The call: valid options, and a buffer the prepared prompt fits in.      *)
Init ==
  /\ KVInit
  /\ special \in BOOLEAN
  /\ stops \in StopLists
  /\ minimum_new_tokens \in Minimums
  /\ \E prompt \in Prompts, request \in Requests, room \in SequenceCapacities :
       /\ sequence = Prepared(prompt, special, capacity)
       /\ prompt_count = Len(sequence)
       /\ prompt_count > 0
       /\ prompt_count <= room
       /\ limit = Least(request, room - prompt_count)
  /\ result = NewResult
  /\ delivered = << >>
  /\ target = 0
  /\ reason = "none"
  /\ prior_training \in BOOLEAN
  /\ is_training = FALSE
  /\ pc = "prime"

-----------------------------------------------------------------------------
(* Stop sequences, over the tokens generated so far.                       *)

Generated(seq, n) == SubSeq(seq, prompt_count + 1, prompt_count + n)

LastOf(s, n) == SubSeq(s, Len(s) - n + 1, Len(s))

(* Stop sequence i ends the generated tokens and starts after the minimum. *)
MatchAt(gen, i) ==
  /\ Len(stops[i]) <= Len(gen)
  /\ Len(gen) - Len(stops[i]) >= minimum_new_tokens
  /\ LastOf(gen, Len(stops[i])) = stops[i]

Matches(gen) == {i \in 1..Len(stops) : MatchAt(gen, i)}

(* matching_stop_sequence: the first registered wins.                      *)
Matching(gen) == CHOOSE i \in Matches(gen) : \A j \in Matches(gen) : i <= j

(* A suffix of the undelivered tokens that can still grow into a stop      *)
(* sequence; the empty suffix always can.                                  *)
CanGrow(gen, n) ==
  n = 0 \/ \E i \in 1..Len(stops) :
             /\ n < Len(stops[i])
             /\ Len(gen) - n >= minimum_new_tokens
             /\ LastOf(gen, n) = SubSeq(stops[i], 1, n)

(* Mutant: only the first registered sequence is looked at.                *)
Pending_FirstOnly(gen, done) ==
  CHOOSE n \in 0..Len(gen) - done :
    LET Grows(m) == m = 0 \/ /\ stops # << >>
                             /\ m < Len(stops[1])
                             /\ Len(gen) - m >= minimum_new_tokens
                             /\ LastOf(gen, m) = SubSeq(stops[1], 1, m)
    IN  Grows(n) /\ \A m \in 0..Len(gen) - done : Grows(m) => m <= n

(* pending_stop_prefix: the longest such suffix.                           *)
Pending(gen, done) ==
  CHOOSE n \in 0..Len(gen) - done :
    CanGrow(gen, n) /\ \A m \in 0..Len(gen) - done : CanGrow(gen, m) => m <= n

-----------------------------------------------------------------------------
(* The loop.                                                               *)

(* Mutant: the early return forgets the mode the model was in.             *)
Return_ErrorLeavesMode(how) ==
  /\ is_training' = IF how = "error" THEN is_training ELSE prior_training
  /\ pc' = how

(* Both ways out restore the mode the model was in.                        *)
Return(how) == is_training' = prior_training /\ pc' = how

AfterPrime == IF limit > 0 THEN "sample" ELSE "flush"

Prime ==
  /\ pc = "prime"
  /\ LET token == sequence[Len(fed) + 1]
     IN  \/ /\ ForwardToken(token)
            /\ pc' = IF Len(fed') = prompt_count THEN AfterPrime ELSE "prime"
            /\ UNCHANGED is_training
         \/ ~CanForward /\ Return("error") /\ UNCHANGED cacheVars
  /\ UNCHANGED <<options, sequence, result, delivered, target, reason>>

EosAllowed == result.new_count >= minimum_new_tokens

(* What generation_mask_control_logits and the minimum leave to sample. A  *)
(* sampler out of memory returns token 0, which is an ordinary token.      *)
Sampleable ==
  IF special
  THEN Tokens \ ({Pad, Bos} \cup IF EosAllowed THEN {} ELSE {Eos})
  ELSE Tokens

(* generation_token_is_eos *)
IsEos(token) == special /\ token = Eos

(* One emit_until begins: deliver up to n of the generated tokens.         *)
BeginEmit(n, why) == target' = n /\ reason' = why /\ pc' = "emit"

(* Append the sampled token and decide what may be delivered.              *)
Sample(token) ==
  /\ pc = "sample"
  /\ token \in Sampleable
  /\ sequence' = Append(SubSeq(sequence, 1, result.total_count), token)
  /\ LET gen == Generated(sequence', result.new_count + 1)
     IN  /\ result' = [result EXCEPT !.new_count = @ + 1, !.total_count = @ + 1]
         /\ IF IsEos(token)
            THEN BeginEmit(Len(gen) - 1, "eos")
            ELSE IF Matches(gen) # {}
            THEN BeginEmit(Len(gen) - Len(stops[Matching(gen)]), "stop")
            ELSE BeginEmit(Len(gen) - Pending(gen, Len(delivered)), "decode")
  /\ UNCHANGED <<cacheVars, options, delivered, is_training>>

(* Mutant: cancelling leaves the count of what was generated.              *)
Cancelled_NotTruncated(n) == [result EXCEPT !.emitted_count = n,
                                            !.stopped_by_callback = TRUE]

(* The result is truncated to the n tokens the callback has accepted.      *)
Cancelled(n) ==
  [result EXCEPT !.emitted_count = n, !.stopped_by_callback = TRUE,
                 !.new_count = n, !.total_count = prompt_count + n]

AfterDelivery == Append(delivered, sequence[prompt_count + Len(delivered) + 1])

(* One turn of emit_until's loop; the callback may cancel.                 *)
Emit ==
  /\ pc = "emit"
  /\ Len(delivered) < target
  /\ delivered' = AfterDelivery
  /\ \/ /\ result' = [result EXCEPT !.emitted_count = Len(delivered')]
        /\ UNCHANGED <<is_training, pc>>
     \/ result' = Cancelled(Len(delivered')) /\ Return("done")
  /\ UNCHANGED <<cacheVars, options, sequence, target, reason>>

(* Mutant: held tokens are dropped when the limit is reached.              *)
AfterDecode_NoFlush == IF result.new_count < limit THEN "forward" ELSE "exit"

AfterDecode == IF result.new_count < limit THEN "forward" ELSE "flush"

(* emit_until has delivered all it was asked to.                           *)
EndEmit ==
  /\ pc = "emit"
  /\ Len(delivered) >= target
  /\ CASE reason = "eos" ->
            /\ result' = [result EXCEPT !.stopped_on_eos = TRUE]
            /\ pc' = "exit"
       [] reason = "stop" ->
            /\ result' = [result EXCEPT
                 !.stopped_on_stop_sequence = TRUE,
                 !.stop_sequence_index =
                    Matching(Generated(sequence, result.new_count))]
            /\ pc' = "exit"
       [] reason = "decode" -> pc' = AfterDecode /\ UNCHANGED result
       [] reason = "flush" -> pc' = "exit" /\ UNCHANGED result
  /\ UNCHANGED <<cacheVars, options, sequence, delivered, target, reason,
                 is_training>>

(* Mutant: the token before the sampled one is fed.                        *)
NextInput_Stale == sequence[result.total_count - 1]

NextInput == sequence[result.total_count]

(* The forward pass for the next turn of the loop.                         *)
Forward ==
  /\ pc = "forward"
  /\ \/ ForwardToken(NextInput) /\ pc' = "sample" /\ UNCHANGED is_training
     \/ ~CanForward /\ Return("error") /\ UNCHANGED cacheVars
  /\ UNCHANGED <<options, sequence, result, delivered, target, reason>>

(* Nothing stopped the loop: what is still held is delivered.              *)
Flush ==
  /\ pc = "flush"
  /\ BeginEmit(result.new_count, "flush")
  /\ UNCHANGED <<cacheVars, options, sequence, result, delivered, is_training>>

Finish ==
  /\ pc = "exit"
  /\ Return("done")
  /\ UNCHANGED <<cacheVars, options, sequence, result, delivered, target,
                 reason>>

Next ==
  \/ Prime
  \/ \E token \in Tokens : Sample(token)
  \/ Emit
  \/ EndEmit
  \/ Forward
  \/ Flush
  \/ Finish

(* The loop never waits: the callback and the sampler return.              *)
Spec == Init /\ [][Next]_vars
FairSpec == Spec /\ WF_vars(Next)

-----------------------------------------------------------------------------
(* Properties.                                                             *)

Gen == Generated(sequence, result.new_count)

Result ==
  [new_count : 0..limit, total_count : Nat, emitted_count : 0..limit,
   stopped_on_eos : BOOLEAN, stopped_on_stop_sequence : BOOLEAN,
   stop_sequence_index : 0..Len(stops), stopped_by_callback : BOOLEAN]

(* The counts stay within the buffer and the loop's limit.                 *)
TypeOK ==
  /\ CacheTypeOK
  /\ special \in BOOLEAN
  /\ stops \in StopLists
  /\ minimum_new_tokens \in Minimums
  /\ limit \in Nat
  /\ prompt_count \in Nat
  /\ sequence \in Seq(Tokens)
  /\ result \in Result
  /\ delivered \in Seq(Tokens)
  /\ target \in 0..limit
  /\ reason \in {"none", "eos", "stop", "decode", "flush"}
  /\ is_training \in BOOLEAN
  /\ prior_training \in BOOLEAN
  /\ pc \in {"prime", "sample", "emit", "forward", "flush", "exit", "done",
             "error"}

(* Every generated token that is not part of the terminator: what precedes *)
(* EOS, or the first registered stop sequence that ends here.              *)
Content ==
  IF Gen # << >> /\ IsEos(Gen[Len(Gen)]) THEN SubSeq(Gen, 1, Len(Gen) - 1)
  ELSE IF Matches(Gen) # {}
  THEN SubSeq(Gen, 1, Len(Gen) - Len(stops[Matching(Gen)]))
  ELSE Gen

(* generation.md: the matching marker is withheld from output, EOS is not  *)
(* sent. A reader never sees a token of the terminator, and when decoding  *)
(* ends without cancellation has seen all the rest, whichever stop         *)
(* prefixes were held on the way.                                          *)
StreamIsContent ==
  /\ Len(delivered) <= Len(Content)
  /\ delivered = SubSeq(Content, 1, Len(delivered))
  /\ pc = "done" /\ ~result.stopped_by_callback => delivered = Content

(* generation.md: "It holds only a possible stop-sequence prefix". When a  *)
(* token is sampled, what is held is the longest end of everything         *)
(* generated that can still become a stop sequence: no more is held, and   *)
(* no less although pending_stop_prefix looks only at undelivered tokens.  *)
HoldsOnlyStopPrefix ==
  pc = "sample" =>
    LET held == Len(Gen) - Len(delivered)
    IN  /\ CanGrow(Gen, held)
        /\ \A n \in 0..Len(Gen) : CanGrow(Gen, n) => n <= held

(* generation_result_t: at most one reason to stop; the counts describe    *)
(* the buffer and the stream; cancellation truncates to what was accepted, *)
(* and EOS and stop tokens stay counted otherwise. generation.md: at least *)
(* --min-length tokens precede any EOS or stop sequence that ends decoding. *)
ResultIsConsistent ==
  /\ result.total_count = prompt_count + result.new_count
  /\ result.emitted_count = Len(delivered)
  /\ result.total_count <= Len(sequence)
  /\ result.stopped_by_callback =>
       /\ ~result.stopped_on_eos /\ ~result.stopped_on_stop_sequence
       /\ result.new_count = Len(delivered)
  /\ ~(result.stopped_on_eos /\ result.stopped_on_stop_sequence)
  /\ result.stopped_on_eos => Len(delivered) = result.new_count - 1
  /\ result.stopped_on_stop_sequence =>
       Len(delivered) + Len(stops[result.stop_sequence_index])
         = result.new_count
  /\ pc = "done" /\ (result.stopped_on_eos \/ result.stopped_on_stop_sequence) =>
       Len(delivered) >= minimum_new_tokens

(* Every token is sampled from logits of the whole sequence so far: the    *)
(* newest tokens that fit the window, at their absolute positions, even    *)
(* after the ring has wrapped.                                             *)
SampleSeesWholeSequence ==
  pc = "sample" =>
    /\ fed = SubSeq(sequence, 1, result.total_count)
    /\ AttentionSeesNewestTokens

(* Decoding always returns to its caller, by whatever way out, and leaves  *)
(* the model in the mode it was called in.                                 *)
DecodingEnds ==
  <>(pc \in {"done", "error"} /\ is_training = prior_training)
=============================================================================
