------------------------------- MODULE KVCache -------------------------------
(***************************************************************************)
(* The key/value cache of incremental decoding (model_kv_cache_t): a ring  *)
(* of physical rows per layer, all layers in step, written and read by     *)
(* model_forward_token. A row is abstracted to the token it was computed   *)
(* for and the absolute position encoded into it; rows are malloc'ed, so   *)
(* they hold Garbage until first written and stale rows after a reset.     *)
(***************************************************************************)
EXTENDS Integers, Sequences

CONSTANTS
  Tokens,      (* Token ids below vocab_size.                                *)
  Capacities,  (* Capacities a cache may be created with (<= max_seq_len).   *)
  SizeMax,     (* SIZE_MAX, the largest total_tokens.                        *)
  Garbage      (* The contents of a row never written.                       *)

ASSUME KVCacheAssumption ==
  /\ Capacities \subseteq Nat \ {0}
  /\ SizeMax \in Nat

VARIABLES
  capacity, start, length, total_tokens,   (* As in model_kv_cache_t.        *)
  slots,      (* keys[l] and values[l]: physical row -> contents.            *)
  attended,   (* The rows the last model_forward_token attended to.          *)
  fed         (* History: the tokens consumed since the last reset.          *)

cacheVars == <<capacity, start, length, total_tokens, slots, attended, fed>>

KVInit ==
  /\ capacity \in Capacities
  /\ start = 0
  /\ length = 0
  /\ total_tokens = 0
  /\ slots = [p \in 0..capacity - 1 |-> Garbage]
  /\ attended = << >>
  /\ fed = << >>

(* The guard at the head of model_forward_token.                           *)
CanForward == length <= capacity /\ total_tokens # SizeMax

Full == length = capacity

(* The physical row j rows after the row named first.                      *)
Physical(first, j) == (first + j) % capacity

(* The physical row the token's key and value go to.                       *)
Slot == IF Full THEN start ELSE Physical(start, length)

(* Mutant: eviction overwrites the oldest row but does not move the start. *)
NextStart_Stuck == start

NextStart == IF Full THEN Physical(start, 1) ELSE start

ContextLength == IF Full THEN capacity ELSE length + 1

(* Mutant: positions restart at the window when the ring wraps.            *)
AbsolutePosition_Rebased == length

AbsolutePosition == total_tokens

(* The rows attention_head_forward_token reads, in the order it reads them.*)
RowsFrom(rows, first, n) ==
  [j \in 1..n |-> rows[Physical(first, j - 1)]]

ForwardToken(token) ==
  /\ CanForward
  /\ slots' = [slots EXCEPT ![Slot] =
                 [token |-> token, position |-> AbsolutePosition]]
  /\ start' = NextStart
  /\ attended' = RowsFrom(slots', start', ContextLength)
  /\ length' = IF Full THEN length ELSE length + 1
  /\ total_tokens' = total_tokens + 1
  /\ fed' = Append(fed, token)
  /\ UNCHANGED capacity

(* model_kv_cache_reset                                                    *)
ResetCache ==
  /\ start' = 0
  /\ length' = 0
  /\ total_tokens' = 0
  /\ attended' = << >>
  /\ fed' = << >>
  /\ UNCHANGED <<capacity, slots>>

KVNext == ResetCache \/ \E token \in Tokens : ForwardToken(token)

KVSpec == KVInit /\ [][KVNext]_cacheVars

-----------------------------------------------------------------------------
(* Properties.                                                             *)

(* The rows the cache would attend to, oldest first.                       *)
Contents == RowsFrom(slots, start, length)

Row == [token : Tokens, position : Nat]

(* Ring indices stay inside the ring and the counters inside size_t.       *)
CacheTypeOK ==
  /\ capacity \in Capacities
  /\ start \in 0..capacity - 1
  /\ length \in 0..capacity
  /\ total_tokens \in 0..SizeMax
  /\ slots \in [0..capacity - 1 -> Row \cup {Garbage}]
  /\ attended \in Seq(Row \cup {Garbage})
  /\ fed \in Seq(Tokens)

(* transformer.h: once capacity is full the oldest row is evicted, and     *)
(* positions continue absolutely. Every forward pass attends to exactly    *)
(* the newest tokens of this sequence that fit, itself included, never to  *)
(* an unwritten row or one left over from before a reset.                  *)
AttentionSeesNewestTokens ==
  LET n == Len(attended)
      s == Len(fed)
  IN  /\ n = IF s < capacity THEN s ELSE capacity
      /\ \A i \in 1..n :
           attended[i] = [token |-> fed[s - n + i], position |-> s - n + i - 1]

Window == INSTANCE SlidingWindow WITH
  window <- Contents, position <- total_tokens

(* The ring implements the sliding window: wrapping and eviction are       *)
(* invisible.                                                              *)
RefinesSlidingWindow == Window!Spec
=============================================================================
