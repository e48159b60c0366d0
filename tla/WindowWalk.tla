----------------------------- MODULE WindowWalk -----------------------------
(***************************************************************************)
(* How one epoch of the corpus becomes training windows: the token stream  *)
(* is filled chunk by chunk, cut into windows whenever the buffer passes   *)
(* the flush threshold, and the tokens no window has consumed are carried  *)
(* over to the next chunk. A token is its position in the epoch's stream   *)
(* (BOS is position 0 when the tokenizer has special tokens), so a window  *)
(* is the position it starts at and its length.                            *)
(***************************************************************************)
EXTENDS Integers, Sequences, FiniteSets

CONSTANTS
  TrainWindows,    (* --train-window values, already clamped to max_seq_len. *)
  Strides,         (* --train-stride values, 0 for a whole window.           *)
  CorpusSizes,     (* Numbers of tokens the corpus may encode to.            *)
  FlushThreshold   (* Buffered tokens that trigger a walk (1000 in the code).*)

ASSUME WindowWalkAssumption ==
  /\ TrainWindows \subseteq Nat \ {0}
  /\ Strides \subseteq Nat
  /\ CorpusSizes \subseteq Nat
  /\ FlushThreshold \in Nat \ {0}

VARIABLES
  train_window, train_stride,   (* Fixed for the run.                        *)
  special_tokens, (* Whether the stream is framed by BOS and EOS.           *)
  corpus,        (* Tokens in the corpus.                                    *)
  left,          (* Corpus tokens not read yet.                              *)
  base,          (* Stream position of token_buffer[0].                      *)
  size,          (* Tokens in token_buffer.                                  *)
  next_target,   (* Buffer offset the next walk starts at.                   *)
  window_start,  (* Loop variable of process_training_token_range: start.   *)
  partial,       (* Its allow_partial_window.                                *)
  windows,       (* The windows submitted so far.                            *)
  activity

walkConfig == <<train_window, train_stride, special_tokens, corpus>>
walkVars == <<walkConfig, left, base, size,
              next_target, window_start, partial, windows, activity>>

Framing == IF special_tokens THEN 1 ELSE 0

(* mode_train: 0 means a whole window, and a stride is at most the window. *)
ResolveStride(window, stride) ==
  IF stride = 0 \/ stride > window THEN window ELSE stride

WalkInit ==
  /\ train_window \in TrainWindows
  /\ train_stride \in {ResolveStride(train_window, s) : s \in Strides}
  /\ special_tokens \in BOOLEAN
  /\ corpus \in CorpusSizes
  /\ left = corpus
  /\ base = 0
  /\ size = Framing
  /\ next_target = 1
  /\ window_start = 0
  /\ partial = FALSE
  /\ windows = << >>
  /\ activity = "read"

(* token_stream_ready_to_flush                                             *)
ReadyToFlush(count) == count >= FlushThreshold

(* One chunk of the file, encoded to n tokens and walked if ready.         *)
AddChunk(n) ==
  /\ activity = "read"
  /\ n <= left
  /\ left' = left - n
  /\ size' = size + n
  /\ IF ReadyToFlush(size')
     THEN window_start' = next_target /\ partial' = FALSE /\ activity' = "walk"
     ELSE UNCHANGED <<window_start, partial, activity>>
  /\ UNCHANGED <<walkConfig, base, next_target, windows>>

EndOfFile ==
  /\ activity = "read"
  /\ left = 0
  /\ size' = size + Framing
  /\ window_start' = next_target
  /\ partial' = TRUE
  /\ activity' = "walk"
  /\ UNCHANGED <<walkConfig, left, base, next_target, windows>>

(* Tokens from the loop variable on that have a successor to predict.      *)
Available == IF window_start + 1 > size - 1 THEN 0 ELSE size - 1 - window_start

WindowLength == IF Available < train_window THEN Available ELSE train_window

(* Mutant: a chunk-truncated window is emitted like any other.             *)
WindowFits_Truncated == window_start < size /\ Available > 0

(* A window may be emitted here: a short one only at the end of stream.    *)
WindowFits ==
  /\ window_start < size
  /\ Available > 0
  /\ partial \/ WindowLength = train_window

EmitWindow ==
  /\ activity = "walk"
  /\ WindowFits
  /\ windows' = Append(windows, [start |-> base + window_start, length |-> WindowLength])
  /\ window_start' = window_start + train_stride
  /\ UNCHANGED <<walkConfig, left, base, size, next_target, partial, activity>>

NextWalkStart == IF window_start < size THEN window_start ELSE size

(* Mutant: the next walk skips a token as the first one does.              *)
Retained_SkipAgain == 1

Retained == 0

(* The walk ends; mid-file the unconsumed tail moves to the front of the   *)
(* buffer, at end of stream the buffer is emptied.                         *)
EndWalk ==
  /\ activity = "walk"
  /\ ~WindowFits
  /\ IF partial
     THEN size' = 0 /\ activity' = "done" /\ UNCHANGED <<base, next_target>>
     ELSE /\ base' = base + NextWalkStart
          /\ size' = size - NextWalkStart
          /\ next_target' = Retained
          /\ activity' = "read"
  /\ UNCHANGED <<walkConfig, left, window_start, partial, windows>>

WalkNext ==
  \/ \E n \in 1..left : AddChunk(n)
  \/ EndOfFile
  \/ EmitWindow
  \/ EndWalk

WalkSpec == WalkInit /\ [][WalkNext]_walkVars

-----------------------------------------------------------------------------
(* Properties.                                                             *)

Total == corpus + 2 * Framing

(* The windows of the whole stream cut in one piece.                       *)
StartOf(k) == 1 + (k - 1) * train_stride

WindowAt(k) ==
  [start |-> StartOf(k),
   length |-> IF Total - 1 - StartOf(k) < train_window
              THEN Total - 1 - StartOf(k) ELSE train_window]

WholeStream ==
  LET count == Cardinality({k \in 1..Total : StartOf(k) + 1 < Total})
  IN  [k \in 1..count |-> WindowAt(k)]

WalkWindow == [start : Nat, length : Nat \ {0}]

(* The buffer, the loop variable and the windows stay within the stream.   *)
WalkTypeOK ==
  /\ train_window \in Nat \ {0}
  /\ train_stride \in 1..train_window
  /\ special_tokens \in BOOLEAN
  /\ corpus \in Nat
  /\ left \in 0..corpus
  /\ base \in Nat
  /\ size \in Nat
  /\ next_target \in {0, 1}
  /\ window_start \in Nat
  /\ partial \in BOOLEAN
  /\ windows \in Seq(WalkWindow)
  /\ activity \in {"read", "walk", "done"}

(* Where the chunk boundaries fell leaves no trace: the windows of an      *)
(* epoch are those of the whole stream cut in one piece, so the example    *)
(* numbers a checkpoint cursor counts mean the same in every process.      *)
ChunkingIsInvisible ==
  /\ Len(windows) <= Len(WholeStream)
  /\ \A i \in 1..Len(windows) : windows[i] = WholeStream[i]
  /\ activity = "done" => Len(windows) = Len(WholeStream)

Supervisors(t) ==
  {i \in 1..Len(windows) :
     windows[i].start < t /\ t <= windows[i].start + windows[i].length}

(* From the third stream position on, an epoch supervises every token, and *)
(* with the default stride no token twice.                                 *)
TailIsSupervised ==
  activity = "done" =>
    \A t \in 2..Total - 1 :
      /\ Supervisors(t) # {}
      /\ train_stride = train_window => Cardinality(Supervisors(t)) = 1

(* usage.md: with the default stride "every corpus token is supervised     *)
(* exactly once per epoch". Corpus token 1 follows BOS and has a context.  *)
EveryCorpusTokenSupervisedOnce ==
  activity = "done" /\ special_tokens /\ train_stride = train_window =>
    \A t \in 1..corpus : Cardinality(Supervisors(t)) = 1
=============================================================================
