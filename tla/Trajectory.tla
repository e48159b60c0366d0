----------------------------- MODULE Trajectory -----------------------------
(***************************************************************************)
(* What training promises, seen from outside: the optimizer updates a      *)
(* model has received are always the first updates of ONE fixed sequence,  *)
(* the sequence an uninterrupted run with that seed would perform, however *)
(* often the process dies and is resumed from a saved state.               *)
(* docs/usage.md calls this an exact resume: bit-for-bit the training  *)
(* state of a run that was never interrupted.                              *)
(***************************************************************************)
EXTENDS Naturals, Sequences

CONSTANTS
  Windows,       (* Training examples (windows) one epoch of the corpus has. *)
  BatchSize,     (* Examples per minibatch.                                  *)
  Accumulation,  (* Minibatches averaged into one optimizer update.          *)
  Seeds          (* Run seeds: each determines its own trajectory.           *)

VARIABLES
  log,    (* The updates the live model has received, oldest first.  *)
  saved   (* The update sequences some saved state can bring back.   *)

GroupSize == BatchSize * Accumulation
UpdatesPerEpoch == (Windows + GroupSize - 1) \div GroupSize

(***************************************************************************)
(* The contribution of one example to an update: which example of which    *)
(* epoch, the index of the minibatch it was shuffled in (the shuffle seed  *)
(* is a function of seed, epoch and that index) and the position of the    *)
(* model's dropout RNG when the example ran.                               *)
(***************************************************************************)
Example(seed, epoch, window, microbatch, rng) ==
  [seed |-> seed, epoch |-> epoch, window |-> window,
   microbatch |-> microbatch, rng |-> rng]

(* The k-th update of the uninterrupted run: one accumulation group of its *)
(* epoch, cut short only by the end of the epoch.                          *)
Update(seed, k) ==
  LET epoch == (k - 1) \div UpdatesPerEpoch
      first == ((k - 1) % UpdatesPerEpoch) * GroupSize
      size  == IF Windows - first < GroupSize THEN Windows - first ELSE GroupSize
  IN  [i \in 1..size |->
         Example(seed, epoch, first + i, (first + i - 1) \div BatchSize,
                 epoch * Windows + first + i - 1)]

Uninterrupted(seed, n) == [k \in 1..n |-> Update(seed, k)]

Init == log = << >> /\ saved = {}

Train(seed) ==
  /\ log = Uninterrupted(seed, Len(log))
  /\ log' = Append(log, Update(seed, Len(log) + 1))
  /\ UNCHANGED saved

(* A save may take the place of states that are exactly as old.            *)
Save ==
  /\ \E replaced \in SUBSET {l \in saved : Len(l) = Len(log)} :
       saved' = (saved \ replaced) \cup {log}
  /\ UNCHANGED log

(* A saved state is given up only while one at least as advanced remains.  *)
Forget ==
  /\ \E old \in saved :
       /\ \E kept \in saved \ {old} : Len(kept) >= Len(old)
       /\ saved' = saved \ {old}
  /\ UNCHANGED log

(* The process ends, in whatever way: the live model is gone.              *)
Lose == log' = << >> /\ UNCHANGED saved

Recover ==
  /\ log = << >>
  /\ log' \in saved
  /\ UNCHANGED saved

Next ==
  \/ \E seed \in Seeds : Train(seed)
  \/ Save
  \/ Forget
  \/ Lose
  \/ Recover

Spec == Init /\ [][Next]_<<log, saved>>
=============================================================================
