-------------------------- MODULE TrainingRunProofs --------------------------
(***************************************************************************)
(* What holds of the training process for every corpus size, batch size,   *)
(* accumulation, checkpoint interval and retention, and any number of      *)
(* processes that crash and resume.                                        *)
(*                                                                         *)
(* First: variables keep their types, replay never rejects a checkpoint    *)
(* the program wrote, and the file that --resume latest selects is whole.  *)
(*                                                                         *)
(* Then docs/usage.md's exact resume: a model in memory, in a checkpoint or*)
(* published is the model of a run that was never interrupted, at the place*)
(* recorded beside it, and the process implements Trajectory. The invariant*)
(* has three parts: every file under a final name records a model and the  *)
(* place it was trained to (RecordedInv); the bundle is a whole run's; and *)
(* at each place in main.c the model, the gradients and the minibatch are  *)
(* the uninterrupted run's there (PlaceInv).                               *)
(***************************************************************************)
EXTENDS TrainingRun, Arithmetic, FiniteSetTheorems

(* A cursor between two minibatches, or at the end of the epoch.           *)
Aligned(cursor) ==
  /\ cursor <= Windows
  /\ cursor % BatchSize = 0 \/ cursor = Windows

(* The accumulator before the end of its epoch: while it replays, it counts*)
(* the slots of the minibatch the cursor is in; past the replayed prefix,  *)
(* it holds exactly the windows since the last full minibatch.             *)
AccumulatorInv ==
  /\ acc.prediction_cursor <= Windows
  /\ Aligned(acc.resume_skip)
  /\ acc.prediction_cursor <= acc.resume_skip =>
       /\ acc.microbatch = << >>
       /\ acc.replay_slots = acc.prediction_cursor % BatchSize
  /\ acc.prediction_cursor > acc.resume_skip /\ acc.prediction_cursor < Windows =>
       /\ acc.replay_slots = 0
       /\ Len(acc.microbatch) = acc.prediction_cursor % BatchSize

(* A running process has been launched, so its Pid is not 0.               *)
PidInv == Up => Pid > 0

FilesInv ==
  \A f \in files : Aligned(f.state.step_in_epoch) /\ (f.pid = 0 => f.complete)

(* The inductive invariant: every recorded cursor, in memory or on disk,   *)
(* is aligned, so replay ends between two minibatches.                     *)
IInv ==
  /\ TypeOK
  /\ AccumulatorInv
  /\ Aligned(state.step_in_epoch)
  /\ FilesInv
  /\ PidInv
  /\ NeverRejectsOwnCheckpoint

-----------------------------------------------------------------------------
(* The operators of one optimizer update keep the types.                   *)

LEMMA NewTypes ==
  /\ NewModel \in Model
  /\ ZeroState \in RunState
  /\ \A skip \in Nat : NewAccumulator(skip) \in Accumulator
  BY DEF NewModel, Model, ZeroState, NewState, RunState, NewAccumulator,
         Accumulator

LEMMA AccumulateType ==
  ASSUME NEW m \in Model, NEW a \in Accumulator, epoch \in Nat,
         state \in RunState
  PROVE  Accumulate(m, a) \in Model
<1> DEFINE base == IF a.pending_samples = 0 THEN << >> ELSE m.grads
           examples == [i \in 1..Len(a.microbatch) |->
                          [seed |-> state.seed, epoch |-> epoch,
                           window |-> a.microbatch[i],
                           microbatch |-> a.microbatch_index,
                           rng |-> m.rng + i - 1]]
<1>1. /\ a.microbatch \in Seq(Nat) /\ a.microbatch_index \in Nat
      /\ m.rng \in Nat /\ m.grads \in Seq(Example) /\ state.seed \in Nat
  BY DEF Accumulator, Model, RunState
<1>2. base \in Seq(Example)
  BY <1>1
<1>3. examples \in Seq(Example)
  <2>1. ASSUME NEW i \in 1..Len(a.microbatch)
        PROVE  [seed |-> state.seed, epoch |-> epoch,
                window |-> a.microbatch[i],
                microbatch |-> a.microbatch_index,
                rng |-> m.rng + i - 1] \in Example
    BY <1>1 DEF Example
  <2>2. Len(a.microbatch) \in Nat
    BY <1>1
  <2> QED BY <2>1, <2>2
<1>4. base \o examples \in Seq(Example)
  BY <1>2, <1>3
<1>5. m.rng + Len(a.microbatch) \in Nat
  BY <1>1
<1> QED BY <1>4, <1>5 DEF Accumulate, Model

LEMMA AfterMicrobatchType ==
  ASSUME NEW a \in Accumulator
  PROVE  AfterMicrobatch(a) \in Accumulator
<1>1. /\ a.microbatch_index + 1 \in Nat
      /\ a.pending_samples + Len(a.microbatch) \in Nat
      /\ a.pending_microbatches + 1 \in Nat
      /\ << >> \in Seq(Nat)
  BY DEF Accumulator
<1> QED BY <1>1 DEF AfterMicrobatch, Accumulator

LEMMA ApplyType ==
  ASSUME NEW m \in Model
  PROVE  Apply(m) \in Model
<1>1. /\ m.log \in Seq(Seq(Example)) /\ m.grads \in Seq(Example)
      /\ m.training_steps + 1 \in Nat
  BY DEF Model
<1>2. Append(m.log, m.grads) \in Seq(Seq(Example))
  BY <1>1
<1> QED BY <1>1, <1>2 DEF Apply, Model

LEMMA PositionType ==
  ASSUME NEW a \in Accumulator, epoch \in Nat, state \in RunState
  PROVE  /\ Position(a) \in RunState
         /\ Position(a).step_in_epoch = a.prediction_cursor
  BY DEF Position, RunState, Accumulator

(* Committing keeps the types and the accumulator's place in the epoch,    *)
(* and records that place.                                                 *)
LEMMA CommitFacts ==
  ASSUME TypeOK, NEW m \in Model, NEW a \in Accumulator,
         NEW next \in {"stream", "epochEnd"}, Commit(m, a, next)
  PROVE  /\ model' \in Model /\ acc' \in Accumulator /\ state' \in RunState
         /\ pc' \in {next, "create"}
         /\ ret' \in {"stream", "epochEnd", "publish"}
         /\ acc'.prediction_cursor = a.prediction_cursor
         /\ acc'.resume_skip = a.resume_skip
         /\ acc'.replay_slots = a.replay_slots
         /\ acc'.microbatch = a.microbatch
         /\ \/ state' = state
            \/ state'.step_in_epoch = a.prediction_cursor
<1>1. CASE a.pending_samples = 0
  BY <1>1 DEF Commit, TypeOK
<1>2. CASE a.pending_samples # 0
  <2>1. model' = Apply(m) /\ state' = Position(a)
    BY <1>2 DEF Commit
  <2>2. acc' = [a EXCEPT !.pending_microbatches = 0, !.pending_samples = 0]
    BY <1>2 DEF Commit
  <2>3. pc' \in {next, "create"} /\ ret' \in {ret, next}
    BY <1>2 DEF Commit
  <2>4. acc' \in Accumulator
    BY <2>2 DEF Accumulator
  <2>5. /\ acc'.prediction_cursor = a.prediction_cursor
        /\ acc'.resume_skip = a.resume_skip
        /\ acc'.replay_slots = a.replay_slots
        /\ acc'.microbatch = a.microbatch
    BY <2>2 DEF Accumulator
  <2> QED BY <2>1, <2>3, <2>4, <2>5, ApplyType, PositionType DEF TypeOK
<1> QED BY <1>1, <1>2

(* A full or final minibatch: it enters the gradients, and leaves its      *)
(* place empty whether or not its group is committed.                      *)
LEMMA ProcessMicrobatchFacts ==
  ASSUME TypeOK, NEW a \in Accumulator, NEW next \in {"stream", "epochEnd"},
         ProcessMicrobatch(a, next)
  PROVE  /\ model' \in Model /\ acc' \in Accumulator /\ state' \in RunState
         /\ pc' \in {next, "create"}
         /\ ret' \in {"stream", "epochEnd", "publish"}
         /\ acc'.prediction_cursor = a.prediction_cursor
         /\ acc'.resume_skip = a.resume_skip
         /\ acc'.replay_slots = a.replay_slots
         /\ acc'.microbatch = << >>
         /\ \/ state' = state
            \/ state'.step_in_epoch = a.prediction_cursor
<1> DEFINE m == Accumulate(model, a)
           b == AfterMicrobatch(a)
<1>1. m \in Model /\ b \in Accumulator
  BY AccumulateType, AfterMicrobatchType DEF TypeOK
<1>2. /\ b.prediction_cursor = a.prediction_cursor
      /\ b.resume_skip = a.resume_skip
      /\ b.replay_slots = a.replay_slots
      /\ b.microbatch = << >>
  BY DEF AfterMicrobatch, Accumulator
<1>3. CASE CommitDue(b)
  <2>1. Commit(m, b, next)
    BY <1>3 DEF ProcessMicrobatch
  <2> HIDE DEF m, b
  <2> QED BY <2>1, <1>1, <1>2, CommitFacts
<1>4. CASE ~CommitDue(b)
  BY <1>1, <1>2, <1>4 DEF ProcessMicrobatch, TypeOK
<1> QED BY <1>3, <1>4

-----------------------------------------------------------------------------
(* The initial state and the exits.                                        *)

LEMMA ZeroIsAligned == Aligned(0)
<1>1. 0 % BatchSize = 0
  BY TrainingRunAssumption, ModSmall, 0 \in 0..BatchSize - 1
<1> QED BY <1>1, TrainingRunAssumption DEF Aligned

(* A new accumulator, for an epoch with or without a replayed prefix.      *)
LEMMA NewAccumulatorInv ==
  ASSUME NEW skip \in Nat, Aligned(skip), acc' = NewAccumulator(skip)
  PROVE  acc' \in Accumulator /\ AccumulatorInv'
<1>1. acc' \in Accumulator
  BY NewTypes
<1>2. 0 % BatchSize = 0
  BY TrainingRunAssumption, ModSmall, 0 \in 0..BatchSize - 1
<1>3. /\ acc'.prediction_cursor = 0 /\ acc'.resume_skip = skip
      /\ acc'.microbatch = << >> /\ acc'.replay_slots = 0
  BY DEF NewAccumulator
<1> QED BY <1>1, <1>2, <1>3, TrainingRunAssumption
        DEF AccumulatorInv, Aligned

LEMMA InitIInv == Init => IInv
<1> SUFFICES ASSUME Init PROVE IInv
  OBVIOUS
<1>1. TypeOK
  BY NewTypes DEF Init, TypeOK, PCs, Exits, NewModel
<1>2. AccumulatorInv
  <2>1. 0 % BatchSize = 0
    BY TrainingRunAssumption, ModSmall, 0 \in 0..BatchSize - 1
  <2> QED BY <2>1, TrainingRunAssumption, ZeroIsAligned
          DEF Init, AccumulatorInv, NewAccumulator
<1>3. Aligned(state.step_in_epoch)
  BY ZeroIsAligned DEF Init, ZeroState, NewState
<1> QED BY <1>1, <1>2, <1>3
        DEF Init, IInv, FilesInv, PidInv, Up, Exits, NeverRejectsOwnCheckpoint

(* Every exit but a rejection leaves a process that can be launched again. *)
LEMMA ExitFacts ==
  ASSUME TypeOK, NEW how \in {"down", "done"}, Exit(how)
  PROVE  /\ pc' = how /\ ret' \in {"stream", "epochEnd", "publish"}
         /\ epoch' \in Nat /\ acc' \in Accumulator /\ model' \in Model
         /\ state' \in RunState
         /\ AccumulatorInv' /\ Aligned(state'.step_in_epoch)
<1>1. acc' \in Accumulator /\ AccumulatorInv'
  BY ZeroIsAligned, NewAccumulatorInv DEF Exit
<1>2. Aligned(state'.step_in_epoch)
  BY ZeroIsAligned DEF Exit, ZeroState, NewState
<1> QED BY <1>1, <1>2, NewTypes DEF Exit

(* An exit that leaves a sound directory keeps the invariant.              *)
LEMMA ExitIInv ==
  ASSUME IInv, NEW how \in {"down", "done"}, Exit(how),
         files' \subseteq File, FilesInv',
         bundle' \in Bundle \cup {NoBundle}, UNCHANGED launches
  PROVE  IInv'
<1>1. /\ pc' = how /\ ret' \in {"stream", "epochEnd", "publish"}
      /\ epoch' \in Nat /\ acc' \in Accumulator /\ model' \in Model
      /\ state' \in RunState
      /\ AccumulatorInv' /\ Aligned(state'.step_in_epoch)
  BY ExitFacts DEF IInv
<1>2. TypeOK'
  BY <1>1 DEF TypeOK, IInv, PCs, Exits, launches
<1>3. PidInv' /\ NeverRejectsOwnCheckpoint'
  BY <1>1 DEF PidInv, Up, Exits, NeverRejectsOwnCheckpoint
<1>4. Aligned(state.step_in_epoch)'
  BY <1>1 DEF Aligned
<1> QED BY <1>1, <1>2, <1>3, <1>4 DEF IInv

-----------------------------------------------------------------------------
(* Launching.                                                              *)

LEMMA StartIInv ==
  ASSUME IInv, NEW seed \in Seeds, NEW target \in Targets,
         NEW interval \in Intervals, NEW keep \in Keeps,
         Start(seed, target, interval, keep)
  PROVE  IInv'
<1>1. state' \in RunState /\ state'.step_in_epoch = 0
  BY TrainingRunAssumption DEF Start, NewState, RunState
<1>2. acc' \in Accumulator /\ AccumulatorInv'
  BY ZeroIsAligned, NewAccumulatorInv DEF Start
<1>3. model' \in Model
  BY NewTypes DEF Start
<1>4. starts \in Nat /\ resumes \in Nat /\ starts' = starts + 1 /\ resumes' = resumes
  BY DEF Start, IInv, TypeOK
<1>5. TypeOK'
  BY <1>1, <1>2, <1>3, <1>4 DEF Start, TypeOK, IInv, PCs
<1>6. Aligned(state.step_in_epoch)'
  BY <1>1, ZeroIsAligned DEF Aligned
<1>7. PidInv'
  BY <1>4 DEF PidInv, Pid
<1>8. FilesInv' /\ NeverRejectsOwnCheckpoint'
  BY DEF Start, IInv, FilesInv, NeverRejectsOwnCheckpoint, Aligned
<1> QED BY <1>2, <1>5, <1>6, <1>7, <1>8 DEF IInv

LEMMA ResumeIInv ==
  ASSUME IInv, NEW f \in Listed,
         NEW target \in Targets \cup {f.state.target_epochs},
         NEW interval \in Intervals, NEW keep \in Keeps,
         Resume(f, target, interval, keep)
  PROVE  IInv'
<1>1. f \in File /\ Aligned(f.state.step_in_epoch)
  BY DEF IInv, TypeOK, FilesInv, Listed
<1>2. f.state \in RunState /\ f.model \in Model
  BY <1>1 DEF File
<1>3. state' \in RunState /\ state'.step_in_epoch = f.state.step_in_epoch
  BY <1>2, TrainingRunAssumption DEF Resume, RunState
<1>4. acc' \in Accumulator /\ AccumulatorInv'
  <2>1. f.state.step_in_epoch \in Nat
    BY <1>2 DEF RunState
  <2> QED BY <2>1, <1>1, NewAccumulatorInv DEF Resume
<1>5. starts \in Nat /\ resumes \in Nat /\ starts' = starts /\ resumes' = resumes + 1
  BY DEF Resume, IInv, TypeOK
<1>6. TypeOK'
  <2>1. epoch' \in Nat
    BY <1>2 DEF Resume, RunState
  <2>2. model' \in Model
    BY <1>2 DEF Resume
  <2> QED BY <1>3, <1>4, <1>5, <2>1, <2>2 DEF Resume, TypeOK, IInv, PCs
<1>7. Aligned(state.step_in_epoch)'
  BY <1>1, <1>3 DEF Aligned
<1>8. PidInv'
  BY <1>5 DEF PidInv, Pid
<1>9. FilesInv' /\ NeverRejectsOwnCheckpoint'
  BY DEF Resume, IInv, FilesInv, NeverRejectsOwnCheckpoint, Aligned
<1> QED BY <1>4, <1>6, <1>7, <1>8, <1>9 DEF IInv

-----------------------------------------------------------------------------
(* The epoch loop. What its steps leave alone keeps the parts of the       *)
(* invariant that concern the directory and the launches.                  *)

LEMMA RunningIInv ==
  ASSUME IInv, Up, pc' \in PCs, pc' # "rejected",
         ret' \in {"stream", "epochEnd", "publish"}, epoch' \in Nat,
         acc' \in Accumulator, model' \in Model, state' \in RunState,
         AccumulatorInv', Aligned(state'.step_in_epoch),
         files' \subseteq File, FilesInv', UNCHANGED <<bundle, launches>>
  PROVE  IInv'
<1>1. TypeOK'
  BY DEF TypeOK, IInv, launches
<1>2. PidInv'
  BY DEF PidInv, IInv, Pid, launches
<1>3. Aligned(state.step_in_epoch)'
  BY DEF Aligned
<1> QED BY <1>1, <1>2, <1>3 DEF IInv, NeverRejectsOwnCheckpoint

LEMMA BeginEpochIInv == IInv /\ BeginEpoch => IInv'
<1> SUFFICES ASSUME IInv, BeginEpoch PROVE IInv'
  OBVIOUS
<1>1. acc' \in Accumulator /\ AccumulatorInv'
  <2>1. CASE acc' = EpochAccumulator
    <3>1. acc.resume_skip \in Nat /\ Aligned(acc.resume_skip)
      BY DEF IInv, TypeOK, AccumulatorInv, Accumulator
    <3> QED BY <2>1, <3>1, NewAccumulatorInv DEF EpochAccumulator
  <2>2. CASE acc' = acc
    BY <2>2 DEF IInv, TypeOK, AccumulatorInv, Aligned
  <2> QED BY <2>1, <2>2 DEF BeginEpoch
<1>2. FilesInv' /\ files' \subseteq File
  BY DEF BeginEpoch, IInv, TypeOK, FilesInv, Aligned
<1>3. Up /\ pc' \in {"stream", "final"}
  BY DEF BeginEpoch, Up, Exits
<1>4. pc' \in PCs /\ pc' # "rejected"
  BY <1>3 DEF PCs
<1> QED BY <1>1, <1>2, <1>3, <1>4, RunningIInv DEF BeginEpoch, IInv, TypeOK

(* One more window takes one more slot, and a full minibatch starts over.  *)
LEMMA NextSlot ==
  ASSUME NEW c \in Nat
  PROVE  /\ c % BatchSize \in 0..(BatchSize - 1)
         /\ (c % BatchSize) + 1 = BatchSize => (c + 1) % BatchSize = 0
         /\ (c % BatchSize) + 1 # BatchSize =>
              (c + 1) % BatchSize = (c % BatchSize) + 1
<1> DEFINE r == c % BatchSize
<1>1. BatchSize \in Nat \ {0}
  BY TrainingRunAssumption
<1>2. r \in 0..(BatchSize - 1)
  BY <1>1, DivMod
<1>3. (c + 1) % BatchSize = IF r = BatchSize - 1 THEN 0 ELSE r + 1
  BY <1>1, ModSucc
<1> HIDE DEF r
<1>4. r + 1 = BatchSize <=> r = BatchSize - 1
  BY <1>1, <1>2
<1>5. /\ r + 1 = BatchSize => (c + 1) % BatchSize = 0
      /\ r + 1 # BatchSize => (c + 1) % BatchSize = r + 1
  BY <1>3, <1>4
<1> QED BY <1>2, <1>5 DEF r

LEMMA ReplayWindowIInv == IInv /\ ReplayWindow => IInv'
<1> SUFFICES ASSUME IInv, ReplayWindow PROVE IInv'
  OBVIOUS
<1> DEFINE c == acc.prediction_cursor
<1>1. /\ c \in Nat /\ acc.resume_skip \in Nat /\ acc.replay_slots \in Nat
      /\ acc.microbatch_index \in Nat /\ acc \in Accumulator
  BY DEF IInv, TypeOK, Accumulator
<1>2. /\ c < Windows /\ c + 1 <= acc.resume_skip /\ Aligned(acc.resume_skip)
      /\ acc.microbatch = << >> /\ acc.replay_slots = c % BatchSize
  BY <1>1 DEF IInv, AccumulatorInv, ReplayWindow
<1>3. /\ acc'.prediction_cursor = c + 1
      /\ acc'.resume_skip = acc.resume_skip
      /\ acc'.microbatch = acc.microbatch
      /\ acc'.replay_slots =
           IF acc.replay_slots + 1 = BatchSize THEN 0 ELSE acc.replay_slots + 1
  BY <1>1 DEF ReplayWindow, Replay, Accumulator
<1>4. acc' \in Accumulator
  <2>1. acc.replay_slots + 1 \in Nat /\ acc.microbatch_index + 1 \in Nat
        /\ c + 1 \in Nat
    BY <1>1
  <2> QED BY <1>1, <2>1 DEF ReplayWindow, Replay, Accumulator
<1>5. acc'.replay_slots = (c + 1) % BatchSize
  BY <1>1, <1>2, <1>3, NextSlot
<1>6. AccumulatorInv'
  <2>1. Aligned(acc'.resume_skip)
    BY <1>2, <1>3
  <2>2. acc'.prediction_cursor <= Windows
    BY <1>1, <1>2, <1>3, TrainingRunAssumption
  <2>3. acc'.prediction_cursor <= acc'.resume_skip
    BY <1>2, <1>3
  <2>4. acc'.microbatch = << >>
    BY <1>2, <1>3
  <2> HIDE DEF c
  <2> QED BY <2>1, <2>2, <2>3, <2>4, <1>1, <1>3, <1>5
          DEF AccumulatorInv, Aligned
<1>7. FilesInv' /\ files' \subseteq File
  BY DEF ReplayWindow, IInv, TypeOK, FilesInv, Aligned
<1> QED
  BY <1>4, <1>6, <1>7, RunningIInv
     DEF ReplayWindow, IInv, TypeOK, PCs, Up, Exits

LEMMA TrainWindowIInv == IInv /\ TrainWindow => IInv'
<1> SUFFICES ASSUME IInv, TrainWindow PROVE IInv'
  OBVIOUS
<1> DEFINE c == acc.prediction_cursor
           a == [acc EXCEPT !.prediction_cursor = c + 1,
                            !.microbatch = Append(@, c + 1)]
<1>1. /\ TypeOK /\ acc \in Accumulator /\ c \in Nat /\ acc.resume_skip \in Nat
      /\ acc.microbatch \in Seq(Nat) /\ Windows \in Nat
      /\ BatchSize \in Nat \ {0}
  BY TrainingRunAssumption DEF IInv, TypeOK, Accumulator
<1>2. c < Windows /\ c + 1 > acc.resume_skip /\ Aligned(acc.resume_skip)
  BY DEF TrainWindow, IInv, AccumulatorInv
<1>3. acc.replay_slots = 0 /\ Len(acc.microbatch) = c % BatchSize
  <2>1. CASE c = acc.resume_skip
    <3>1. c % BatchSize = 0
      BY <2>1, <1>1, <1>2 DEF Aligned
    <3>2. acc.microbatch = << >> /\ acc.replay_slots = c % BatchSize
      BY <2>1, <1>1 DEF IInv, AccumulatorInv
    <3> QED BY <3>1, <3>2
  <2>2. CASE c > acc.resume_skip
    BY <2>2, <1>2 DEF IInv, AccumulatorInv
  <2> QED BY <2>1, <2>2, <1>1, <1>2
<1>4. /\ a \in Accumulator /\ a.prediction_cursor = c + 1
      /\ a.resume_skip = acc.resume_skip /\ a.replay_slots = 0
      /\ Len(a.microbatch) = (c % BatchSize) + 1
  <2>1. /\ c + 1 \in Nat /\ Append(acc.microbatch, c + 1) \in Seq(Nat)
        /\ Len(Append(acc.microbatch, c + 1)) = Len(acc.microbatch) + 1
    BY <1>1
  <2>2. /\ a \in Accumulator /\ a.prediction_cursor = c + 1
        /\ a.resume_skip = acc.resume_skip
        /\ a.replay_slots = acc.replay_slots
        /\ a.microbatch = Append(acc.microbatch, c + 1)
    BY <1>1, <2>1 DEF Accumulator
  <2> QED BY <2>1, <2>2, <1>3
<1>5. /\ (c % BatchSize) + 1 = BatchSize => (c + 1) % BatchSize = 0
      /\ (c % BatchSize) + 1 # BatchSize =>
           (c + 1) % BatchSize = (c % BatchSize) + 1
      /\ MicrobatchFull(a) <=> (c % BatchSize) + 1 = BatchSize
  BY <1>1, <1>4, NextSlot DEF MicrobatchFull
<1>6. /\ IF MicrobatchFull(a)
           THEN ProcessMicrobatch(a, "stream") /\ UNCHANGED epoch
           ELSE acc' = a /\ UNCHANGED <<pc, ret, epoch, model, state>>
      /\ pc = "stream" /\ UNCHANGED <<files, bundle, launches>>
  BY <1>3 DEF TrainWindow
<1> HIDE DEF a
<1>7. FilesInv' /\ files' \subseteq File /\ epoch' \in Nat /\ Up
  BY <1>6 DEF IInv, TypeOK, FilesInv, Aligned, Up, Exits
<1>8. /\ acc' \in Accumulator /\ model' \in Model /\ state' \in RunState
      /\ pc' \in PCs /\ pc' # "rejected"
      /\ ret' \in {"stream", "epochEnd", "publish"}
      /\ acc'.prediction_cursor = c + 1
      /\ acc'.resume_skip = acc.resume_skip
      /\ acc'.replay_slots = 0
      /\ Len(acc'.microbatch) = (c + 1) % BatchSize
      /\ Aligned(state'.step_in_epoch)
  <2>1. CASE MicrobatchFull(a)
    <3>1. /\ model' \in Model /\ acc' \in Accumulator /\ state' \in RunState
          /\ pc' \in {"stream", "create"}
          /\ ret' \in {"stream", "epochEnd", "publish"}
          /\ acc'.prediction_cursor = a.prediction_cursor
          /\ acc'.resume_skip = a.resume_skip
          /\ acc'.replay_slots = a.replay_slots
          /\ acc'.microbatch = << >>
          /\ \/ state' = state
             \/ state'.step_in_epoch = a.prediction_cursor
      BY <2>1, <1>1, <1>4, <1>6, ProcessMicrobatchFacts
    <3>2. (c + 1) % BatchSize = 0
      BY <2>1, <1>5
    <3>3. Aligned(state'.step_in_epoch)
      <4>1. Aligned(c + 1)
        BY <3>2, <1>1, <1>2 DEF Aligned
      <4> QED BY <3>1, <4>1, <1>4 DEF IInv
    <3> QED BY <3>1, <3>2, <3>3, <1>4 DEF PCs
  <2>2. CASE ~MicrobatchFull(a)
    <3>1. acc' = a /\ UNCHANGED <<pc, ret, model, state>>
      BY <2>2, <1>6
    <3> QED BY <2>2, <3>1, <1>1, <1>4, <1>5, <1>6
            DEF TypeOK, IInv, PCs
  <2> QED BY <2>1, <2>2
<1>9. AccumulatorInv'
  <2>1. acc'.prediction_cursor <= Windows
    BY <1>1, <1>2, <1>8
  <2>2. ~(acc'.prediction_cursor <= acc'.resume_skip)
    BY <1>1, <1>2, <1>8
  <2>3. Aligned(acc'.resume_skip)
    BY <1>2, <1>8
  <2> HIDE DEF c
  <2> QED BY <2>1, <2>2, <2>3, <1>8 DEF AccumulatorInv, Aligned
<1> QED BY <1>6, <1>7, <1>8, <1>9, RunningIInv

LEMMA FinishStreamIInv == IInv /\ FinishStream => IInv'
<1> SUFFICES ASSUME IInv, FinishStream PROVE IInv'
  OBVIOUS
<1>1. /\ TypeOK /\ acc \in Accumulator /\ model \in Model /\ Windows \in Nat
      /\ acc.resume_skip \in Nat
  BY TrainingRunAssumption DEF IInv, TypeOK, Accumulator
<1>2. /\ acc.prediction_cursor = Windows /\ acc.resume_skip <= Windows
      /\ Aligned(acc.resume_skip) /\ Aligned(Windows)
  BY <1>1 DEF FinishStream, IInv, AccumulatorInv, Aligned
<1>3. FilesInv' /\ files' \subseteq File /\ Up /\ UNCHANGED <<bundle, launches>>
  BY DEF FinishStream, IInv, TypeOK, FilesInv, Aligned, Up, Exits
<1>4. CASE acc.prediction_cursor = acc.resume_skip
  <2>1. pc' = "epochEnd" /\ UNCHANGED <<ret, epoch, acc, model, state>>
    BY <1>1, <1>2, <1>4 DEF FinishStream
  <2> QED BY <2>1, <1>3, RunningIInv
          DEF IInv, TypeOK, AccumulatorInv, Aligned, PCs
<1>5. CASE acc.prediction_cursor # acc.resume_skip
  <2> DEFINE some == acc.microbatch # << >>
             m == IF some THEN Accumulate(model, acc) ELSE model
             a == IF some THEN AfterMicrobatch(acc) ELSE acc
  <2>1. m \in Model /\ a \in Accumulator
    BY <1>1, AccumulateType, AfterMicrobatchType DEF TypeOK
  <2>2. /\ a.prediction_cursor = Windows
        /\ a.resume_skip = acc.resume_skip
    BY <1>1, <1>2 DEF AfterMicrobatch, Accumulator
  <2>3. Commit(m, a, "epochEnd") /\ UNCHANGED epoch
    BY <1>1, <1>2, <1>5 DEF FinishStream
  <2> HIDE DEF m, a
  <2>4. /\ model' \in Model /\ acc' \in Accumulator /\ state' \in RunState
        /\ pc' \in {"epochEnd", "create"}
        /\ ret' \in {"stream", "epochEnd", "publish"}
        /\ acc'.prediction_cursor = Windows
        /\ acc'.resume_skip = acc.resume_skip
        /\ \/ state' = state
           \/ state'.step_in_epoch = Windows
    BY <1>1, <2>1, <2>2, <2>3, CommitFacts
  <2>5. Aligned(state'.step_in_epoch)
    BY <2>4, <1>2 DEF IInv
  <2>6. AccumulatorInv'
    BY <2>4, <1>1, <1>2, <1>5 DEF AccumulatorInv, Aligned
  <2>7. epoch' \in Nat /\ pc' \in PCs /\ pc' # "rejected"
    BY <2>3, <2>4, <1>1 DEF TypeOK, PCs
  <2> QED BY <2>4, <2>5, <2>6, <2>7, <1>3, RunningIInv
<1> QED BY <1>4, <1>5

LEMMA EndEpochIInv == IInv /\ EndEpoch => IInv'
<1> SUFFICES ASSUME IInv, EndEpoch PROVE IInv'
  OBVIOUS
<1>1. acc' \in Accumulator /\ AccumulatorInv'
  BY ZeroIsAligned, NewAccumulatorInv DEF EndEpoch
<1>2. state' \in RunState /\ state'.step_in_epoch = 0 /\ epoch' \in Nat
  <2>1. state \in RunState /\ epoch \in Nat
    BY DEF IInv, TypeOK
  <2>2. epoch + 1 \in Nat /\ 0 \in Nat
    BY <2>1
  <2> QED BY <2>1, <2>2 DEF EndEpoch, RunState
<1>3. Aligned(state'.step_in_epoch)
  BY <1>2, ZeroIsAligned
<1>4. FilesInv' /\ files' \subseteq File
  BY DEF EndEpoch, IInv, TypeOK, FilesInv, Aligned
<1> QED BY <1>1, <1>2, <1>3, <1>4, RunningIInv
        DEF EndEpoch, IInv, TypeOK, PCs, Up, Exits

(* The steps that leave the accumulator alone.                             *)
LEMMA SameAccumulator ==
  ASSUME IInv, acc' = acc
  PROVE  acc' \in Accumulator /\ AccumulatorInv'
  BY DEF IInv, TypeOK, AccumulatorInv, Aligned

LEMMA FinalCheckpointIInv == IInv /\ FinalCheckpoint => IInv'
<1> SUFFICES ASSUME IInv, FinalCheckpoint PROVE IInv'
  OBVIOUS
<1>1. acc' \in Accumulator /\ AccumulatorInv'
  BY SameAccumulator DEF FinalCheckpoint
<1>2. /\ state' \in RunState /\ Aligned(state'.step_in_epoch)
      /\ pc' \in {"create", "publish"}
      /\ ret' \in {"stream", "epochEnd", "publish"}
  <2>1. state \in RunState /\ Aligned(state.step_in_epoch)
        /\ ret \in {"stream", "epochEnd", "publish"}
    BY DEF IInv, TypeOK
  <2>2. CASE state.checkpoint_interval > 0
    <3>1. state' = [state EXCEPT !.epoch_index = state.target_epochs,
                                 !.step_in_epoch = 0]
      BY <2>2 DEF FinalCheckpoint
    <3>2. state' \in RunState /\ state'.step_in_epoch = 0
      BY <3>1, <2>1 DEF RunState
    <3> QED BY <2>2, <3>2, ZeroIsAligned DEF FinalCheckpoint
  <2>3. CASE ~(state.checkpoint_interval > 0)
    BY <2>1, <2>3 DEF FinalCheckpoint
  <2> QED BY <2>2, <2>3
<1>3. FilesInv' /\ files' \subseteq File
  BY DEF FinalCheckpoint, IInv, TypeOK, FilesInv, Aligned
<1> QED BY <1>1, <1>2, <1>3, RunningIInv
        DEF FinalCheckpoint, IInv, TypeOK, PCs, Up, Exits

LEMMA PublishIInv == IInv /\ Publish => IInv'
<1> SUFFICES ASSUME IInv, Publish PROVE IInv'
  OBVIOUS
<1>1. bundle' \in Bundle \cup {NoBundle}
  BY DEF Publish, IInv, TypeOK, Bundle, RunState, Model
<1>2. FilesInv' /\ files' \subseteq File
  BY DEF Publish, IInv, TypeOK, FilesInv, Aligned
<1> QED BY <1>1, <1>2, ExitIInv DEF Publish

-----------------------------------------------------------------------------
(* checkpoint_save.                                                        *)

LEMMA EntryFacts ==
  ASSUME IInv, NEW pid \in Nat, NEW complete \in BOOLEAN
  PROVE  /\ Entry(pid, complete) \in File
         /\ Entry(pid, complete).pid = pid
         /\ Entry(pid, complete).complete = complete
         /\ Aligned(Entry(pid, complete).state.step_in_epoch)
  BY DEF Entry, File, IInv, TypeOK

(* A step that only rewrites the directory, and moves on.                  *)
LEMMA DirectoryIInv ==
  ASSUME IInv, Up, pc' \in PCs, pc' # "rejected",
         UNCHANGED <<ret, epoch, acc, model, state, bundle, launches>>,
         files' \subseteq File, FilesInv'
  PROVE  IInv'
<1>1. acc' \in Accumulator /\ AccumulatorInv'
  BY SameAccumulator
<1> QED BY <1>1, RunningIInv DEF IInv, TypeOK

LEMMA SaveIInv == IInv /\ (CreateTemp \/ WriteTemp \/ RenameTemp) => IInv'
<1> SUFFICES ASSUME IInv, CreateTemp \/ WriteTemp \/ RenameTemp PROVE IInv'
  OBVIOUS
<1>1. /\ Up /\ pc' \in PCs /\ pc' # "rejected"
      /\ UNCHANGED <<ret, epoch, acc, model, state, bundle, launches>>
  BY DEF CreateTemp, WriteTemp, RenameTemp, Up, Exits, PCs
<1>2. Pid \in Nat /\ Pid # 0
  BY <1>1 DEF IInv, TypeOK, PidInv, Pid
<1>3. PICK e \in {Entry(Pid, FALSE), Entry(Pid, TRUE), Entry(0, TRUE)} :
        files' \subseteq files \cup {e}
  BY DEF CreateTemp, WriteTemp, RenameTemp
<1>4. /\ e \in File /\ Aligned(e.state.step_in_epoch)
      /\ e.pid = 0 => e.complete
  BY <1>2, <1>3, EntryFacts
<1>5. \A f \in files' : /\ f \in File /\ Aligned(f.state.step_in_epoch)
                        /\ f.pid = 0 => f.complete
  BY <1>3, <1>4 DEF IInv, TypeOK, FilesInv
<1>6. FilesInv' /\ files' \subseteq File
  BY <1>5 DEF FilesInv, Aligned
<1> QED BY <1>1, <1>6, DirectoryIInv

LEMMA RemoveIInv ==
  IInv /\ (PruneFile \/ EndSave \/ FailSave \/ Crash) => IInv'
<1> SUFFICES ASSUME IInv, PruneFile \/ EndSave \/ FailSave \/ Crash PROVE IInv'
  OBVIOUS
<1>1. files' \subseteq files
  BY DEF PruneFile, EndSave, FailSave, Crash
<1>2. FilesInv' /\ files' \subseteq File
  BY <1>1 DEF IInv, TypeOK, FilesInv, Aligned
<1>3. CASE PruneFile \/ EndSave
  <2>1. Up /\ pc' \in PCs /\ pc' # "rejected"
    BY <1>3 DEF PruneFile, EndSave, process, Up, Exits, PCs, IInv, TypeOK
  <2>2. UNCHANGED <<ret, epoch, acc, model, state, bundle, launches>>
    BY <1>3 DEF PruneFile, EndSave, process
  <2> QED BY <1>2, <2>1, <2>2, DirectoryIInv
<1>4. CASE FailSave \/ Crash
  BY <1>2, <1>4, ExitIInv DEF FailSave, Crash, IInv, TypeOK
<1> QED BY <1>3, <1>4

-----------------------------------------------------------------------------
(* The theorems.                                                           *)

LEMMA NextIInv == IInv /\ [Next]_vars => IInv'
<1> SUFFICES ASSUME IInv, [Next]_vars PROVE IInv'
  OBVIOUS
<1>1. CASE Launch
  <2>1. ASSUME NEW f \in Listed,
               \E target \in Targets \cup {f.state.target_epochs},
                  interval \in Intervals, keep \in Keeps :
                 Resume(f, target, interval, keep)
        PROVE  IInv'
    BY <2>1, ResumeIInv
  <2>2. CASE ResumeLatest
    BY <2>1, <2>2 DEF ResumeLatest, IsLatest
  <2>3. CASE ResumeFile
    BY <2>1, <2>3 DEF ResumeFile
  <2> QED BY <1>1, <2>2, <2>3, StartIInv DEF Launch
<1>2. CASE Work
  BY <1>2, BeginEpochIInv, ReplayWindowIInv, TrainWindowIInv,
     FinishStreamIInv, EndEpochIInv, FinalCheckpointIInv, SaveIInv,
     RemoveIInv, PublishIInv DEF Work
<1>3. CASE FailSave \/ Crash
  BY <1>3, RemoveIInv
<1>4. CASE UNCHANGED vars
  <2>1. AccumulatorInv'
    BY <1>4, SameAccumulator DEF vars
  <2> QED BY <1>4, <2>1
          DEF vars, IInv, TypeOK, FilesInv, Aligned, PidInv, Up, Pid,
              NeverRejectsOwnCheckpoint
<1> QED BY <1>1, <1>2, <1>3, <1>4 DEF Next

(* Every reachable state is sound: cursors are aligned wherever they are   *)
(* recorded, and a file under a final name is whole.                       *)
THEOREM Invariance == Spec => []IInv
  BY InitIInv, NextIInv, PTL DEF Spec

(* mode_train and checkpoint_save keep every variable in its type.         *)
THEOREM TypeCorrect == Spec => []TypeOK
<1>1. IInv => TypeOK
  BY DEF IInv
<1> QED BY <1>1, Invariance, PTL

(* Replay accepts every checkpoint the program wrote, whatever the batch   *)
(* size, the accumulation and the corpus: submit_training_prediction's     *)
(* "cursor falls inside a minibatch" and FinishStream's "cursor is beyond  *)
(* the epoch" are unreachable from the program's own checkpoints.          *)
THEOREM ReplayNeverRejects == Spec => []NeverRejectsOwnCheckpoint
<1>1. IInv => NeverRejectsOwnCheckpoint
  BY DEF IInv
<1> QED BY <1>1, Invariance, PTL

(* Whenever a process dies in checkpoint_save, the file that --resume      *)
(* latest selects afterwards is one whose bytes were all synced.           *)
THEOREM LatestIsWhole == Spec => []LatestIsLoadable
<1>1. IInv => LatestIsLoadable
  BY DEF IInv, FilesInv, LatestIsLoadable, Loadable, IsLatest, Listed
<1> QED BY <1>1, Invariance, PTL

-----------------------------------------------------------------------------
(* Exact resume.                                                           *)

(* The updates that bring an epoch to cursor c.                            *)
UpdatesBy(c) == (c + GroupSize - 1) \div GroupSize

(* A cursor at the end of a complete accumulation group or of the epoch.   *)
GroupAligned(c) == c = Windows \/ \E q \in Nat : c = GroupSize * q /\ c <= Windows

(* Model m is the uninterrupted run's at cursor c of epoch e.              *)
ModelAt(m, seed, e, c) ==
  /\ m.rng = e * Windows + c
  /\ m.training_steps = e * Promise!UpdatesPerEpoch + UpdatesBy(c)
  /\ m.log = Promise!Uninterrupted(seed, m.training_steps)

(* What a checkpoint records: model m, trained up to the position in s.    *)
Recorded(m, s) ==
  /\ s.seed \in Seeds
  /\ s.epoch_index <= s.target_epochs
  /\ s.epoch_index = s.target_epochs => s.step_in_epoch = 0
  /\ GroupAligned(s.step_in_epoch)
  /\ ModelAt(m, s.seed, s.epoch_index, s.step_in_epoch)

(* The first n examples of group q of the epoch being trained.             *)
Examples(q, n) ==
  [i \in 1..n |->
     Promise!Example(state.seed, epoch, GroupSize * q + i,
                     (GroupSize * q + i - 1) \div BatchSize,
                     epoch * Windows + GroupSize * q + i - 1)]

(* Model m has received q updates of this epoch and holds the gradients of *)
(* the next n examples.                                                    *)
Gathered(m, n, q) ==
  /\ m.rng = epoch * Windows + GroupSize * q + n
  /\ m.training_steps = epoch * Promise!UpdatesPerEpoch + q
  /\ m.log = Promise!Uninterrupted(state.seed, m.training_steps)
  /\ n > 0 => m.grads = Examples(q, n)

(* The next group is spread over the gradients and the minibatch.          *)
Spread(m, a, q) ==
  /\ Gathered(m, a.pending_samples, q)
  /\ a.pending_microbatches < Accumulation
  /\ a.pending_samples = BatchSize * a.pending_microbatches
  /\ a.prediction_cursor =
       GroupSize * q + a.pending_samples + Len(a.microbatch)
  /\ a.microbatch_index = Accumulation * q + a.pending_microbatches
  /\ \A i \in 1..Len(a.microbatch) :
       a.microbatch[i] = GroupSize * q + a.pending_samples + i

(* Past the replayed prefix, between two windows.                          *)
InGroup(q) == Len(acc.microbatch) < BatchSize /\ Spread(model, acc, q)

(* Inside the replayed prefix: nothing is pending, and the model is where  *)
(* the prefix ends.                                                        *)
Replaying ==
  /\ acc.pending_samples = 0
  /\ acc.pending_microbatches = 0
  /\ acc.microbatch_index = acc.prediction_cursor \div BatchSize
  /\ GroupAligned(acc.resume_skip)
  /\ ModelAt(model, state.seed, epoch, acc.resume_skip)

(* The head of the epoch loop, the token stream, the end of an epoch and   *)
(* the end of the run.                                                     *)
AtEpoch ==
  /\ epoch <= state.target_epochs
  /\ epoch = state.target_epochs => acc.resume_skip = 0
  /\ GroupAligned(acc.resume_skip)
  /\ ModelAt(model, state.seed, epoch, acc.resume_skip)

InStream ==
  /\ epoch < state.target_epochs
  /\ acc.prediction_cursor <= acc.resume_skip => Replaying
  /\ acc.prediction_cursor > acc.resume_skip => \E q \in Nat : InGroup(q)

AtEpochEnd ==
  /\ epoch < state.target_epochs
  /\ ModelAt(model, state.seed, epoch, Windows)

AtEnd ==
  /\ epoch = state.target_epochs
  /\ ModelAt(model, state.seed, epoch, 0)

Saving == {"create", "write", "rename", "prune"}

(* Where the process is, or is on its way to from checkpoint_save.         *)
At(step) == pc = step \/ (pc \in Saving /\ ret = step)

PlaceInv ==
  /\ Up => state.seed \in Seeds
  /\ pc = "epoch" => AtEpoch
  /\ At("stream") => InStream
  /\ At("epochEnd") => AtEpochEnd
  /\ pc = "final" \/ At("publish") => AtEnd
  /\ pc \in Saving \ {"prune"} => Recorded(model, state)

RecordedInv == \A f \in files : Recorded(f.model, f.state)

TrajectoryInv == PlaceInv /\ RecordedInv /\ BundleIsWholeRun

-----------------------------------------------------------------------------
(* Counting windows in groups.                                             *)

(* The sizes are naturals, and the abstract specification's are the same.  *)
LEMMA Sizes ==
  /\ Windows \in Nat /\ BatchSize \in Nat \ {0} /\ Accumulation \in Nat \ {0}
  /\ GroupSize \in Nat \ {0} /\ Promise!GroupSize = GroupSize
  /\ Promise!UpdatesPerEpoch = UpdatesBy(Windows)
  /\ \A c \in Nat : UpdatesBy(c) \in Nat
<1>1. Windows \in Nat /\ BatchSize \in Nat \ {0} /\ Accumulation \in Nat \ {0}
  BY TrainingRunAssumption
<1>2. GroupSize \in Nat \ {0}
  BY <1>1, SMT DEF GroupSize
<1>3. Promise!GroupSize = GroupSize
  BY DEF GroupSize, Promise!GroupSize
<1>4. ASSUME NEW c \in Nat PROVE UpdatesBy(c) \in Nat
  <2>1. c + GroupSize - 1 \in Nat
    BY <1>2
  <2> QED BY <1>2, <2>1, DivMod DEF UpdatesBy
<1>5. Promise!UpdatesPerEpoch = UpdatesBy(Windows)
  BY <1>3 DEF UpdatesBy, Promise!UpdatesPerEpoch
<1> QED BY <1>1, <1>2, <1>3, <1>4, <1>5

(* A quotient is determined by its bounds.                                 *)
LEMMA DivUnique ==
  ASSUME NEW n \in Nat \ {0}, NEW q \in Nat, NEW r \in 0..n - 1
  PROVE  (n * q + r) \div n = q
<1> DEFINE i == n * q + r
<1>1. n * q \in Nat /\ i \in Nat
  BY SMT
<1>2. i = n * (i \div n) + (i % n) /\ i \div n \in Nat /\ i % n \in 0..n - 1
  BY <1>1, DivMod
<1>3. i % n = r
  BY ModUnique
<1>4. n * (i \div n) = n * q
  <2> DEFINE d == i \div n
  <2>1. i = n * d + r /\ d \in Nat /\ i = n * q + r
    BY <1>2, <1>3
  <2>2. n * d \in Nat
    BY <2>1, SMT
  <2> HIDE DEF d, i
  <2> QED BY <1>1, <2>1, <2>2
<1> QED BY <1>2, <1>4, SMT

(* Products distribute over sums of naturals.                              *)
LEMMA Distributes ==
  ASSUME NEW n \in Nat, NEW i \in Nat, NEW j \in Nat
  PROVE  n * (i + j) = n * i + n * j
  BY SMT

(* Multiples of the group size.                                            *)
LEMMA Multiples ==
  ASSUME NEW q \in Nat
  PROVE  /\ GroupSize * q \in Nat /\ GroupSize * 0 = 0
         /\ GroupSize * (q + 1) = GroupSize * q + GroupSize
         /\ Accumulation * q \in Nat
         /\ Accumulation * (q + 1) = Accumulation * q + Accumulation
         /\ BatchSize * q \in Nat /\ BatchSize * 0 = 0
         /\ BatchSize * (q + 1) = BatchSize * q + BatchSize
         /\ BatchSize * (Accumulation * q) = GroupSize * q
         /\ BatchSize * Accumulation = GroupSize
<1>1. /\ BatchSize \in Nat /\ Accumulation \in Nat /\ GroupSize \in Nat
  BY Sizes
<1>2. /\ GroupSize * q \in Nat /\ GroupSize * 0 = 0
      /\ GroupSize * (q + 1) = GroupSize * q + GroupSize
  BY <1>1, SMT
<1>3. /\ Accumulation * q \in Nat
      /\ Accumulation * (q + 1) = Accumulation * q + Accumulation
  BY <1>1, SMT
<1>4. /\ BatchSize * q \in Nat /\ BatchSize * 0 = 0
      /\ BatchSize * (q + 1) = BatchSize * q + BatchSize
  BY <1>1, SMT
<1>5. BatchSize * (Accumulation * q) = GroupSize * q
  BY <1>1, SMT DEF GroupSize
<1> QED BY <1>2, <1>3, <1>4, <1>5 DEF GroupSize

(* A cursor inside or at the end of group q + 1 takes q + 1 updates.       *)
LEMMA UpdatesInGroup ==
  ASSUME NEW q \in Nat, NEW c \in Nat,
         GroupSize * q < c, c <= GroupSize * q + GroupSize
  PROVE  UpdatesBy(c) = q + 1
<1> DEFINE r == c - GroupSize * q - 1
<1>1. GroupSize \in Nat \ {0} /\ GroupSize * q \in Nat
      /\ GroupSize * (q + 1) = GroupSize * q + GroupSize
  BY Sizes, Multiples
<1>2. r \in 0..GroupSize - 1
  BY <1>1
<1>3. c + GroupSize - 1 = GroupSize * (q + 1) + r
  BY <1>1
<1>4. (GroupSize * (q + 1) + r) \div GroupSize = q + 1
  <2> HIDE DEF r
  <2> QED BY <1>1, <1>2, DivUnique, q + 1 \in Nat
<1> QED BY <1>3, <1>4 DEF UpdatesBy

(* q whole groups make q updates.                                          *)
LEMMA UpdatesOfGroups ==
  ASSUME NEW q \in Nat
  PROVE  UpdatesBy(GroupSize * q) = q
<1>1. GroupSize \in Nat \ {0} /\ GroupSize * q \in Nat
  BY Sizes, Multiples
<1>2. GroupSize - 1 \in 0..GroupSize - 1
  BY <1>1
<1>3. (GroupSize * q + (GroupSize - 1)) \div GroupSize = q
  BY <1>1, <1>2, DivUnique
<1> QED BY <1>1, <1>3 DEF UpdatesBy

(* No update before the first window.                                      *)
LEMMA NoUpdates == UpdatesBy(0) = 0
  BY UpdatesOfGroups, Multiples, 0 \in Nat

(* A group that starts inside the epoch is one of its updates.             *)
LEMMA GroupInEpoch ==
  ASSUME NEW q \in Nat, GroupSize * q < Windows
  PROVE  q + 1 <= Promise!UpdatesPerEpoch
<1> DEFINE u == Promise!UpdatesPerEpoch
           g == GroupSize
           n == Windows + g - 1
<1>1. g \in Nat \ {0} /\ Windows \in Nat /\ u \in Nat /\ n \in Nat
      /\ u = n \div g
  BY Sizes DEF UpdatesBy
<1>2. n = g * u + (n % g) /\ n % g \in 0..g - 1
  BY <1>1, DivMod
<1>3. n < g * u + g
  <2> DEFINE r == n % g
             p == g * u
  <2>1. p \in Nat
    BY <1>1, SMT
  <2>2. n = p + r /\ r \in 0..g - 1
    BY <1>2
  <2> HIDE DEF r, p, n, g, u
  <2>3. n < p + g
    BY <1>1, <2>1, <2>2
  <2> QED BY <2>3 DEF p
<1>4. g * q + g <= n
  BY <1>1, Multiples
<1> HIDE DEF u, n, g
<1>5. g * q < g * u
  <2>1. g * q \in Nat /\ g * u \in Nat
    BY <1>1, SMT
  <2> QED BY <1>1, <1>3, <1>4, <2>1
<1>6. ~(u <= q)
  <2> SUFFICES ASSUME u <= q PROVE FALSE
    OBVIOUS
  <2>1. g * u <= g * q
    BY <1>1, SMT
  <2>2. g * q \in Nat /\ g * u \in Nat
    BY <1>1, SMT
  <2> QED BY <1>5, <2>1, <2>2
<1>7. q + 1 <= u
  BY <1>1, <1>6
<1> QED BY <1>7 DEF u

-----------------------------------------------------------------------------
(* The uninterrupted run.                                                  *)

(* An epoch has a natural number of updates.                               *)
LEMMA UpdatesPerEpochType == Promise!UpdatesPerEpoch \in Nat
  BY Sizes

(* The update that follows q groups of epoch e.                            *)
LEMMA UpdateOfGroup ==
  ASSUME NEW seed, NEW e \in Nat, NEW q \in Nat, NEW n \in Nat,
         GroupSize * q < Windows,
         n = IF Windows - GroupSize * q < GroupSize
             THEN Windows - GroupSize * q ELSE GroupSize
  PROVE  Promise!Update(seed, e * Promise!UpdatesPerEpoch + q + 1) =
           [i \in 1..n |->
              Promise!Example(seed, e, GroupSize * q + i,
                              (GroupSize * q + i - 1) \div BatchSize,
                              e * Windows + GroupSize * q + i - 1)]
<1> DEFINE u == Promise!UpdatesPerEpoch
           k == e * u + q + 1
<1>1. u \in Nat \ {0} /\ q \in 0..u - 1
  BY UpdatesPerEpochType, GroupInEpoch
<1>2. k - 1 = u * e + q
  <2> HIDE DEF u
  <2>1. e * u \in Nat /\ e * u = u * e
    BY <1>1, SMT
  <2> QED BY <1>1, <2>1
<1>3. (u * e + q) \div u = e /\ (u * e + q) % u = q
  <2> HIDE DEF u
  <2> QED BY <1>1, DivUnique, ModUnique
<1>4. (k - 1) \div u = e /\ ((k - 1) % u) * Promise!GroupSize = GroupSize * q
  <2>1. q * GroupSize = GroupSize * q
    BY Sizes, SMT
  <2> HIDE DEF u, k
  <2> QED BY <1>2, <1>3, <2>1, Sizes
<1> HIDE DEF k
<1> QED BY <1>4, Sizes, Zenon DEF Promise!Update, u, k

(* The uninterrupted run's log grows by one update at a time.              *)
LEMMA UninterruptedFacts ==
  ASSUME NEW seed, NEW n \in Nat
  PROVE  /\ Len(Promise!Uninterrupted(seed, n)) = n
         /\ n > 0 => Promise!Uninterrupted(seed, n)[n] = Promise!Update(seed, n)
         /\ Promise!Uninterrupted(seed, 0) = << >>
         /\ Append(Promise!Uninterrupted(seed, n), Promise!Update(seed, n + 1)) =
              Promise!Uninterrupted(seed, n + 1)
<1> DEFINE S == {Promise!Update(seed, k) : k \in 1..n + 1}
           s == Promise!Uninterrupted(seed, n)
           t == Promise!Uninterrupted(seed, n + 1)
           e == Promise!Update(seed, n + 1)
<1>1. s = [k \in 1..n |-> Promise!Update(seed, k)]
  BY DEF Promise!Uninterrupted
<1>2. t = [k \in 1..n + 1 |-> Promise!Update(seed, k)]
  BY DEF Promise!Uninterrupted
<1>3. s \in Seq(S) /\ Len(s) = n /\ e \in S
  <2>1. \A k \in 1..n : Promise!Update(seed, k) \in S
    OBVIOUS
  <2>2. s \in [1..n -> S]
    BY <1>1, <2>1
  <2>3. e \in S
    BY n + 1 \in 1..n + 1
  <2> HIDE DEF s, S, e
  <2> QED BY <2>2, <2>3
<1>4. t \in Seq(S) /\ Len(t) = n + 1
  <2>1. t \in [1..n + 1 -> S]
    BY <1>2
  <2> HIDE DEF t, S
  <2> QED BY <2>1
<1>5. Append(s, e) = t
  <2>1. \A k \in 1..n : s[k] = t[k]
    BY <1>1, <1>2
  <2>2. t[n + 1] = e
    BY <1>2
  <2> HIDE DEF s, t, S, e
  <2> QED BY <1>3, <1>4, <2>1, <2>2
<1>6. n > 0 => s[n] = Promise!Update(seed, n)
  BY <1>1
<1>7. Promise!Uninterrupted(seed, 0) = << >>
  BY DEF Promise!Uninterrupted
<1> QED BY <1>3, <1>5, <1>6, <1>7

-----------------------------------------------------------------------------
(* One group.                                                              *)

(* Sequences of one length that agree everywhere are equal.                *)
LEMMA SeqEqual ==
  ASSUME NEW S, NEW s \in Seq(S), NEW t \in Seq(S),
         Len(s) = Len(t), \A i \in 1..Len(s) : s[i] = t[i]
  PROVE  s = t
  OBVIOUS

(* A sequence that continues s with t is their concatenation.              *)
LEMMA Joined ==
  ASSUME NEW S, NEW s \in Seq(S), NEW t \in Seq(S), NEW r \in Seq(S),
         Len(r) = Len(s) + Len(t),
         \A i \in 1..Len(s) : r[i] = s[i],
         \A i \in 1..Len(t) : r[Len(s) + i] = t[i]
  PROVE  s \o t = r
<1>1. s \o t \in Seq(S) /\ Len(s \o t) = Len(r)
  OBVIOUS
<1>2. ASSUME NEW i \in 1..Len(r)
      PROVE  (s \o t)[i] = r[i]
  <2>1. CASE i <= Len(s)
    BY <2>1
  <2>2. CASE i > Len(s)
    <3>1. i - Len(s) \in 1..Len(t) /\ i = Len(s) + (i - Len(s))
      BY <2>2
    <3>2. r[i] = t[i - Len(s)]
      BY <3>1
    <3>3. (s \o t)[i] = t[i - Len(s)]
      BY <2>2
    <3> QED BY <3>2, <3>3
  <2> QED BY <2>1, <2>2
<1> QED BY <1>1, <1>2, SeqEqual

(* A function on 1..n is a sequence of length n.                           *)
LEMMA LiteralSeq ==
  ASSUME NEW S, NEW n \in Nat, NEW f \in [1..n -> S]
  PROVE  f \in Seq(S) /\ Len(f) = n
  OBVIOUS

(* The examples of a group form a sequence.                                *)
LEMMA ExamplesType ==
  ASSUME TypeOK, NEW q \in Nat, NEW n \in Nat
  PROVE  Examples(q, n) \in Seq(Example) /\ Len(Examples(q, n)) = n
<1>1. /\ GroupSize * q \in Nat /\ BatchSize \in Nat \ {0} /\ Windows \in Nat
      /\ epoch \in Nat /\ state.seed \in Nat
  BY Multiples, Sizes DEF TypeOK, RunState
<1>2. epoch * Windows \in Nat
  BY <1>1, SMT
<1>3. ASSUME NEW i \in 1..n
      PROVE  Promise!Example(state.seed, epoch, GroupSize * q + i,
                     (GroupSize * q + i - 1) \div BatchSize,
                     epoch * Windows + GroupSize * q + i - 1) \in Example
  <2>1. GroupSize * q + i - 1 \in Nat
    BY <1>1
  <2>2. (GroupSize * q + i - 1) \div BatchSize \in Nat
    BY <1>1, <2>1, DivMod
  <2>3. GroupSize * q + i \in Nat /\ epoch * Windows + GroupSize * q + i - 1 \in Nat
    BY <1>1, <1>2
  <2> QED BY <1>1, <2>2, <2>3 DEF Promise!Example, Example
<1>4. Examples(q, n) \in [1..n -> Example]
  BY <1>3 DEF Examples
<1> HIDE DEF Examples
<1> QED BY <1>4, LiteralSeq

(* A minibatch enters the gradients of its group.                          *)
LEMMA AccumulateGathers ==
  ASSUME TypeOK, NEW m \in Model, NEW a \in Accumulator, NEW q \in Nat,
         Spread(m, a, q), Len(a.microbatch) \in 1..BatchSize
  PROVE  Gathered(Accumulate(m, a), a.pending_samples + Len(a.microbatch), q)
<1> DEFINE n == a.pending_samples
           l == Len(a.microbatch)
           base == IF n = 0 THEN << >> ELSE m.grads
           examples == [i \in 1..l |->
                          [seed |-> state.seed, epoch |-> epoch,
                           window |-> a.microbatch[i],
                           microbatch |-> a.microbatch_index,
                           rng |-> m.rng + i - 1]]
           x == Accumulate(m, a)
<1>1. /\ n \in Nat /\ l \in Nat /\ l <= BatchSize
      /\ a.pending_microbatches \in Nat /\ a.microbatch_index \in Nat
      /\ m.rng \in Nat
  BY DEF Accumulator, Model
<1>2. /\ GroupSize * q \in Nat /\ BatchSize \in Nat \ {0} /\ epoch * Windows \in Nat
  <2>1. epoch \in Nat /\ Windows \in Nat
    BY Sizes DEF TypeOK
  <2>2. epoch * Windows \in Nat
    BY <2>1, SMT
  <2> QED BY <2>2, Multiples, Sizes
<1>3. x = [m EXCEPT !.grads = base \o examples, !.rng = @ + l]
  BY DEF Accumulate
<1>4. base = Examples(q, n)
  <2>1. CASE n = 0
    BY <2>1 DEF Examples
  <2>2. CASE n # 0
    BY <2>2, <1>1 DEF Spread, Gathered
  <2> QED BY <2>1, <2>2
<1>5. ASSUME NEW i \in 1..l
      PROVE  examples[i] = Examples(q, n + l)[n + i]
  <2>1. a.microbatch[i] = GroupSize * q + n + i
    BY DEF Spread
  <2>2. m.rng + i - 1 = epoch * Windows + GroupSize * q + (n + i) - 1
    <3>1. m.rng = epoch * Windows + GroupSize * q + n
      BY DEF Spread, Gathered
    <3> HIDE DEF n
    <3> QED BY <3>1, <1>1, <1>2
  <2>3. a.microbatch_index = (GroupSize * q + (n + i) - 1) \div BatchSize
    <3> DEFINE p == a.pending_microbatches
               k == Accumulation * q + p
    <3>1. k \in Nat /\ n = BatchSize * p /\ a.microbatch_index = k
      BY <1>1, Multiples DEF Spread
    <3>2. BatchSize * k = GroupSize * q + n
      <4>1. Accumulation * q \in Nat /\ BatchSize \in Nat /\ p \in Nat
        BY <1>1, <1>2, Multiples
      <4>2. BatchSize * k = BatchSize * (Accumulation * q) + BatchSize * p
        BY <4>1, Distributes
      <4> QED BY <4>2, <3>1, Multiples
    <3>3. i - 1 \in 0..BatchSize - 1
      BY <1>1, <1>2
    <3> HIDE DEF k, p, n
    <3>4. (BatchSize * k + (i - 1)) \div BatchSize = k
      BY <3>1, <3>3, <1>2, DivUnique
    <3>5. BatchSize * k + (i - 1) = GroupSize * q + (n + i) - 1
      BY <3>2, <3>3, <1>1, <1>2
    <3> QED BY <3>1, <3>4, <3>5
  <2>4. n + i \in 1..n + l
    BY <1>1
  <2>5. Examples(q, n + l)[n + i] =
          Promise!Example(state.seed, epoch, GroupSize * q + (n + i),
                     (GroupSize * q + (n + i) - 1) \div BatchSize,
                     epoch * Windows + GroupSize * q + (n + i) - 1)
    <3> HIDE DEF n, l
    <3> QED BY <2>4 DEF Examples
  <2>6. GroupSize * q + n + i = GroupSize * q + (n + i)
    BY <1>1, <1>2
  <2>7. examples[i] =
          [seed |-> state.seed, epoch |-> epoch,
           window |-> GroupSize * q + (n + i),
           microbatch |-> (GroupSize * q + (n + i) - 1) \div BatchSize,
           rng |-> epoch * Windows + GroupSize * q + (n + i) - 1]
    BY <2>1, <2>2, <2>3, <2>6
  <2> HIDE DEF examples
  <2> QED BY <2>5, <2>7 DEF Promise!Example
<1>6. base \o examples = Examples(q, n + l)
  <2>1. /\ Examples(q, n) \in Seq(Example) /\ Len(Examples(q, n)) = n
        /\ Examples(q, n + l) \in Seq(Example) /\ Len(Examples(q, n + l)) = n + l
    <3>1. n \in Nat /\ n + l \in Nat
      BY <1>1
    <3> HIDE DEF n, l
    <3> QED BY <3>1, ExamplesType
  <2>2. \A i \in 1..n : Examples(q, n + l)[i] = Examples(q, n)[i]
    BY <1>1 DEF Examples
  <2>3. examples \in Seq(Example) /\ Len(examples) = l
    <3>1. \A i \in 1..l : n + i \in 1..n + l
      BY <1>1
    <3>2. \A i \in 1..l : Examples(q, n + l)[n + i] \in Example
      BY <2>1, <3>1
    <3>3. \A i \in 1..l : examples[i] \in Example
      BY <1>5, <3>2
    <3>4. examples \in [1..l -> Example]
      BY <3>3
    <3> HIDE DEF examples, l
    <3> QED BY <1>1, <3>4, LiteralSeq
  <2> HIDE DEF examples, n, l, base
  <2>4. \A i \in 1..l : Examples(q, n + l)[n + i] = examples[i]
    BY <1>5
  <2>5. ASSUME NEW s, s \in Seq(Example), NEW r, r \in Seq(Example),
               Len(s) = n, Len(r) = n + l,
               \A i \in 1..n : r[i] = s[i],
               \A i \in 1..l : r[n + i] = examples[i]
        PROVE  s \o examples = r
    BY <2>3, <2>5, Joined
  <2>6. Examples(q, n) \o examples = Examples(q, n + l)
    <3> DEFINE s == Examples(q, n)
               r == Examples(q, n + l)
    <3>1. /\ s \in Seq(Example) /\ r \in Seq(Example) /\ Len(s) = n
          /\ Len(r) = n + l
      BY <2>1
    <3>2. /\ \A i \in 1..n : r[i] = s[i]
          /\ \A i \in 1..l : r[n + i] = examples[i]
      BY <2>2, <2>4
    <3> HIDE DEF s, r
    <3>3. s \o examples = r
      BY <3>1, <3>2, <2>5
    <3> QED BY <3>3 DEF s, r
  <2> QED BY <1>4, <2>6
<1>7. /\ x.rng = m.rng + l /\ x.training_steps = m.training_steps
      /\ x.log = m.log /\ x.grads = base \o examples
  <2> HIDE DEF base, examples, l, x
  <2> QED BY <1>3 DEF Model
<1>8. x.rng = epoch * Windows + GroupSize * q + (n + l)
  <2>1. m.rng = epoch * Windows + GroupSize * q + n
    BY DEF Spread, Gathered
  <2> HIDE DEF n, l, x
  <2> QED BY <2>1, <1>1, <1>2, <1>7
<1> HIDE DEF x, n, l, base, examples
<1>9. Gathered(x, n + l, q)
  BY <1>6, <1>7, <1>8 DEF Gathered, Spread
<1> QED BY <1>9 DEF x, n, l

(* A complete group becomes the next update of the uninterrupted run.      *)
LEMMA ApplyGathered ==
  ASSUME TypeOK, NEW m \in Model, NEW q \in Nat, NEW n \in Nat, n > 0,
         Gathered(m, n, q), GroupSize * q + n <= Windows,
         n = GroupSize \/ (n < GroupSize /\ GroupSize * q + n = Windows)
  PROVE  /\ ModelAt(Apply(m), state.seed, epoch, GroupSize * q + n)
         /\ m.log = Promise!Uninterrupted(state.seed, Len(m.log))
         /\ Apply(m).log =
              Append(m.log, Promise!Update(state.seed, Len(m.log) + 1))
<1> DEFINE c == GroupSize * q + n
           k == epoch * Promise!UpdatesPerEpoch + q
<1>1. /\ GroupSize * q \in Nat /\ GroupSize \in Nat \ {0} /\ Windows \in Nat
      /\ epoch \in Nat /\ Promise!UpdatesPerEpoch \in Nat
  BY Sizes, Multiples, UpdatesPerEpochType DEF TypeOK
<1>2. c \in Nat /\ GroupSize * q < c /\ c <= GroupSize * q + GroupSize
  BY <1>1
<1>3. UpdatesBy(c) = q + 1
  <2> HIDE DEF c
  <2> QED BY <1>2, UpdatesInGroup
<1>4. k \in Nat
  <2>1. epoch * Promise!UpdatesPerEpoch \in Nat
    BY <1>1, SMT
  <2> QED BY <2>1
<1>5. m.training_steps = k /\ m.log = Promise!Uninterrupted(state.seed, k)
  BY DEF Gathered
<1>6. Promise!Update(state.seed, k + 1) = m.grads
  <2>1. GroupSize * q < Windows
    BY <1>1
  <2>2. n = IF Windows - GroupSize * q < GroupSize
             THEN Windows - GroupSize * q ELSE GroupSize
    BY <1>1
  <2>3. m.grads = Examples(q, n)
    BY DEF Gathered
  <2>4. Promise!Update(state.seed, epoch * Promise!UpdatesPerEpoch + q + 1) =
          [i \in 1..n |->
              Promise!Example(state.seed, epoch, GroupSize * q + i,
                              (GroupSize * q + i - 1) \div BatchSize,
                              epoch * Windows + GroupSize * q + i - 1)]
    <3> HIDE DEF c, k
    <3>1. epoch \in Nat
      BY <1>1
    <3> QED BY <3>1, <2>1, <2>2, UpdateOfGroup
  <2>5. Promise!Update(state.seed, k + 1) = Examples(q, n)
    BY <2>4 DEF Examples
  <2> QED BY <2>3, <2>5
<1>7. Len(m.log) = k
  BY <1>4, <1>5, UninterruptedFacts
<1>8. Append(m.log, m.grads) = Promise!Uninterrupted(state.seed, k + 1)
  BY <1>4, <1>5, <1>6, UninterruptedFacts
<1>9. /\ Apply(m).log = Append(m.log, m.grads)
      /\ Apply(m).training_steps = k + 1 /\ Apply(m).rng = m.rng
  BY <1>5 DEF Apply, Model
<1>10. m.rng = epoch * Windows + c
  <2>1. epoch * Windows \in Nat
    BY <1>1, SMT
  <2> QED BY <1>1, <2>1 DEF Gathered
<1>11. k + 1 = epoch * Promise!UpdatesPerEpoch + UpdatesBy(c)
  <2>1. epoch * Promise!UpdatesPerEpoch \in Nat
    BY <1>1, SMT
  <2> QED BY <1>3, <2>1
<1> HIDE DEF c, k
<1>12. ModelAt(Apply(m), state.seed, epoch, c)
  BY <1>8, <1>9, <1>10, <1>11 DEF ModelAt
<1> QED BY <1>5, <1>6, <1>7, <1>9, <1>12 DEF c

-----------------------------------------------------------------------------
(* Every step keeps the trajectory.                                        *)

(* The model between two processes, and the one a process starts with.     *)
LEMMA NewModelAt ==
  ASSUME NEW seed
  PROVE  ModelAt(NewModel, seed, 0, 0) /\ GroupAligned(0)
<1>1. /\ 0 * Windows + 0 = 0
      /\ 0 * Promise!UpdatesPerEpoch + UpdatesBy(0) = 0
  BY NoUpdates, UpdatesPerEpochType, Sizes
<1>2. Promise!Uninterrupted(seed, 0) = << >>
  BY UninterruptedFacts, 0 \in Nat
<1>3. GroupAligned(0)
  BY Multiples, Sizes, 0 \in Nat DEF GroupAligned
<1> QED BY <1>1, <1>2, <1>3 DEF ModelAt, NewModel

(* A step that changes neither place, model nor accumulator stays in       *)
(* place.                                                                  *)
LEMMA SamePlace ==
  ASSUME UNCHANGED <<epoch, acc, model, state>>
  PROVE  /\ AtEpoch' <=> AtEpoch
         /\ InStream' <=> InStream
         /\ AtEpochEnd' <=> AtEpochEnd
         /\ AtEnd' <=> AtEnd
<1>1. AtEpoch' <=> AtEpoch
  BY DEF AtEpoch
<1>2. Replaying' <=> Replaying
  BY DEF Replaying
<1>3. ASSUME NEW q \in Nat PROVE InGroup(q)' <=> InGroup(q)
  BY DEF InGroup, Spread, Gathered, Examples
<1>4. InStream' <=> InStream
  BY <1>2, <1>3 DEF InStream
<1>5. AtEpochEnd' <=> AtEpochEnd
  BY DEF AtEpochEnd
<1>6. AtEnd' <=> AtEnd
  BY DEF AtEnd
<1> QED BY <1>1, <1>4, <1>5, <1>6

(* An update of group q from gradients that hold n of its examples: the    *)
(* last n of the epoch, or a whole group.                                  *)
Applies(m, q, n) ==
  /\ n > 0 /\ GroupSize * q + n <= Windows
  /\ n = GroupSize \/ (n < GroupSize /\ GroupSize * q + n = Windows)
  /\ Gathered(m, n, q)

(* The live model is unchanged, or receives the next update.               *)
Advances(m, log) ==
  /\ m.log = Promise!Uninterrupted(state.seed, Len(m.log))
  /\ log = Append(m.log, Promise!Update(state.seed, Len(m.log) + 1))

(* commit_accumulated_training on a group with examples in it.             *)
LEMMA CommitGroup ==
  ASSUME IInv, NEW m \in Model, NEW a \in Accumulator, NEW q \in Nat,
         NEW next, Applies(m, q, a.pending_samples),
         a.prediction_cursor = GroupSize * q + a.pending_samples,
         state.seed \in Seeds, epoch < state.target_epochs,
         Commit(m, a, next)
  PROVE  /\ state'.seed = state.seed
         /\ state'.target_epochs = state.target_epochs
         /\ ModelAt(model', state.seed, epoch, a.prediction_cursor)
         /\ Recorded(model', state')
         /\ acc' = [a EXCEPT !.pending_microbatches = 0, !.pending_samples = 0]
         /\ pc' = next \/ (pc' = "create" /\ ret' = next)
         /\ Advances(m, model'.log)
<1> DEFINE n == a.pending_samples
<1>1. TypeOK /\ n \in Nat /\ n > 0
  BY DEF IInv, Accumulator, Applies
<1>2. /\ model' = Apply(m) /\ state' = Position(a)
      /\ acc' = [a EXCEPT !.pending_microbatches = 0, !.pending_samples = 0]
      /\ pc' = next \/ (pc' = "create" /\ ret' = next)
  BY <1>1 DEF Commit
<1>3. /\ ModelAt(Apply(m), state.seed, epoch, GroupSize * q + n)
      /\ Advances(m, Apply(m).log)
  <2> HIDE DEF n
  <2>1. Applies(m, q, n)
    BY DEF n
  <2> QED BY <1>1, <2>1, ApplyGathered DEF Applies, Advances
<1>4. GroupAligned(a.prediction_cursor)
  <2>1. CASE n = GroupSize
    <3>1. a.prediction_cursor = GroupSize * (q + 1) /\ q + 1 \in Nat
      BY <2>1, Multiples
    <3>2. a.prediction_cursor <= Windows
      BY DEF Applies
    <3> QED BY <3>1, <3>2 DEF GroupAligned
  <2>2. CASE GroupSize * q + n = Windows
    BY <2>2 DEF GroupAligned
  <2> QED BY <2>1, <2>2 DEF Applies
<1>5. /\ state'.seed = state.seed /\ state'.target_epochs = state.target_epochs
      /\ state'.epoch_index = epoch /\ state'.step_in_epoch = a.prediction_cursor
  BY <1>1, <1>2 DEF Position, TypeOK, RunState
<1>6. Recorded(model', state')
  <2>1. epoch \in Nat /\ state.target_epochs \in Nat
    BY <1>1 DEF TypeOK, RunState
  <2> HIDE DEF n
  <2> QED BY <1>2, <1>3, <1>4, <1>5, <2>1 DEF Recorded, n
<1> QED BY <1>2, <1>3, <1>5, <1>6

(* A process in the stream, from what its parts are.                       *)
LEMMA StreamPlace ==
  ASSUME NEW step \in {"stream", "epochEnd"},
         pc' = step \/ (pc' = "create" /\ ret' = step /\ Recorded(model', state')),
         step = "stream" => InStream', step = "epochEnd" => AtEpochEnd',
         state'.seed \in Seeds
  PROVE  PlaceInv'
<1>1. Recorded(model, state)' <=> Recorded(model', state')
  OBVIOUS
<1> QED BY <1>1, Zenon DEF PlaceInv, At, Saving

(* Past the replayed prefix, a group is being gathered.                    *)
LEMMA GroupStarts ==
  ASSUME IInv, InStream, acc.prediction_cursor + 1 > acc.resume_skip,
         acc.prediction_cursor < Windows \/ acc.prediction_cursor > acc.resume_skip
  PROVE  \E q \in Nat : InGroup(q)
<1> DEFINE c == acc.prediction_cursor
<1>1. /\ c \in Nat /\ acc.resume_skip \in Nat /\ acc.microbatch \in Seq(Nat)
  BY DEF IInv, TypeOK, Accumulator
<1>2. CASE c > acc.resume_skip
  BY <1>2 DEF InStream
<1>3. CASE c = acc.resume_skip /\ c < Windows
  <2>1. Replaying /\ acc.microbatch = << >>
    BY <1>1, <1>3 DEF InStream, IInv, AccumulatorInv
  <2>2. PICK q \in Nat : c = GroupSize * q
    <3>1. GroupAligned(c)
      BY <1>3, <2>1 DEF Replaying
    <3>2. c # Windows
      BY <1>1, <1>3, Sizes
    <3> HIDE DEF c
    <3> QED BY <3>1, <3>2 DEF GroupAligned
  <2>3. acc.microbatch_index = Accumulation * q
    <3> DEFINE k == Accumulation * q
    <3>1. k \in Nat /\ c = BatchSize * k + 0 /\ BatchSize \in Nat \ {0}
      <4>1. k \in Nat /\ BatchSize * k = c /\ BatchSize \in Nat \ {0}
        BY <2>2, Multiples, Sizes
      <4> HIDE DEF k, c
      <4> QED BY <4>1, <1>1
    <3>2. 0 \in 0..BatchSize - 1
      BY <3>1
    <3> HIDE DEF k
    <3>3. (BatchSize * k + 0) \div BatchSize = k
      BY <3>1, <3>2, DivUnique
    <3>4. c \div BatchSize = k
      BY <3>1, <3>3
    <3> QED BY <3>4, <2>1 DEF Replaying, k
  <2>4. Gathered(model, 0, q)
    <3>1. UpdatesBy(c) = q
      BY <2>2, UpdatesOfGroups
    <3>2. ModelAt(model, state.seed, epoch, c)
      BY <1>3, <2>1 DEF Replaying
    <3>3. epoch * Windows + GroupSize * q + 0 = epoch * Windows + c
      <4>1. epoch * Windows \in Nat
        <5>1. epoch \in Nat /\ Windows \in Nat
          BY Sizes DEF IInv, TypeOK
        <5> QED BY <5>1, SMT
      <4> HIDE DEF c
      <4> QED BY <1>1, <2>2, <4>1
    <3>4. ~(0 > 0)
      OBVIOUS
    <3> HIDE DEF c
    <3> QED BY <3>1, <3>2, <3>3, <3>4, Zenon DEF ModelAt, Gathered
  <2>5. Len(acc.microbatch) = 0
    BY <2>1
  <2>6. InGroup(q)
    <3>1. BatchSize * 0 = 0 /\ Accumulation * q \in Nat /\ GroupSize * q \in Nat
      BY Multiples, 0 \in Nat
    <3>2. acc.pending_samples = 0 /\ acc.pending_microbatches = 0
      BY <2>1 DEF Replaying
    <3>3. 0 < Accumulation /\ 0 < BatchSize
      BY Sizes
    <3>4. acc.prediction_cursor =
            GroupSize * q + acc.pending_samples + Len(acc.microbatch)
      BY <2>2, <2>5, <3>1, <3>2
    <3>5. acc.microbatch_index = Accumulation * q + acc.pending_microbatches
      BY <2>3, <3>1, <3>2
    <3>6. \A i \in 1..Len(acc.microbatch) : FALSE
      BY <2>5
    <3> HIDE DEF c
    <3>7. /\ Gathered(model, acc.pending_samples, q)
          /\ acc.pending_microbatches < Accumulation
          /\ acc.pending_samples = BatchSize * acc.pending_microbatches
      BY <2>4, <3>1, <3>2, <3>3
    <3>8. Spread(model, acc, q)
      BY <3>4, <3>5, <3>6, <3>7, Zenon DEF Spread
    <3>9. Len(acc.microbatch) < BatchSize
      BY <2>5, <3>3
    <3> QED BY <3>8, <3>9, Zenon DEF InGroup
  <2> QED BY <2>6
<1> QED BY <1>1, <1>2, <1>3

(* A trained window: it waits, completes a minibatch, or commits the       *)
(* group.                                                                  *)
LEMMA TrainWindowPlace ==
  ASSUME IInv, PlaceInv, TrainWindow
  PROVE  /\ PlaceInv' /\ pc' \notin Exits
         /\ model'.log = model.log \/ Advances(model, model'.log)
<1> DEFINE c == acc.prediction_cursor
           a == [acc EXCEPT !.prediction_cursor = c + 1,
                            !.microbatch = Append(@, c + 1)]
<1>1. /\ TypeOK /\ acc \in Accumulator /\ model \in Model /\ c \in Nat
      /\ acc.resume_skip \in Nat /\ acc.microbatch \in Seq(Nat)
      /\ acc.pending_samples \in Nat /\ acc.pending_microbatches \in Nat
      /\ acc.microbatch_index \in Nat
      /\ Windows \in Nat /\ BatchSize \in Nat \ {0} /\ Accumulation \in Nat \ {0}
  BY Sizes DEF IInv, TypeOK, Accumulator
<1>2. /\ pc = "stream" /\ c < Windows /\ c + 1 > acc.resume_skip
      /\ InStream /\ state.seed \in Seeds /\ epoch < state.target_epochs
  BY DEF TrainWindow, PlaceInv, At, InStream, Up, Exits
<1>3. PICK q \in Nat : InGroup(q)
  BY <1>2, GroupStarts
<1>4. pc' # "rejected"
  BY TrainWindowIInv DEF IInv, NeverRejectsOwnCheckpoint
<1>5. IF MicrobatchFull(a)
      THEN ProcessMicrobatch(a, "stream") /\ UNCHANGED epoch
      ELSE acc' = a /\ UNCHANGED <<pc, ret, epoch, model, state>>
  BY <1>4 DEF TrainWindow, Exit
<1>6. /\ a \in Accumulator /\ a.prediction_cursor = c + 1
      /\ a.resume_skip = acc.resume_skip
      /\ a.pending_samples = acc.pending_samples
      /\ a.pending_microbatches = acc.pending_microbatches
      /\ a.microbatch_index = acc.microbatch_index
      /\ a.microbatch = Append(acc.microbatch, c + 1)
  <2>1. c + 1 \in Nat /\ Append(acc.microbatch, c + 1) \in Seq(Nat)
    BY <1>1
  <2> HIDE DEF c
  <2> QED BY <1>1, <2>1 DEF Accumulator
<1>7. /\ Len(a.microbatch) = Len(acc.microbatch) + 1
      /\ Len(acc.microbatch) \in Nat
      /\ \A i \in 1..Len(acc.microbatch) : a.microbatch[i] = acc.microbatch[i]
      /\ a.microbatch[Len(acc.microbatch) + 1] = c + 1
  BY <1>1, <1>6
<1>8. GroupSize * q \in Nat
  BY Multiples
<1> HIDE DEF a
<1>9. Spread(model, a, q)
  <2>1. c = GroupSize * q + acc.pending_samples + Len(acc.microbatch)
    BY <1>3 DEF InGroup, Spread
  <2>2. a.prediction_cursor = GroupSize * q + a.pending_samples + Len(a.microbatch)
    <3> HIDE DEF c
    <3>1. acc.pending_samples \in Nat /\ Len(acc.microbatch) \in Nat
      BY <1>1, <1>7
    <3>2. /\ a.prediction_cursor = c + 1 /\ a.pending_samples = acc.pending_samples
          /\ Len(a.microbatch) = Len(acc.microbatch) + 1
      BY <1>6, <1>7
    <3> QED BY <1>8, <2>1, <3>1, <3>2
  <2>3. ASSUME NEW i \in 1..Len(a.microbatch)
        PROVE  a.microbatch[i] = GroupSize * q + a.pending_samples + i
    <3> HIDE DEF c
    <3>1. CASE i \in 1..Len(acc.microbatch)
      <4>1. acc.microbatch[i] = GroupSize * q + acc.pending_samples + i
        BY <3>1, <1>3 DEF InGroup, Spread
      <4> QED BY <3>1, <4>1, <1>6, <1>7
    <3>2. CASE i = Len(acc.microbatch) + 1
      <4>1. a.microbatch[i] = c + 1
        BY <3>2, <1>7
      <4>2. c + 1 = GroupSize * q + a.pending_samples + i
        <5>1. a.pending_samples = acc.pending_samples
          BY <1>6
        <5>2. c \in Nat /\ acc.pending_samples \in Nat /\ Len(acc.microbatch) \in Nat
          BY <1>1, <1>7
        <5>3. Len(acc.microbatch) + 1 = i
          BY <3>2
        <5> HIDE DEF c
        <5> QED BY <2>1, <5>1, <5>2, <5>3, <1>8
      <4> QED BY <4>1, <4>2
    <3> QED BY <3>1, <3>2, <1>7
  <2> QED BY <1>3, <1>6, <2>2, <2>3 DEF InGroup, Spread
<1>10. Len(acc.microbatch) < BatchSize
  BY <1>3 DEF InGroup
<1>11. CASE ~MicrobatchFull(a)
  <2>1. acc' = a /\ UNCHANGED <<pc, ret, epoch, model, state>>
    BY <1>5, <1>11
  <2>2. InGroup(q)'
    <3>1. Len(a.microbatch) < BatchSize
      BY <1>1, <1>7, <1>11 DEF MicrobatchFull
    <3> QED BY <1>9, <2>1, <3>1 DEF InGroup, Spread, Gathered, Examples
  <2>3. InStream'
    <3>1. acc'.prediction_cursor = c + 1 /\ acc'.resume_skip = acc.resume_skip
      BY <2>1, <1>6
    <3>2. ~(acc'.prediction_cursor <= acc'.resume_skip)
      BY <1>1, <1>2, <3>1
    <3> QED BY <1>2, <2>1, <2>2, <3>2 DEF InStream
  <2>4. pc' = "stream" /\ state'.seed \in Seeds
    BY <1>2, <2>1
  <2>5. PlaceInv'
    BY <2>3, <2>4, StreamPlace
  <2> QED BY <2>1, <2>4, <2>5 DEF Exits
<1>12. CASE MicrobatchFull(a)
  <2> DEFINE m == Accumulate(model, a)
             b == AfterMicrobatch(a)
             n == acc.pending_samples + BatchSize
  <2>1. ProcessMicrobatch(a, "stream") /\ epoch' = epoch
    BY <1>5, <1>12
  <2>2. Len(a.microbatch) = BatchSize
    BY <1>1, <1>7, <1>10, <1>12 DEF MicrobatchFull
  <2>3. Gathered(m, n, q)
    <3>1. Len(a.microbatch) \in 1..BatchSize
      BY <1>1, <2>2
    <3> QED BY <1>1, <1>6, <1>9, <2>2, <3>1, AccumulateGathers
  <2>4. m \in Model /\ b \in Accumulator
    BY <1>1, <1>6, AccumulateType, AfterMicrobatchType DEF TypeOK
  <2>5. /\ b.microbatch = << >> /\ b.pending_samples = n
        /\ b.pending_microbatches = acc.pending_microbatches + 1
        /\ b.microbatch_index = acc.microbatch_index + 1
        /\ b.prediction_cursor = c + 1 /\ b.resume_skip = acc.resume_skip
    BY <1>6, <2>2 DEF AfterMicrobatch, Accumulator
  <2>6. m.log = model.log
    BY <1>1 DEF Accumulate, Model
  <2>7. /\ acc.pending_samples = BatchSize * acc.pending_microbatches
        /\ acc.pending_microbatches < Accumulation
        /\ acc.microbatch_index = Accumulation * q + acc.pending_microbatches
        /\ c + 1 = GroupSize * q + n
        /\ n = BatchSize * (acc.pending_microbatches + 1)
    <3>1. /\ acc.pending_samples = BatchSize * acc.pending_microbatches
          /\ acc.pending_microbatches < Accumulation
          /\ acc.microbatch_index = Accumulation * q + acc.pending_microbatches
          /\ c = GroupSize * q + acc.pending_samples + Len(acc.microbatch)
      BY <1>3 DEF InGroup, Spread
    <3>2. c + 1 = GroupSize * q + n
      <4>1. c = GroupSize * q + acc.pending_samples + Len(acc.microbatch)
        BY <3>1
      <4>2. Len(acc.microbatch) + 1 = BatchSize
        BY <1>7, <2>2
      <4>3. acc.pending_samples \in Nat /\ Len(acc.microbatch) \in Nat
        BY <1>1, <1>7
      <4>4. ASSUME NEW g \in Nat, NEW s \in Nat, NEW l \in Nat
            PROVE  (g + s + l) + 1 = g + (s + (l + 1))
        OBVIOUS
      <4> HIDE DEF c
      <4> QED BY <4>1, <4>2, <4>3, <4>4, <1>8
    <3>3. n = BatchSize * (acc.pending_microbatches + 1)
      <4>1. BatchSize * (acc.pending_microbatches + 1) =
              BatchSize * acc.pending_microbatches + BatchSize
        BY <1>1, Multiples
      <4> QED BY <3>1, <4>1
    <3> QED BY <3>1, <3>2, <3>3
  <2>8. n \in Nat /\ n > 0
    BY <1>1
  <2> HIDE DEF m, b, n
  <2>9. CASE CommitDue(b)
    <3>1. acc.pending_microbatches + 1 = Accumulation
      <4>1. b.pending_microbatches >= Accumulation
        BY <2>9 DEF CommitDue
      <4>2. b.pending_microbatches = acc.pending_microbatches + 1
        BY <2>5
      <4>3. acc.pending_microbatches < Accumulation
        BY <2>7
      <4>4. acc.pending_microbatches \in Nat /\ Accumulation \in Nat
        BY <1>1
      <4> QED BY <4>1, <4>2, <4>3, <4>4
    <3>2. n = GroupSize
      <4>1. n = BatchSize * (acc.pending_microbatches + 1)
        BY <2>7
      <4>2. n = BatchSize * Accumulation
        BY <3>1, <4>1
      <4> QED BY <4>2 DEF GroupSize
    <3>3. Commit(m, b, "stream")
      BY <2>1, <2>9 DEF ProcessMicrobatch, m, b
    <3>4. GroupSize * q + n <= Windows
      BY <1>1, <1>2, <2>7
    <3>5. Applies(m, q, b.pending_samples)
      BY <2>3, <2>5, <2>8, <3>2, <3>4 DEF Applies
    <3>6. b.prediction_cursor = GroupSize * q + b.pending_samples
      BY <2>5, <2>7
    <3>7. /\ state'.seed = state.seed
          /\ state'.target_epochs = state.target_epochs
          /\ ModelAt(model', state.seed, epoch, b.prediction_cursor)
          /\ Recorded(model', state')
          /\ acc' = [b EXCEPT !.pending_microbatches = 0, !.pending_samples = 0]
          /\ pc' = "stream" \/ (pc' = "create" /\ ret' = "stream")
          /\ Advances(m, model'.log)
      BY <1>2, <2>4, <3>3, <3>5, <3>6, CommitGroup
    <3>8. /\ acc'.pending_microbatches = 0 /\ acc'.pending_samples = 0
          /\ acc'.microbatch = << >> /\ acc'.prediction_cursor = c + 1
          /\ acc'.resume_skip = acc.resume_skip
          /\ acc'.microbatch_index = acc.microbatch_index + 1
      <4>1. acc' = [b EXCEPT !.pending_microbatches = 0, !.pending_samples = 0]
        BY <3>7
      <4>2. /\ acc'.pending_microbatches = 0 /\ acc'.pending_samples = 0
            /\ acc'.microbatch = b.microbatch
            /\ acc'.prediction_cursor = b.prediction_cursor
            /\ acc'.resume_skip = b.resume_skip
            /\ acc'.microbatch_index = b.microbatch_index
        BY <2>4, <4>1 DEF Accumulator
      <4> HIDE DEF c
      <4> QED BY <2>5, <4>2
    <3>9. c + 1 = GroupSize * (q + 1) /\ q + 1 \in Nat
      <4>1. c + 1 = GroupSize * q + GroupSize
        BY <2>7, <3>2
      <4>2. GroupSize * (q + 1) = GroupSize * q + GroupSize
        BY Multiples
      <4> HIDE DEF c
      <4> QED BY <4>1, <4>2
    <3>10. ModelAt(model', state'.seed, epoch', GroupSize * (q + 1))
      BY <2>1, <2>5, <3>7, <3>9
    <3>11. Gathered(model, 0, q + 1)'
      <4>1. UpdatesBy(GroupSize * (q + 1)) = q + 1
        BY <3>9, UpdatesOfGroups
      <4>2. epoch * Windows + GroupSize * (q + 1) + 0 =
              epoch * Windows + GroupSize * (q + 1)
        <5>1. epoch \in Nat
          BY <1>1 DEF TypeOK
        <5>2. epoch * Windows \in Nat /\ GroupSize * (q + 1) \in Nat
          BY <5>1, <1>1, <3>9, Multiples, SMT
        <5> QED BY <5>2
      <4>3. ~(0 > 0)
        OBVIOUS
      <4> HIDE DEF c
      <4> QED BY <2>1, <3>10, <4>1, <4>2, <4>3 DEF Gathered, ModelAt
    <3>12. Spread(model, acc, q + 1)'
      <4>1. GroupSize * (q + 1) + 0 + 0 = GroupSize * (q + 1) /\ BatchSize * 0 = 0
        BY <3>9, Multiples
      <4>2. acc.microbatch_index + 1 = Accumulation * (q + 1) + 0
        <5>1. acc.microbatch_index + 1 = Accumulation * q + Accumulation
          <6>1. Accumulation * q \in Nat
            BY Multiples
          <6>2. acc.microbatch_index = Accumulation * q + acc.pending_microbatches
            BY <2>7
          <6>3. acc.pending_microbatches \in Nat
            BY <1>1
          <6> QED BY <3>1, <6>1, <6>2, <6>3
        <5>2. Accumulation * (q + 1) = Accumulation * q + Accumulation
              /\ Accumulation * (q + 1) \in Nat
          BY <3>9, Multiples
        <5> QED BY <5>1, <5>2
      <4>3. Len(acc'.microbatch) = 0 /\ 0 < Accumulation
        BY <3>8, <1>1
      <4>4. \A i \in 1..0 : FALSE
        OBVIOUS
      <4> HIDE DEF c
      <4> QED BY <3>8, <3>9, <3>11, <4>1, <4>2, <4>3, <4>4 DEF Spread
    <3>13. InGroup(q + 1)'
      BY <3>8, <3>12, <1>1 DEF InGroup
    <3>14. InStream'
      <4>1. ~(acc'.prediction_cursor <= acc'.resume_skip)
        BY <1>1, <1>2, <3>8
      <4>2. epoch' < state'.target_epochs
        BY <1>2, <2>1, <3>7
      <4> QED BY <3>9, <3>13, <4>1, <4>2 DEF InStream
    <3>15. PlaceInv'
      BY <1>2, <3>7, <3>14, StreamPlace
    <3>16. Advances(model, model'.log)
      BY <2>6, <3>7 DEF Advances
    <3> QED BY <3>7, <3>15, <3>16 DEF Exits
  <2>10. CASE ~CommitDue(b)
    <3>1. model' = m /\ acc' = b /\ pc' = "stream" /\ state' = state
      BY <2>1, <2>10 DEF ProcessMicrobatch, m, b
    <3>2. acc.pending_microbatches + 1 < Accumulation
      <4>1. ~(b.pending_microbatches >= Accumulation)
        BY <2>10 DEF CommitDue
      <4>2. b.pending_microbatches = acc.pending_microbatches + 1
        BY <2>5
      <4>3. acc.pending_microbatches \in Nat /\ Accumulation \in Nat
        BY <1>1
      <4> QED BY <4>1, <4>2, <4>3
    <3>3. Spread(m, b, q)
      <4>1. b.microbatch_index = Accumulation * q + b.pending_microbatches
        <5>1. Accumulation * q \in Nat
          BY Multiples
        <5> QED BY <5>1, <1>1, <2>5, <2>7
      <4>2. b.prediction_cursor = GroupSize * q + b.pending_samples + Len(b.microbatch)
        BY <1>8, <2>5, <2>7, <2>8
      <4>3. \A i \in 1..Len(b.microbatch) : FALSE
        BY <2>5
      <4> HIDE DEF c
      <4> QED BY <2>3, <2>5, <2>7, <3>2, <4>1, <4>2, <4>3 DEF Spread
    <3>4. InGroup(q)'
      <4>1. Len(b.microbatch) < BatchSize
        BY <1>1, <2>5
      <4> QED BY <2>1, <3>1, <3>3, <4>1 DEF InGroup, Spread, Gathered, Examples
    <3>5. InStream'
      <4>1. ~(acc'.prediction_cursor <= acc'.resume_skip)
        BY <1>1, <1>2, <2>5, <3>1
      <4> QED BY <1>2, <2>1, <3>1, <3>4, <4>1 DEF InStream
    <3>6. PlaceInv'
      BY <1>2, <3>1, <3>5, StreamPlace
    <3> QED BY <2>6, <3>1, <3>6 DEF Exits
  <2> QED BY <2>9, <2>10
<1> QED BY <1>11, <1>12

(* The end of the stream: the last group, complete or not, is applied.     *)
LEMMA FinishStreamPlace ==
  ASSUME IInv, PlaceInv, FinishStream
  PROVE  /\ PlaceInv' /\ pc' \notin Exits
         /\ model'.log = model.log \/ Advances(model, model'.log)
<1>1. /\ TypeOK /\ acc \in Accumulator /\ model \in Model
      /\ acc.resume_skip \in Nat /\ acc.microbatch \in Seq(Nat)
      /\ Len(acc.microbatch) \in Nat
      /\ acc.pending_samples \in Nat /\ acc.pending_microbatches \in Nat
      /\ Windows \in Nat /\ BatchSize \in Nat \ {0} /\ Accumulation \in Nat \ {0}
  <2>1. TypeOK /\ acc \in Accumulator /\ model \in Model
    BY DEF IInv, TypeOK
  <2>2. acc.microbatch \in Seq(Nat)
    BY <2>1 DEF Accumulator
  <2>3. Len(acc.microbatch) \in Nat
    BY <2>2
  <2> QED BY <2>1, <2>2, <2>3, Sizes DEF Accumulator
<1>2. /\ pc = "stream" /\ acc.prediction_cursor = Windows
      /\ acc.resume_skip <= Windows
      /\ InStream /\ state.seed \in Seeds /\ epoch < state.target_epochs
  <2>1. pc = "stream" /\ acc.prediction_cursor = Windows
    BY DEF FinishStream
  <2>2. InStream /\ state.seed \in Seeds
    BY <2>1 DEF PlaceInv, At, Up, Exits
  <2>3. acc.resume_skip <= Windows
    BY DEF IInv, AccumulatorInv, Aligned
  <2> QED BY <2>1, <2>2, <2>3 DEF InStream
<1>3. CASE acc.resume_skip = Windows
  <2>1. pc' = "epochEnd" /\ UNCHANGED <<ret, epoch, acc, model, state>>
    BY <1>1, <1>2, <1>3 DEF FinishStream
  <2>2. ModelAt(model, state.seed, epoch, Windows)
    BY <1>1, <1>2, <1>3 DEF InStream, Replaying
  <2>3. AtEpochEnd'
    BY <1>2, <2>1, <2>2 DEF AtEpochEnd
  <2>4. PlaceInv'
    BY <1>2, <2>1, <2>3, StreamPlace
  <2> QED BY <2>1, <2>4 DEF Exits
<1>4. CASE acc.resume_skip # Windows
  <2> DEFINE some == acc.microbatch # << >>
             m == IF some THEN Accumulate(model, acc) ELSE model
             a == IF some THEN AfterMicrobatch(acc) ELSE acc
             n == acc.pending_samples + Len(acc.microbatch)
  <2>1. Commit(m, a, "epochEnd") /\ UNCHANGED epoch
    BY <1>1, <1>2, <1>4 DEF FinishStream
  <2>2. PICK q \in Nat : InGroup(q)
    BY <1>1, <1>2, <1>4 DEF InStream
  <2>3. GroupSize * q \in Nat /\ GroupSize \in Nat \ {0}
    BY Multiples, Sizes
  <2>4. Gathered(model, acc.pending_samples, q)
    BY <2>2 DEF InGroup, Spread
  <2>5. Windows = GroupSize * q + n
    <3>1. Windows = GroupSize * q + acc.pending_samples + Len(acc.microbatch)
      BY <1>2, <2>2 DEF InGroup, Spread
    <3> QED BY <1>1, <2>3, <3>1
  <2>6. n \in Nat /\ n < GroupSize
    <3> DEFINE p == acc.pending_microbatches
    <3>1. /\ acc.pending_samples = BatchSize * p /\ p < Accumulation
          /\ Len(acc.microbatch) < BatchSize
      BY <2>2 DEF InGroup, Spread
    <3>2. BatchSize * (p + 1) = BatchSize * p + BatchSize /\ BatchSize * p \in Nat
      BY <1>1, Multiples
    <3>3. BatchSize * (p + 1) <= BatchSize * Accumulation
      <4>1. p + 1 <= Accumulation /\ p + 1 \in Nat
        BY <1>1, <3>1
      <4> HIDE DEF p
      <4>2. BatchSize \in Nat /\ Accumulation \in Nat
        BY <1>1
      <4> QED BY <4>1, <4>2, SMT
    <3>4. BatchSize * Accumulation = GroupSize
      BY DEF GroupSize
    <3>5. n = BatchSize * p + Len(acc.microbatch)
      BY <3>1
    <3> HIDE DEF n, p
    <3> QED BY <1>1, <2>3, <3>1, <3>2, <3>3, <3>4, <3>5
  <2>7. m \in Model /\ a \in Accumulator
    BY <1>1, AccumulateType, AfterMicrobatchType DEF TypeOK
  <2>8. /\ a.prediction_cursor = Windows /\ a.resume_skip = acc.resume_skip
        /\ a.pending_samples = n /\ m.log = model.log
    <3>1. CASE some
      <4>1. AfterMicrobatch(acc).pending_samples = n
            /\ AfterMicrobatch(acc).prediction_cursor = acc.prediction_cursor
            /\ AfterMicrobatch(acc).resume_skip = acc.resume_skip
        BY <1>1 DEF AfterMicrobatch, Accumulator
      <4>2. Accumulate(model, acc).log = model.log
        BY <1>1 DEF Accumulate, Model
      <4> QED BY <3>1, <4>1, <4>2, <1>2
    <3>2. CASE ~some
      <4>1. Len(acc.microbatch) = 0
        BY <3>2
      <4> QED BY <3>2, <4>1, <1>1, <1>2
    <3> QED BY <3>1, <3>2
  <2>9. Gathered(m, n, q)
    <3>1. CASE some
      <4>1. Len(acc.microbatch) \in 1..BatchSize
        <5>1. Len(acc.microbatch) # 0
          BY <1>1, <3>1
        <5>2. Len(acc.microbatch) < BatchSize
          BY <2>2 DEF InGroup
        <5> QED BY <1>1, <5>1, <5>2
      <4>2. Gathered(Accumulate(model, acc), n, q)
        BY <1>1, <2>2, <4>1, AccumulateGathers DEF InGroup
      <4> QED BY <3>1, <4>2
    <3>2. CASE ~some
      <4>1. n = acc.pending_samples
        BY <1>1, <3>2
      <4> HIDE DEF n
      <4> QED BY <3>2, <4>1, <2>4
    <3> QED BY <3>1, <3>2
  <2> HIDE DEF m, a, n, some
  <2>10. CASE n = 0
    <3>1. /\ model' = m /\ pc' = "epochEnd" /\ UNCHANGED state
      BY <2>1, <2>8, <2>10 DEF Commit
    <3>2. ModelAt(m, state.seed, epoch, Windows)
      <4>1. Windows = GroupSize * q
        BY <2>3, <2>5, <2>10
      <4>2. UpdatesBy(Windows) = q
        BY <4>1, UpdatesOfGroups
      <4>3. epoch * Windows + GroupSize * q + n = epoch * Windows + Windows
        <5>1. epoch \in Nat
          BY <1>1 DEF TypeOK
        <5>2. epoch * Windows \in Nat
          BY <5>1, <1>1, SMT
        <5> QED BY <5>2, <4>1, <2>3, <2>10
      <4> QED BY <2>9, <4>2, <4>3 DEF Gathered, ModelAt
    <3>3. AtEpochEnd'
      BY <1>2, <2>1, <3>1, <3>2 DEF AtEpochEnd
    <3>4. PlaceInv'
      BY <1>2, <3>1, <3>3, StreamPlace
    <3> QED BY <2>8, <3>1, <3>4 DEF Exits
  <2>11. CASE n # 0
    <3>1. Applies(m, q, a.pending_samples)
      <4>1. n > 0 /\ GroupSize * q + n <= Windows
        BY <1>1, <2>5, <2>6, <2>11
      <4> QED BY <2>5, <2>6, <2>8, <2>9, <4>1 DEF Applies
    <3>2. /\ state'.seed = state.seed
          /\ state'.target_epochs = state.target_epochs
          /\ ModelAt(model', state.seed, epoch, a.prediction_cursor)
          /\ Recorded(model', state')
          /\ acc' = [a EXCEPT !.pending_microbatches = 0, !.pending_samples = 0]
          /\ pc' = "epochEnd" \/ (pc' = "create" /\ ret' = "epochEnd")
          /\ Advances(m, model'.log)
      <4>1. a.prediction_cursor = GroupSize * q + a.pending_samples
        BY <2>5, <2>8
      <4> QED BY <1>2, <2>1, <2>7, <3>1, <4>1, CommitGroup
    <3>3. AtEpochEnd'
      BY <1>2, <2>1, <2>8, <3>2 DEF AtEpochEnd
    <3>4. PlaceInv'
      BY <1>2, <3>2, <3>3, StreamPlace
    <3>5. Advances(model, model'.log)
      BY <2>8, <3>2 DEF Advances
    <3> QED BY <3>2, <3>4, <3>5 DEF Exits
  <2> QED BY <2>10, <2>11
<1> QED BY <1>3, <1>4

(* The head of the epoch loop enters the stream, or ends the run.          *)
LEMMA BeginEpochPlace ==
  ASSUME IInv, PlaceInv, BeginEpoch
  PROVE  PlaceInv'
<1>1. /\ pc = "epoch" /\ AtEpoch /\ state.seed \in Seeds
      /\ UNCHANGED <<epoch, model, state>>
  BY DEF BeginEpoch, PlaceInv, Up, Exits
<1>2. CASE EpochsLeft
  <2>1. /\ pc' = "stream" /\ acc' = NewAccumulator(acc.resume_skip)
    BY <1>2 DEF BeginEpoch, EpochAccumulator
  <2>2. /\ acc'.pending_samples = 0 /\ acc'.pending_microbatches = 0
        /\ acc'.microbatch_index = 0 /\ acc'.prediction_cursor = 0
        /\ acc'.resume_skip = acc.resume_skip
    BY <2>1 DEF NewAccumulator
  <2>3. 0 \div BatchSize = 0
    <3>1. 0 \in 0..BatchSize - 1 /\ BatchSize * 0 + 0 = 0 /\ BatchSize \in Nat \ {0}
      BY Sizes
    <3>2. (BatchSize * 0 + 0) \div BatchSize = 0
      BY <3>1, DivUnique, 0 \in Nat
    <3> QED BY <3>1, <3>2
  <2>4. Replaying'
    BY <1>1, <2>2, <2>3 DEF Replaying, AtEpoch
  <2>5. acc.resume_skip \in Nat
    BY DEF IInv, TypeOK, Accumulator
  <2>6. InStream'
    BY <1>1, <1>2, <2>2, <2>4, <2>5 DEF InStream, EpochsLeft
  <2> QED BY <1>1, <2>1, <2>6, StreamPlace
<1>3. CASE ~EpochsLeft
  <2>1. pc' = "final" /\ UNCHANGED acc
    BY <1>3 DEF BeginEpoch
  <2>2. epoch = state.target_epochs
    BY <1>1, <1>3 DEF AtEpoch, EpochsLeft, IInv, TypeOK, RunState
  <2>3. AtEnd
    BY <1>1, <2>2 DEF AtEpoch, AtEnd
  <2>4. AtEnd'
    BY <1>1, <2>1, <2>3, SamePlace
  <2> QED BY <1>1, <2>1, <2>4, Zenon DEF PlaceInv, At, Saving
<1> QED BY <1>2, <1>3

(* A replayed window moves the cursor and leaves the model alone.          *)
LEMMA ReplayWindowPlace ==
  ASSUME IInv, PlaceInv, ReplayWindow
  PROVE  PlaceInv'
<1> DEFINE c == acc.prediction_cursor
<1>1. /\ c \in Nat /\ acc.resume_skip \in Nat /\ acc.replay_slots \in Nat
      /\ acc.microbatch_index \in Nat /\ BatchSize \in Nat \ {0} /\ acc \in Accumulator
  BY Sizes DEF IInv, TypeOK, Accumulator
<1>2. /\ pc = "stream" /\ InStream /\ state.seed \in Seeds
      /\ c + 1 <= acc.resume_skip /\ acc' = Replay(acc)
      /\ UNCHANGED <<pc, epoch, model, state>>
  BY DEF ReplayWindow, PlaceInv, At, Up, Exits
<1>3. Replaying /\ acc.replay_slots = c % BatchSize
  BY <1>1, <1>2 DEF InStream, IInv, AccumulatorInv
<1>4. /\ acc'.pending_samples = acc.pending_samples
      /\ acc'.pending_microbatches = acc.pending_microbatches
      /\ acc'.prediction_cursor = c + 1 /\ acc'.resume_skip = acc.resume_skip
      /\ acc'.microbatch_index =
           IF acc.replay_slots + 1 = BatchSize THEN acc.microbatch_index + 1
           ELSE acc.microbatch_index
  BY <1>1, <1>2 DEF Replay, Accumulator
<1>5. acc'.microbatch_index = (c + 1) \div BatchSize
  <2> DEFINE d == c \div BatchSize
             r == c % BatchSize
  <2>1. c = BatchSize * d + r /\ d \in Nat /\ r \in 0..BatchSize - 1
    BY <1>1, DivMod
  <2>2. acc.microbatch_index = d /\ acc.replay_slots = r
    BY <1>3 DEF Replaying
  <2>3. BatchSize * (d + 1) = BatchSize * d + BatchSize /\ BatchSize * d \in Nat
    BY <2>1, Multiples
  <2> HIDE DEF d, r, c
  <2>4. CASE r + 1 = BatchSize
    <3>1. c + 1 = BatchSize * (d + 1) + 0 /\ 0 \in 0..BatchSize - 1 /\ d + 1 \in Nat
      BY <1>1, <2>1, <2>3, <2>4
    <3>2. (BatchSize * (d + 1) + 0) \div BatchSize = d + 1
      BY <1>1, <3>1, DivUnique
    <3> QED BY <1>4, <2>2, <2>4, <3>1, <3>2
  <2>5. CASE r + 1 # BatchSize
    <3>1. c + 1 = BatchSize * d + (r + 1) /\ r + 1 \in 0..BatchSize - 1
      BY <1>1, <2>1, <2>3, <2>5
    <3>2. (BatchSize * d + (r + 1)) \div BatchSize = d
      BY <1>1, <2>1, <3>1, DivUnique
    <3> QED BY <1>4, <2>2, <2>5, <3>1, <3>2
  <2> QED BY <2>4, <2>5
<1>6. Replaying'
  BY <1>2, <1>3, <1>4, <1>5 DEF Replaying
<1>7. InStream'
  <2>1. ~(acc'.prediction_cursor > acc'.resume_skip)
    BY <1>1, <1>2, <1>4
  <2> QED BY <1>2, <1>6, <2>1 DEF InStream
<1> QED BY <1>2, <1>7, StreamPlace

(* The end of an epoch is the start of the next one.                       *)
LEMMA EndEpochPlace ==
  ASSUME IInv, PlaceInv, EndEpoch
  PROVE  PlaceInv'
<1>1. /\ pc = "epochEnd" /\ AtEpochEnd /\ state.seed \in Seeds
  BY DEF EndEpoch, PlaceInv, At, Up, Exits
<1>2. /\ epoch \in Nat /\ state \in RunState /\ state.target_epochs \in Nat
  BY DEF IInv, TypeOK, RunState
<1>3. /\ pc' = "epoch" /\ epoch' = epoch + 1 /\ acc' = NewAccumulator(0)
      /\ model' = model
      /\ state' = [state EXCEPT !.epoch_index = epoch + 1, !.step_in_epoch = 0]
  BY DEF EndEpoch
<1>4. /\ state'.seed = state.seed /\ state'.target_epochs = state.target_epochs
      /\ acc'.resume_skip = 0
  BY <1>2, <1>3 DEF RunState, NewAccumulator
<1>5. ModelAt(model, state.seed, epoch + 1, 0)
  <2> DEFINE u == Promise!UpdatesPerEpoch
  <2>1. Windows \in Nat /\ u \in Nat
    BY Sizes, UpdatesPerEpochType
  <2>2. /\ (epoch + 1) * Windows + 0 = epoch * Windows + Windows
        /\ (epoch + 1) * u + 0 = epoch * u + u
    <3> HIDE DEF u
    <3> QED BY <1>2, <2>1, SMT
  <2>3. UpdatesBy(Windows) = u /\ UpdatesBy(0) = 0
    BY Sizes, NoUpdates
  <2>4. ModelAt(model, state.seed, epoch, Windows)
    BY <1>1 DEF AtEpochEnd
  <2> QED BY <2>2, <2>3, <2>4 DEF ModelAt
<1>6. AtEpoch'
  <2>1. epoch' <= state'.target_epochs
    BY <1>1, <1>2, <1>3, <1>4 DEF AtEpochEnd
  <2>2. GroupAligned(0)
    BY NewModelAt
  <2>3. ModelAt(model', state'.seed, epoch', acc'.resume_skip)
    BY <1>3, <1>4, <1>5
  <2>4. GroupAligned(acc'.resume_skip)
    BY <1>4, <2>2
  <2> QED BY <1>4, <2>1, <2>3, <2>4 DEF AtEpoch
<1> QED BY <1>1, <1>3, <1>4, <1>6, Zenon DEF PlaceInv, At, Saving

(* The last checkpoint records the end of the run.                         *)
LEMMA FinalCheckpointPlace ==
  ASSUME IInv, PlaceInv, FinalCheckpoint
  PROVE  PlaceInv'
<1>1. /\ pc = "final" /\ AtEnd /\ state.seed \in Seeds
      /\ UNCHANGED <<epoch, acc, model>>
  BY DEF FinalCheckpoint, PlaceInv, Up, Exits
<1>2. CASE state.checkpoint_interval > 0
  <2>1. /\ state' = [state EXCEPT !.epoch_index = state.target_epochs,
                                  !.step_in_epoch = 0]
        /\ pc' = "create" /\ ret' = "publish"
    BY <1>2 DEF FinalCheckpoint
  <2>2. /\ state'.seed = state.seed /\ state'.target_epochs = state.target_epochs
        /\ state'.epoch_index = state.target_epochs /\ state'.step_in_epoch = 0
        /\ state.target_epochs \in Nat
    BY <2>1 DEF IInv, TypeOK, RunState
  <2>3. Recorded(model', state')
    BY <1>1, <2>2, NewModelAt DEF Recorded, AtEnd
  <2>4. AtEnd'
    BY <1>1, <2>2 DEF AtEnd
  <2>5. Recorded(model, state)'
    BY <2>3
  <2> QED BY <1>1, <2>1, <2>2, <2>4, <2>5, Zenon DEF PlaceInv, At, Saving
<1>3. CASE ~(state.checkpoint_interval > 0)
  <2>1. pc' = "publish" /\ UNCHANGED state
    BY <1>3 DEF FinalCheckpoint
  <2>2. AtEnd'
    BY <1>1, <2>1, SamePlace
  <2> QED BY <1>1, <2>1, <2>2, Zenon DEF PlaceInv, At, Saving
<1> QED BY <1>2, <1>3

(* A step of checkpoint_save moves on without touching the process.        *)
LEMMA SavePlace ==
  ASSUME IInv, PlaceInv,
         CreateTemp \/ WriteTemp \/ RenameTemp \/ PruneFile \/ EndSave
  PROVE  PlaceInv'
<1>1. /\ UNCHANGED <<ret, epoch, acc, model, state>>
      /\ pc \in Saving
      /\ \/ pc' \in Saving /\ (pc' # "prune" => pc # "prune")
         \/ pc' = ret
  BY DEF CreateTemp, WriteTemp, RenameTemp, PruneFile, EndSave, process, Saving
<1>2. ret \in {"stream", "epochEnd", "publish"}
  BY DEF IInv, TypeOK
<1>3. state.seed \in Seeds
  BY <1>1 DEF PlaceInv, Up, Exits, Saving
<1>4. /\ ret = "stream" => InStream'
      /\ ret = "epochEnd" => AtEpochEnd'
      /\ ret = "publish" => AtEnd'
  BY <1>1, SamePlace DEF PlaceInv, At
<1>5. pc' \in Saving \ {"prune"} => Recorded(model, state)'
  BY <1>1, <1>2 DEF PlaceInv, Saving
<1>6. pc' = "final" => FALSE
  BY <1>1, <1>2 DEF Saving
<1>7. pc' = "epoch" => FALSE
  BY <1>1, <1>2 DEF Saving
<1>8. \A step \in {"stream", "epochEnd", "publish"} : At(step)' => ret = step
  BY <1>1 DEF At, Saving
<1> QED BY <1>1, <1>3, <1>4, <1>5, <1>6, <1>7, <1>8 DEF PlaceInv

(* A process that ended is nowhere.                                        *)
LEMMA ExitPlace ==
  ASSUME NEW how \in Exits, Exit(how)
  PROVE  PlaceInv'
<1>1. pc' = how
  BY DEF Exit
<1> QED BY <1>1 DEF PlaceInv, At, Up, Saving, Exits

(* A fresh process is before the first window of the first epoch.          *)
LEMMA StartPlace ==
  ASSUME NEW seed \in Seeds, NEW target \in Targets,
         NEW interval, NEW keep, Start(seed, target, interval, keep)
  PROVE  PlaceInv'
<1>1. /\ pc' = "epoch" /\ epoch' = 0 /\ acc' = NewAccumulator(0)
      /\ model' = NewModel /\ state' = NewState(seed, target, interval, keep)
  BY DEF Start
<1>2. /\ state'.seed = seed /\ state'.target_epochs = target
      /\ acc'.resume_skip = 0
  BY <1>1 DEF NewState, NewAccumulator
<1>3. target \in Nat
  BY TrainingRunAssumption
<1>4. AtEpoch'
  <2>1. ModelAt(model', state'.seed, epoch', acc'.resume_skip)
    BY <1>1, <1>2, NewModelAt
  <2>2. GroupAligned(acc'.resume_skip)
    BY <1>2, NewModelAt
  <2>3. epoch' <= state'.target_epochs
    BY <1>1, <1>2, <1>3
  <2> QED BY <1>2, <2>1, <2>2, <2>3 DEF AtEpoch
<1> QED BY <1>1, <1>2, <1>4, Zenon DEF PlaceInv, At, Saving

(* A resumed process is where the checkpoint says its model is.            *)
LEMMA ResumePlace ==
  ASSUME IInv, RecordedInv, NEW f \in files,
         NEW target \in Targets \cup {f.state.target_epochs},
         NEW interval, NEW keep, Resume(f, target, interval, keep)
  PROVE  PlaceInv'
<1>1. f \in File /\ Recorded(f.model, f.state)
  BY DEF RecordedInv, IInv, TypeOK
<1>2. /\ f.state \in RunState /\ f.state.epoch_index \in Nat
      /\ f.state.target_epochs \in Nat /\ target \in Nat
  BY <1>1, TrainingRunAssumption DEF File, RunState
<1>3. /\ pc' = "epoch" /\ epoch' = f.state.epoch_index
      /\ acc' = NewAccumulator(f.state.step_in_epoch) /\ model' = f.model
      /\ state' = [f.state EXCEPT !.target_epochs = target,
                                  !.checkpoint_interval = interval,
                                  !.keep_checkpoints = keep]
      /\ target = f.state.target_epochs \/ target > f.state.epoch_index
  BY DEF Resume
<1>4. /\ state'.seed = f.state.seed /\ state'.target_epochs = target
      /\ acc'.resume_skip = f.state.step_in_epoch
  BY <1>2, <1>3 DEF RunState, NewAccumulator
<1>5. AtEpoch'
  <2>1. /\ epoch' <= target
        /\ epoch' = target => f.state.step_in_epoch = 0
    BY <1>1, <1>2, <1>3 DEF Recorded
  <2>2. ModelAt(model', state'.seed, epoch', acc'.resume_skip)
    BY <1>1, <1>3, <1>4 DEF Recorded
  <2>3. GroupAligned(acc'.resume_skip)
    BY <1>1, <1>4 DEF Recorded
  <2> QED BY <1>4, <2>1, <2>2, <2>3 DEF AtEpoch
<1>6. state'.seed \in Seeds
  BY <1>1, <1>4 DEF Recorded
<1> QED BY <1>3, <1>5, <1>6, Zenon DEF PlaceInv, At, Saving

(* Only checkpoint_save adds files, and it records the live model.         *)
LEMMA FilesRecorded ==
  ASSUME IInv, PlaceInv, RecordedInv, Next
  PROVE  RecordedInv'
<1>1. files' \subseteq files \/ pc \in Saving \ {"prune"}
  BY DEF Next, Launch, Work, Start, Resume, ResumeLatest, ResumeFile, BeginEpoch,
         ReplayWindow, TrainWindow, FinishStream, EndEpoch, FinalCheckpoint,
         CreateTemp, WriteTemp, RenameTemp, PruneFile, EndSave, Publish,
         FailSave, Crash, Saving
<1>2. CASE files' \subseteq files
  BY <1>2 DEF RecordedInv
<1>3. CASE pc \in Saving \ {"prune"}
  <2>1. Recorded(model, state)
    BY <1>3 DEF PlaceInv
  <2>2. \A pid, complete : /\ Entry(pid, complete).model = model
                           /\ Entry(pid, complete).state = state
    BY DEF Entry
  <2>3. ~Up \/ CreateTemp \/ WriteTemp \/ RenameTemp \/ FailSave \/ Crash
    BY <1>3 DEF Next, Launch, Work, Start, Resume, ResumeLatest, ResumeFile,
         BeginEpoch, ReplayWindow, TrainWindow, FinishStream, EndEpoch,
         FinalCheckpoint, PruneFile, EndSave, Publish, Saving
  <2>4. Up
    BY <1>3 DEF Up, Exits, Saving
  <2>5. \A f \in files' : f \in files \/ (f.model = model /\ f.state = state)
    BY <2>2, <2>3, <2>4 DEF CreateTemp, WriteTemp, RenameTemp, FailSave, Crash
  <2> QED BY <2>1, <2>5 DEF RecordedInv
<1> QED BY <1>1, <1>2, <1>3

(* Only mode_train's end publishes, and then the run is whole.             *)
LEMMA BundleStep ==
  ASSUME IInv, PlaceInv, BundleIsWholeRun, Next
  PROVE  BundleIsWholeRun'
<1>1. \/ bundle' = bundle
      \/ Publish /\ bundle' = [seed |-> state.seed, target |-> state.target_epochs,
                              log |-> model.log]
  BY DEF Next, Launch, Work, Start, Resume, ResumeLatest, ResumeFile, BeginEpoch,
         ReplayWindow, TrainWindow, FinishStream, EndEpoch, FinalCheckpoint,
         CreateTemp, WriteTemp, RenameTemp, PruneFile, EndSave, Publish,
         FailSave, Crash
<1>2. CASE bundle' = bundle
  BY <1>2 DEF BundleIsWholeRun
<1>3. CASE Publish /\ bundle' = [seed |-> state.seed,
                              target |-> state.target_epochs, log |-> model.log]
  <2>1. AtEnd
    BY <1>3 DEF Publish, PlaceInv, At
  <2>2. ModelAt(model, state.seed, state.target_epochs, 0)
    BY <2>1 DEF AtEnd
  <2>3. state.target_epochs * Promise!UpdatesPerEpoch + UpdatesBy(0) =
          state.target_epochs * Promise!UpdatesPerEpoch
    <3>1. state.target_epochs \in Nat
      BY DEF IInv, TypeOK, RunState
    <3>2. state.target_epochs * Promise!UpdatesPerEpoch \in Nat
      BY <3>1, UpdatesPerEpochType, SMT
    <3> QED BY <3>2, NoUpdates
  <2>4. model.log =
          Promise!Uninterrupted(state.seed,
                                state.target_epochs * Promise!UpdatesPerEpoch)
    BY <2>2, <2>3 DEF ModelAt
  <2>5. bundle'.seed = state.seed /\ bundle'.target = state.target_epochs
        /\ bundle'.log = model.log
    BY <1>3
  <2> QED BY <2>4, <2>5 DEF BundleIsWholeRun
<1> QED BY <1>1, <1>2, <1>3

(* Every step leaves the process at a place that its model has reached.    *)
LEMMA PlaceStep ==
  ASSUME IInv, PlaceInv, RecordedInv, Next
  PROVE  PlaceInv'
<1>1. CASE Launch
  <2>1. \A f \in Listed : f \in files
    BY DEF Listed
  <2>2. CASE ResumeLatest \/ ResumeFile
    BY <2>1, <2>2, ResumePlace DEF ResumeLatest, ResumeFile
  <2> QED BY <1>1, <2>2, StartPlace DEF Launch
<1>2. CASE Work
  <2>1. CASE Publish
    BY <2>1, ExitPlace DEF Publish, Exits
  <2> QED BY <1>2, <2>1, BeginEpochPlace, ReplayWindowPlace, TrainWindowPlace,
             FinishStreamPlace, EndEpochPlace, FinalCheckpointPlace, SavePlace
          DEF Work
<1>3. CASE FailSave \/ Crash
  BY <1>3, ExitPlace DEF FailSave, Crash, Exits
<1> QED BY <1>1, <1>2, <1>3 DEF Next

(* Before the first launch there is nothing to be wrong.                   *)
LEMMA InitTrajectoryInv == Init => TrajectoryInv
  BY DEF Init, TrajectoryInv, PlaceInv, At, Up, Exits, Saving, RecordedInv,
         BundleIsWholeRun

(* Every step, of a process or of a crash, keeps the invariant.            *)
LEMMA NextTrajectoryInv == IInv /\ TrajectoryInv /\ [Next]_vars => TrajectoryInv'
<1> SUFFICES ASSUME IInv, TrajectoryInv, [Next]_vars PROVE TrajectoryInv'
  OBVIOUS
<1>1. CASE Next
  BY <1>1, PlaceStep, FilesRecorded, BundleStep DEF TrajectoryInv
<1>2. CASE UNCHANGED vars
  <2>1. UNCHANGED <<pc, ret, epoch, acc, model, state, files, bundle>>
    BY <1>2 DEF vars
  <2>2. PlaceInv'
    BY <2>1, SamePlace DEF TrajectoryInv, PlaceInv, At, Up
  <2> QED BY <2>1, <2>2 DEF TrajectoryInv, RecordedInv, BundleIsWholeRun
<1> QED BY <1>1, <1>2

(* Wherever a model is, in memory, on disk or published, it is the         *)
(* uninterrupted run's model at the recorded place.                        *)
THEOREM ExactResume == Spec => []TrajectoryInv
  BY Invariance, InitTrajectoryInv, NextTrajectoryInv, PTL DEF Spec

(* The bundle that mode_train leaves at --model is the model of a whole    *)
(* run with its seed and epochs, whatever crashes and resumes led to it.   *)
THEOREM PublishesWholeRuns == Spec => []BundleIsWholeRun
<1>1. TrajectoryInv => BundleIsWholeRun
  BY DEF TrajectoryInv
<1> QED BY <1>1, ExactResume, PTL

-----------------------------------------------------------------------------
(* What a checkpoint records agrees with the model it holds.               *)

(* The update that brings an epoch to cursor c ends with window c.         *)
LEMMA LastOfUpdate ==
  ASSUME NEW seed, NEW e \in Nat, NEW c \in Nat, c > 0, GroupAligned(c),
         NEW k \in Nat, k = e * Promise!UpdatesPerEpoch + UpdatesBy(c),
         NEW last, last = Promise!Update(seed, k)
  PROVE  k > 0 /\ last[Len(last)].rng = e * Windows + c - 1
<1> DEFINE u == Promise!UpdatesPerEpoch
           q == (c - 1) \div GroupSize
           n == c - GroupSize * q
<1>1. /\ Windows \in Nat /\ GroupSize \in Nat \ {0} /\ u \in Nat /\ c - 1 \in Nat
  BY Sizes, UpdatesPerEpochType
<1>2. /\ q \in Nat /\ GroupSize * q < c /\ c <= GroupSize * q + GroupSize
      /\ GroupSize * q \in Nat
  <2> DEFINE r == (c - 1) % GroupSize
  <2>1. c - 1 = GroupSize * q + r /\ q \in Nat /\ r \in 0..GroupSize - 1
    BY <1>1, DivMod
  <2>2. GroupSize * q \in Nat
    BY <2>1, Multiples
  <2> HIDE DEF q, r
  <2> QED BY <1>1, <2>1, <2>2
<1>3. UpdatesBy(c) = q + 1
  <2> HIDE DEF q
  <2> QED BY <1>2, UpdatesInGroup
<1> HIDE DEF q
<1>4. c <= Windows
  BY <1>1 DEF GroupAligned
<1>5. n \in Nat /\ n > 0 /\ GroupSize * q + n = c /\ GroupSize * q < Windows
  BY <1>1, <1>2, <1>4
<1>6. c = Windows \/ n = GroupSize
  <2> SUFFICES ASSUME c # Windows PROVE n = GroupSize
    OBVIOUS
  <2>1. PICK j \in Nat : c = GroupSize * j
    BY DEF GroupAligned
  <2>2. j = q + 1
    BY <1>3, <2>1, UpdatesOfGroups
  <2>3. c = GroupSize * q + GroupSize
    BY <1>2, <2>1, <2>2, Multiples
  <2> QED BY <1>1, <1>2, <2>3
<1> HIDE DEF n
<1>7. n = IF Windows - GroupSize * q < GroupSize
          THEN Windows - GroupSize * q ELSE GroupSize
  BY <1>1, <1>2, <1>4, <1>5, <1>6
<1>8. Promise!Update(seed, e * Promise!UpdatesPerEpoch + q + 1) =
        [i \in 1..n |->
           Promise!Example(seed, e, GroupSize * q + i,
                           (GroupSize * q + i - 1) \div BatchSize,
                           e * Windows + GroupSize * q + i - 1)]
  <2> HIDE DEF u
  <2> QED BY <1>2, <1>5, <1>7, UpdateOfGroup
<1>12. k = e * Promise!UpdatesPerEpoch + q + 1 /\ k > 0
  <2>1. e * u \in Nat
    <3> HIDE DEF u
    <3> QED BY <1>1, SMT
  <2>2. k = e * u + (q + 1)
    BY <1>3
  <2> HIDE DEF u
  <2>3. k = e * u + q + 1 /\ k > 0
    BY <1>2, <2>1, <2>2
  <2> QED BY <2>3 DEF u
<1>9. Len(last) = n
  <2> DEFINE f == [i \in 1..n |->
           Promise!Example(seed, e, GroupSize * q + i,
                           (GroupSize * q + i - 1) \div BatchSize,
                           e * Windows + GroupSize * q + i - 1)]
  <2>1. last = f
    BY <1>8, <1>12
  <2>2. f \in [1..n -> {f[i] : i \in 1..n}]
    OBVIOUS
  <2> HIDE DEF f
  <2> QED BY <1>5, <2>1, <2>2, LiteralSeq
<1>10. last[n].rng = e * Windows + GroupSize * q + n - 1
  <2>1. last[n] = Promise!Example(seed, e, GroupSize * q + n,
                           (GroupSize * q + n - 1) \div BatchSize,
                           e * Windows + GroupSize * q + n - 1)
    BY <1>5, <1>8, <1>12
  <2> QED BY <2>1 DEF Promise!Example
<1>11. e * Windows + GroupSize * q + n - 1 = e * Windows + c - 1
  <2>1. e * Windows \in Nat
    BY <1>1, SMT
  <2> QED BY <1>2, <1>5, <2>1
<1> QED BY <1>9, <1>10, <1>11, <1>12

(* The last example of whatever the model was last updated with.           *)
LEMMA LastExample ==
  ASSUME NEW seed, NEW e \in Nat, NEW c \in Nat, GroupAligned(c),
         NEW k \in Nat, k = e * Promise!UpdatesPerEpoch + UpdatesBy(c),
         NEW last, last = Promise!Update(seed, k),
         e * Windows + c > 0
  PROVE  k > 0 /\ last[Len(last)].rng = e * Windows + c - 1
<1>1. Windows \in Nat /\ Promise!UpdatesPerEpoch \in Nat
  BY Sizes, UpdatesPerEpochType
<1>2. CASE c > 0
  BY <1>2, LastOfUpdate
<1>3. CASE c = 0
  <2>1. e > 0 /\ Windows > 0
    <3>1. ~(e = 0) /\ ~(Windows = 0)
      BY <1>1, <1>3, SMT
    <3> QED BY <1>1, <3>1
  <2>2. GroupAligned(Windows) /\ e - 1 \in Nat
    BY <2>1 DEF GroupAligned
  <2>3. /\ k = (e - 1) * Promise!UpdatesPerEpoch + UpdatesBy(Windows)
        /\ (e - 1) * Windows + Windows - 1 = e * Windows + c - 1
    <3> DEFINE u == Promise!UpdatesPerEpoch
    <3>1. UpdatesBy(Windows) = u /\ UpdatesBy(0) = 0
      BY Sizes, NoUpdates
    <3>2. (e - 1) * u + u = e * u + 0 /\ (e - 1) * Windows + Windows = e * Windows + 0
      <4> HIDE DEF u
      <4>1. u \in Nat
        BY <1>1 DEF u
      <4> QED BY <1>1, <2>1, <4>1, SMT
    <3> HIDE DEF u
    <3>3. k = e * u + 0
      BY <1>3, <3>1 DEF u
    <3>4. k = (e - 1) * u + UpdatesBy(Windows)
      BY <3>1, <3>2, <3>3
    <3>5. (e - 1) * Windows + Windows - 1 = e * Windows + c - 1
      <4>1. (e - 1) * Windows \in Nat /\ e * Windows \in Nat
        BY <1>1, <2>2, SMT
      <4> QED BY <1>1, <1>3, <3>2, <4>1
    <3> QED BY <3>4, <3>5 DEF u
  <2> DEFINE d == e - 1
  <2> HIDE DEF d
  <2>4. d \in Nat /\ k = d * Promise!UpdatesPerEpoch + UpdatesBy(Windows)
    BY <2>2, <2>3 DEF d
  <2>5. k > 0 /\ last[Len(last)].rng = d * Windows + Windows - 1
    <3>1. Windows \in Nat /\ Windows > 0 /\ GroupAligned(Windows) /\ d \in Nat
      BY <1>1, <2>1, <2>2, <2>4
    <3>2. k = d * Promise!UpdatesPerEpoch + UpdatesBy(Windows)
      BY <2>4
    <3>3. last = Promise!Update(seed, k)
      OBVIOUS
    <3> QED BY ONLY <3>1, <3>2, <3>3, k \in Nat, LastOfUpdate
  <2> QED BY <2>3, <2>5 DEF d
<1> QED BY <1>2, <1>3

(* A checkpoint's place can be read off its model's last example.          *)
LEMMA RecordedMatches ==
  ASSUME IInv, RecordedInv
  PROVE  CursorMatchesModel
<1> SUFFICES ASSUME NEW f \in files
             PROVE  LET trained == f.state.epoch_index * Windows + f.state.step_in_epoch
                    IN /\ f.model.rng = trained
                       /\ f.model.training_steps = Len(f.model.log)
                       /\ f.model.log = Promise!Uninterrupted(f.state.seed, Len(f.model.log))
                       /\ trained > 0 => LET last == f.model.log[Len(f.model.log)]
                                         IN  last[Len(last)].rng = trained - 1
                       /\ \/ f.state.step_in_epoch % GroupSize = 0
                          \/ f.state.step_in_epoch = Windows
  BY DEF CursorMatchesModel, Listed
<1> DEFINE e == f.state.epoch_index
           c == f.state.step_in_epoch
           k == f.model.training_steps
           seed == f.state.seed
           trained == e * Windows + c
           last == f.model.log[Len(f.model.log)]
<1>1. /\ e \in Nat /\ c \in Nat /\ k \in Nat
  BY DEF IInv, TypeOK, File, RunState, Model
<1>2. GroupAligned(c) /\ ModelAt(f.model, seed, e, c)
  BY DEF RecordedInv, Recorded
<1>3. /\ f.model.rng = trained
      /\ k = e * Promise!UpdatesPerEpoch + UpdatesBy(c)
      /\ f.model.log = Promise!Uninterrupted(seed, k)
  BY <1>2 DEF ModelAt
<1>4. Len(f.model.log) = k /\ (k > 0 => f.model.log[k] = Promise!Update(seed, k))
  BY <1>1, <1>3, UninterruptedFacts
<1>5. ASSUME trained > 0 PROVE last[Len(last)].rng = trained - 1
  <2>1. /\ k > 0
        /\ Promise!Update(seed, k)[Len(Promise!Update(seed, k))].rng = trained - 1
    <3> DEFINE l == Promise!Update(seed, k)
    <3>1. l = Promise!Update(seed, k)
      OBVIOUS
    <3>2. e * Windows + c > 0 /\ trained = e * Windows + c
      BY <1>5
    <3>3. GroupAligned(c) /\ k = e * Promise!UpdatesPerEpoch + UpdatesBy(c)
      BY <1>2, <1>3
    <3> HIDE DEF e, c, k, seed, l, trained
    <3>4. k > 0 /\ l[Len(l)].rng = e * Windows + c - 1
      BY <1>1, <3>1, <3>2, <3>3, LastExample
    <3>5. e * Windows + c - 1 = trained - 1
      <4>1. e * Windows \in Nat
        BY <1>1, Sizes, SMT
      <4> QED BY <1>1, <3>2, <4>1
    <3>6. k > 0 /\ l[Len(l)].rng = trained - 1
      BY <3>4, <3>5, Zenon
    <3> QED BY <3>6, Zenon DEF l
  <2>2. last = Promise!Update(seed, k)
    BY <1>4, <2>1
  <2> QED BY <2>1, <2>2
<1>6. c % GroupSize = 0 \/ c = Windows
  <2> SUFFICES ASSUME c # Windows PROVE c % GroupSize = 0
    OBVIOUS
  <2>1. PICK j \in Nat : c = GroupSize * j
    BY <1>2 DEF GroupAligned
  <2>2. GroupSize \in Nat \ {0} /\ 0 \in 0..GroupSize - 1
    BY Sizes
  <2>3. (GroupSize * j + 0) % GroupSize = 0
    BY <2>2, ModUnique
  <2>4. GroupSize * j + 0 = c
    BY <1>1, <2>1, Multiples
  <2> QED BY <2>3, <2>4
<1> HIDE DEF trained
<1> QED BY <1>3, <1>4, <1>5, <1>6 DEF trained

(* Every checkpoint under a final name records the epoch, cursor and RNG   *)
(* position its parameters have really reached.                            *)
THEOREM CheckpointsAreConsistent == Spec => []CursorMatchesModel
<1>1. IInv /\ TrajectoryInv => CursorMatchesModel
  BY RecordedMatches DEF TrajectoryInv
<1> QED BY <1>1, Invariance, ExactResume, PTL

-----------------------------------------------------------------------------
(* Retention.                                                              *)

(* No checkpoint is newer than itself.                                     *)
LEMMA NewerIsIrreflexive ==
  ASSUME NEW f \in File PROVE ~Newer(f, f)
  BY DEF File, Model, RunState, Newer

(* No prune takes away a file without a newer one beside it.               *)
LEMMA SurplusHasNewer ==
  ASSUME IInv, NEW f \in Surplus
  PROVE  f \in Listed /\ \E g \in Listed : Newer(g, f)
<1>1. /\ f \in Listed /\ state.keep_checkpoints > 0
      /\ Cardinality({g \in Listed : Newer(g, f)}) >= state.keep_checkpoints
  BY DEF Surplus
<1>2. CASE {g \in Listed : Newer(g, f)} = {}
  <2>1. Cardinality({}) = 0
    BY FS_EmptySet
  <2>2. state.keep_checkpoints \in Nat
    BY DEF IInv, TypeOK, RunState
  <2> QED BY <1>1, <1>2, <2>1, <2>2
<1> QED BY <1>1, <1>2

(* A temporary file never has a final name.                                *)
LEMMA PidPositive ==
  ASSUME IInv, Up
  PROVE  Pid # 0 /\ \A complete : Entry(Pid, complete).pid # 0
  BY DEF IInv, PidInv, Entry, TypeOK, Pid

(* How a step may change the directory, as far as --resume latest sees it. *)
(* What a step may do to the listed files: prune one, or save one.         *)
DirectoryStep ==
  \/ Listed' = Listed
  \/ PruneFile /\ \E f \in Surplus : Listed' = Listed \ {f}
  \/ /\ pc = "rename" /\ pc' = "prune" /\ UNCHANGED model
     /\ Entry(0, TRUE) \in Listed'
     /\ \E replaced \in SUBSET {f \in Listed : Name(f) = Name(Entry(0, TRUE))} :
          Listed' = (Listed \ replaced) \cup {Entry(0, TRUE)}

(* A step changes the directory by saving or by pruning only.              *)
LEMMA NextDirectory ==
  ASSUME IInv, [Next]_vars
  PROVE  DirectoryStep
<1>1. CASE files' = files
  BY <1>1 DEF DirectoryStep, Listed
<1>2. CASE CreateTemp \/ WriteTemp
  <2>1. Up
    BY <1>2 DEF CreateTemp, WriteTemp, Up, Exits
  <2>2. Entry(Pid, TRUE).pid # 0 /\ Entry(Pid, FALSE).pid # 0
    BY <2>1, PidPositive
  <2>3. Listed' = Listed
    BY <1>2, <2>2 DEF CreateTemp, WriteTemp, Listed
  <2> QED BY <2>3 DEF DirectoryStep
<1>3. CASE RenameTemp
  <2> DEFINE new == Entry(0, TRUE)
             replaced == {f \in Listed : Name(f) = Name(new)}
  <2>1. Up /\ pc = "rename" /\ pc' = "prune" /\ UNCHANGED model
    BY <1>3 DEF RenameTemp, Up, Exits
  <2>2. Entry(Pid, TRUE).pid # 0 /\ new.pid = 0
    BY <2>1, PidPositive DEF Entry
  <2>3. files' = (files \ (replaced \cup {Entry(Pid, TRUE)})) \cup {new}
    BY <1>3 DEF RenameTemp
  <2> HIDE DEF new, replaced
  <2>4. Listed' = (Listed \ replaced) \cup {new}
    BY <2>2, <2>3 DEF Listed
  <2>5. replaced \in SUBSET {f \in Listed : Name(f) = Name(Entry(0, TRUE))}
    BY DEF replaced, new
  <2> QED BY <2>1, <2>4, <2>5 DEF DirectoryStep, new
<1>4. CASE PruneFile
  <2>1. PICK f \in Surplus : files' = files \ {f}
    BY <1>4 DEF PruneFile
  <2>2. Listed' = Listed \ {f}
    BY <2>1 DEF Listed
  <2> QED BY <1>4, <2>2 DEF DirectoryStep
<1>5. CASE FailSave
  <2>1. Up
    BY <1>5 DEF FailSave, Up, Exits
  <2>2. Entry(Pid, TRUE).pid # 0 /\ Entry(Pid, FALSE).pid # 0
    BY <2>1, PidPositive
  <2>3. Listed' = Listed
    BY <1>5, <2>2 DEF FailSave, Listed
  <2> QED BY <2>3 DEF DirectoryStep
<1> QED BY <1>1, <1>2, <1>3, <1>4, <1>5
        DEF Next, vars, Launch, Work, Start, Resume, ResumeLatest, ResumeFile,
            BeginEpoch, ReplayWindow, TrainWindow, FinishStream, EndEpoch,
            FinalCheckpoint, EndSave, Publish, Crash

(* Retention never takes away the newest training step, in any step of     *)
(* checkpoint_save or checkpoint_prune, whenever the process dies.         *)
THEOREM NewestIsKept == Spec => NewestSurvives
<1>1. ASSUME IInv, [Next]_vars, NEW f \in Listed, IsLatest(f)
      PROVE  \E g \in Listed' : ~Newer(f, g)
  <2>1. f \in File
    BY <1>1 DEF IInv, TypeOK, Listed
  <2>2. DirectoryStep
    BY <1>1, NextDirectory
  <2>3. CASE f \in Listed'
    BY <2>1, <2>3, NewerIsIrreflexive
  <2>4. CASE f \notin Listed' /\ \E s \in Surplus : Listed' = Listed \ {s}
    <3>1. f \in Surplus
      BY <1>1, <2>4
    <3> QED BY <1>1, <3>1, SurplusHasNewer DEF IsLatest
  <2>5. CASE \E replaced \in SUBSET {h \in Listed : Name(h) = Name(Entry(0, TRUE))} :
               f \in replaced /\ Entry(0, TRUE) \in Listed'
    <3> DEFINE g == Entry(0, TRUE)
    <3>1. Name(f) = Name(g) /\ g \in Listed'
      BY <2>5
    <3>2. /\ f.state.epoch_index = g.state.epoch_index
          /\ f.model.training_steps = g.model.training_steps
      BY <3>1 DEF Name
    <3>3. ~Newer(f, g)
      <4> HIDE DEF g
      <4> QED BY <2>1, <3>2 DEF File, Model, RunState, Newer
    <3> QED BY <3>1, <3>3
  <2> QED BY <1>1, <2>2, <2>3, <2>4, <2>5 DEF DirectoryStep
<1>2. IInv /\ [Next]_vars =>
        [\A f \in Listed : IsLatest(f) => \E g \in Listed' : ~Newer(f, g)]_vars
  BY <1>1
<1> QED BY <1>2, Invariance, PTL DEF Spec, NewestSurvives

-----------------------------------------------------------------------------
(* The trajectory is implemented.                                          *)

(* What the refinement takes for the live log and for the saved ones.      *)
LiveLog == IF Up THEN model.log ELSE << >>
SavedLogs == {f.model.log : f \in Listed}

(* A log in memory or on disk is as long as training_steps says.           *)
LEMMA StepsAreCounted ==
  ASSUME IInv, NEW m \in Model, NEW s, Recorded(m, s)
  PROVE  Len(m.log) = m.training_steps
<1>1. m.training_steps \in Nat
  BY DEF Model
<1> QED BY <1>1, UninterruptedFacts DEF Recorded, ModelAt

(* checkpoint_save's rename puts the live log in the place of saved ones   *)
(* of the same length.                                                     *)
LEMMA RenameIsSave ==
  ASSUME IInv, TrajectoryInv, pc = "rename", pc' = "prune", UNCHANGED model,
         Entry(0, TRUE) \in Listed',
         NEW replaced \in SUBSET {f \in Listed : Name(f) = Name(Entry(0, TRUE))},
         Listed' = (Listed \ replaced) \cup {Entry(0, TRUE)}
  PROVE  Promise!Save
<1> DEFINE gone == SavedLogs \ SavedLogs'
<1>1. LiveLog = model.log /\ LiveLog' = model.log
  BY DEF LiveLog, Up, Exits
<1>2. Entry(0, TRUE).model = model
  BY DEF Entry
<1>3. ASSUME NEW l \in gone PROVE Len(l) = Len(model.log)
  <2>1. PICK f \in Listed : l = f.model.log
    BY DEF SavedLogs
  <2>2. f \notin Listed'
    BY <2>1 DEF SavedLogs
  <2>3. f \in replaced
    BY <2>2
  <2>4. f.model.training_steps = model.training_steps
    BY <1>2, <2>3 DEF Name
  <2>5. /\ f.model \in Model /\ Recorded(f.model, f.state)
        /\ model \in Model /\ Recorded(model, state)
    BY DEF IInv, TypeOK, File, TrajectoryInv, RecordedInv, PlaceInv, Saving, Listed
  <2> QED BY <2>1, <2>4, <2>5, StepsAreCounted
<1>4. SavedLogs' = (SavedLogs \ gone) \cup {model.log}
  <2>1. model.log \in SavedLogs'
    BY <1>2 DEF SavedLogs
  <2>2. ASSUME NEW l \in SavedLogs' PROVE l \in SavedLogs \/ l = model.log
    <3>1. PICK f \in Listed' : l = f.model.log
      BY DEF SavedLogs
    <3>2. f \in Listed \/ f = Entry(0, TRUE)
      OBVIOUS
    <3> QED BY <1>2, <3>1, <3>2 DEF SavedLogs
  <2> HIDE DEF SavedLogs
  <2> QED BY <2>1, <2>2
<1>5. gone \in SUBSET {l \in SavedLogs : Len(l) = Len(LiveLog)}
  BY <1>1, <1>3
<1>6. SavedLogs' = (SavedLogs \ gone) \cup {LiveLog} /\ UNCHANGED LiveLog
  BY <1>1, <1>4
<1> HIDE DEF gone
<1> QED BY <1>5, <1>6 DEF Promise!Save, LiveLog, SavedLogs

(* A pruned file leaves one at least as advanced behind.                   *)
LEMMA PruneIsForget ==
  ASSUME IInv, TrajectoryInv, NEW f \in Surplus, Listed' = Listed \ {f},
         UNCHANGED LiveLog
  PROVE  Promise!Forget \/ UNCHANGED <<LiveLog, SavedLogs>>
<1>1. PICK g \in Listed : Newer(g, f)
  BY SurplusHasNewer
<1>2. f \in Listed
  BY SurplusHasNewer
<1>3. /\ f \in File /\ g \in File
      /\ Recorded(f.model, f.state) /\ Recorded(g.model, g.state)
  BY <1>2 DEF IInv, TypeOK, Listed, TrajectoryInv, RecordedInv
<1>4. g # f
  BY <1>1, <1>3, NewerIsIrreflexive
<1>5. /\ Len(g.model.log) = g.model.training_steps
      /\ Len(f.model.log) = f.model.training_steps
      /\ g.model.training_steps \in Nat /\ f.model.training_steps \in Nat
  BY <1>3, StepsAreCounted DEF File, Model
<1>6. Len(g.model.log) >= Len(f.model.log)
  BY <1>1, <1>5 DEF Newer
<1>7. CASE f.model.log \in SavedLogs'
  <2>1. SavedLogs' = SavedLogs
    BY <1>7 DEF SavedLogs
  <2> QED BY <2>1
<1>8. CASE f.model.log \notin SavedLogs'
  <2>1. SavedLogs' = SavedLogs \ {f.model.log}
    BY <1>8 DEF SavedLogs
  <2>2. g.model.log \in SavedLogs'
    BY <1>4 DEF SavedLogs
  <2>3. f.model.log \in SavedLogs
    BY <1>2 DEF SavedLogs
  <2>4. g.model.log \in SavedLogs \ {f.model.log}
    BY <2>1, <2>2
  <2>5. \E old \in SavedLogs :
          /\ \E kept \in SavedLogs \ {old} : Len(kept) >= Len(old)
          /\ SavedLogs' = SavedLogs \ {old}
    BY <1>6, <2>1, <2>3, <2>4
  <2>6. Promise!Forget
    BY <2>5 DEF Promise!Forget, SavedLogs, LiveLog
  <2> QED BY <2>6
<1> QED BY <1>7, <1>8

(* A step that leaves the directory alone.                                 *)
LEMMA ProcessStep ==
  ASSUME IInv, TrajectoryInv, Next, Listed' = Listed
  PROVE  Promise!Next \/ UNCHANGED <<LiveLog, SavedLogs>>
<1>1. SavedLogs' = SavedLogs
  BY DEF SavedLogs
<1>2. CASE pc' \in Exits
  <2>1. LiveLog' = << >>
    BY <1>2 DEF LiveLog, Up
  <2>2. Promise!Lose
    BY <1>1, <2>1 DEF Promise!Lose, LiveLog, SavedLogs
  <2> QED BY <2>2 DEF Promise!Next
<1>3. CASE pc' \notin Exits /\ Up
  <2>1. LiveLog' = model'.log /\ LiveLog = model.log
    BY <1>3 DEF LiveLog, Up
  <2>2. CASE TrainWindow \/ FinishStream
    <3>1. model'.log = model.log \/ Advances(model, model'.log)
      BY <2>2, TrainWindowPlace, FinishStreamPlace DEF TrajectoryInv
    <3>2. CASE model'.log = model.log
      BY <1>1, <2>1, <3>2
    <3>3. CASE Advances(model, model'.log)
      <4>1. state.seed \in Seeds
        BY <1>3 DEF TrajectoryInv, PlaceInv
      <4>2. /\ LiveLog = Promise!Uninterrupted(state.seed, Len(LiveLog))
            /\ LiveLog' = Append(LiveLog, Promise!Update(state.seed, Len(LiveLog) + 1))
        BY <2>1, <3>3 DEF Advances
      <4>3. Promise!Train(state.seed)
        BY <1>1, <4>2 DEF Promise!Train, LiveLog, SavedLogs
      <4> QED BY <4>1, <4>3 DEF Promise!Next
    <3> QED BY <3>1, <3>2, <3>3
  <2>3. CASE ~(TrainWindow \/ FinishStream)
    <3>1. model' = model
      BY <1>3, <2>3 DEF Next, Launch, Work, Start, Resume, ResumeLatest, ResumeFile,
         BeginEpoch, ReplayWindow, EndEpoch, FinalCheckpoint, CreateTemp, WriteTemp,
         RenameTemp, PruneFile, EndSave, Publish, FailSave, Crash, Exit, Exits, process
    <3> QED BY <1>1, <2>1, <3>1
  <2> QED BY <2>2, <2>3
<1>4. CASE pc' \notin Exits /\ ~Up
  <2>1. LiveLog = << >> /\ LiveLog' = model'.log
    BY <1>4 DEF LiveLog, Up
  <2>2. Launch
    BY <1>4 DEF Next, Work, BeginEpoch, ReplayWindow, TrainWindow, FinishStream,
       EndEpoch, FinalCheckpoint, CreateTemp, WriteTemp, RenameTemp, PruneFile,
       EndSave, Publish, FailSave, Crash, Exit, Up, Exits
  <2>3. CASE model' = NewModel
    BY <1>1, <2>1, <2>3 DEF NewModel
  <2>4. CASE model' # NewModel
    <3>1. \E f \in Listed : model' = f.model
      BY <2>2, <2>4 DEF Launch, Start, ResumeLatest, ResumeFile, Resume, IsLatest
    <3>2. LiveLog' \in SavedLogs
      BY <2>1, <3>1 DEF SavedLogs
    <3>3. Promise!Recover
      BY <1>1, <2>1, <3>2 DEF Promise!Recover, LiveLog, SavedLogs
    <3> QED BY <3>3 DEF Promise!Next
  <2> QED BY <2>3, <2>4
<1> QED BY <1>2, <1>3, <1>4

(* docs/usage.md's exact resume: across any crashes, resumes, saves and    *)
(* prunes, every step of training is a step of the trajectory of an        *)
(* uninterrupted run, or changes nothing that the trajectory sees.         *)
THEOREM TrainingRefinesTrajectory == Spec => RefinesTrajectory
<1>1. Init => Promise!Init
  BY DEF Init, Promise!Init, Up, Exits, Listed
<1>2. ASSUME IInv, TrajectoryInv, [Next]_vars
      PROVE  [Promise!Next]_<<LiveLog, SavedLogs>>
  <2>1. CASE UNCHANGED vars
    BY <2>1 DEF vars, LiveLog, SavedLogs, Listed, Up
  <2>2. CASE Next
    <3>1. DirectoryStep
      BY <1>2, <2>2, NextDirectory
    <3>2. CASE Listed' = Listed
      BY <1>2, <2>2, <3>2, ProcessStep
    <3>3. CASE PruneFile /\ \E f \in Surplus : Listed' = Listed \ {f}
      <4>1. UNCHANGED LiveLog
        BY <3>3 DEF PruneFile, process, LiveLog, Up
      <4> QED BY <1>2, <3>3, <4>1, PruneIsForget DEF Promise!Next
    <3>4. CASE /\ pc = "rename" /\ pc' = "prune" /\ UNCHANGED model
               /\ Entry(0, TRUE) \in Listed'
               /\ \E replaced \in SUBSET {f \in Listed : Name(f) = Name(Entry(0, TRUE))} :
                    Listed' = (Listed \ replaced) \cup {Entry(0, TRUE)}
      <4>1. Promise!Save
        BY <1>2, <3>4, RenameIsSave
      <4> QED BY <4>1 DEF Promise!Next
    <3> QED BY <3>1, <3>2, <3>3, <3>4 DEF DirectoryStep
  <2> QED BY <1>2, <2>1, <2>2
<1>3. IInv /\ TrajectoryInv /\ [Next]_vars =>
        [Promise!Next]_<<IF Up THEN model.log ELSE << >>, {f.model.log : f \in Listed}>>
  BY <1>2 DEF LiveLog, SavedLogs
<1> QED
  BY <1>1, <1>3, Invariance, ExactResume, PTL DEF Spec, RefinesTrajectory, Promise!Spec
=============================================================================
