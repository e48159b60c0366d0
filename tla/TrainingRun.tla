----------------------------- MODULE TrainingRun -----------------------------
(***************************************************************************)
(* A training process and its checkpoint directory: the epoch loop of      *)
(* mode_train, the minibatch accumulator, the periodic and final           *)
(* checkpoint_save (temporary file, rename, prune), and what a later       *)
(* process does when it starts afresh or resumes in the same directory.    *)
(* The process may die between any two steps.                              *)
(*                                                                         *)
(* Data is abstracted to what the properties tell apart: a window is its   *)
(* number within the epoch, the parameters are the sequence of updates     *)
(* they received, the gradient buffer is the examples summed into it, and  *)
(* the dropout RNG is the number of examples it was drawn for.             *)
(***************************************************************************)
EXTENDS Integers, Sequences, FiniteSets

CONSTANTS
  Windows,       (* Windows (predictions) in one epoch of the corpus.         *)
  BatchSize,     (* --batch-size.                                             *)
  Accumulation,  (* --gradient-accumulation.                                  *)
  Seeds,         (* --seed values a fresh start may use.                      *)
  Targets,       (* --epochs values a start or a resume may ask for.          *)
  Intervals,     (* --checkpoint-interval values, 0 for no checkpoints.       *)
  Keeps,         (* --keep-checkpoints values, 0 to keep them all.            *)
  MaxStarts,     (* Bound: fresh starts in one behaviour.                     *)
  MaxResumes,    (* Bound: resumed processes in one behaviour.                *)
  NoBundle       (* The model path before any bundle was written.             *)

ASSUME TrainingRunAssumption ==
  /\ Windows \in Nat
  /\ BatchSize \in Nat \ {0}
  /\ Accumulation \in Nat \ {0}
  /\ Seeds \subseteq Nat
  /\ Targets \subseteq Nat \ {0}
  /\ Intervals \subseteq Nat
  /\ Keeps \subseteq Nat
  /\ MaxStarts \in Nat
  /\ MaxResumes \in Nat

VARIABLES
  pc,       (* Where the process is; "down", "done" and "rejected" are exits. *)
  ret,      (* Where the process goes on after checkpoint_save.               *)
  epoch,    (* The epoch being trained, from 0.                               *)
  acc,      (* training_accumulator_t and its minibatch.                      *)
  model,    (* The live neural_model_t.                                       *)
  state,    (* checkpoint_run_state_t, with the settings the process uses.    *)
  files,    (* The checkpoint directory.                                      *)
  bundle,   (* The model bundle at --model.                                   *)
  starts, resumes

process == <<pc, ret, epoch, acc, model, state>>
launches == <<starts, resumes>>
vars == <<pc, ret, epoch, acc, model, state, files, bundle, starts, resumes>>

Exits == {"down", "done", "rejected"}
Up == pc \notin Exits

-----------------------------------------------------------------------------
(* Values.                                                                 *)

NewModel == [log |-> << >>, grads |-> << >>, rng |-> 0, training_steps |-> 0]

NewAccumulator(skip) ==
  [microbatch |-> << >>, pending_microbatches |-> 0, pending_samples |-> 0,
   prediction_cursor |-> 0, resume_skip |-> skip, replay_slots |-> 0,
   microbatch_index |-> 0]

NewState(seed, target, interval, keep) ==
  [epoch_index |-> 0, step_in_epoch |-> 0, target_epochs |-> target,
   seed |-> seed, checkpoint_interval |-> interval, keep_checkpoints |-> keep]

(* What mode_train's locals hold before a launch fills them in.            *)
ZeroState == NewState(0, 0, 0, 0)

(* A directory entry. pid is 0 for a file under its final name and the     *)
(* writing process for a temporary one; complete once every byte is synced.*)
Entry(pid, complete) ==
  [pid |-> pid, complete |-> complete, state |-> state, model |-> model]

Pid == starts + resumes

(* checkpoint_make_path: the name of a checkpoint is its epoch and step.   *)
Name(f) == <<f.state.epoch_index, f.model.training_steps>>

(* Mutant: names with something after ".ckpt" are accepted too.            *)
Listed_AnySuffix == files

(* checkpoint_parse_metadata refuses whatever follows ".ckpt", so a        *)
(* temporary file is never listed, loaded, selected or pruned.             *)
Listed == {f \in files : f.pid = 0}

(* metadata_compare_desc                                                   *)
Newer(f, g) ==
  \/ f.model.training_steps > g.model.training_steps
  \/ /\ f.model.training_steps = g.model.training_steps
     /\ f.state.epoch_index > g.state.epoch_index

(* checkpoint_find_latest                                                  *)
IsLatest(f) == f \in Listed /\ \A g \in Listed : ~Newer(g, f)

(* Mutant: the list is sorted oldest first.                                *)
Surplus_OldestKept ==
  {f \in Listed :
     /\ state.keep_checkpoints > 0
     /\ Cardinality({g \in Listed : Newer(f, g)}) >= state.keep_checkpoints}

(* The files checkpoint_prune removes.                                     *)
Surplus ==
  {f \in Listed :
     /\ state.keep_checkpoints > 0
     /\ Cardinality({g \in Listed : Newer(g, f)}) >= state.keep_checkpoints}

(* read_checkpoint: magic, version, shapes, every section and the end mark *)
(* are checked, so only a file written to its last byte is accepted.       *)
Loadable(f) == f.complete

-----------------------------------------------------------------------------
(* One optimizer update.                                                   *)

(* The examples of a minibatch enter the gradient sum, which is zeroed     *)
(* first when no example is pending. Each forward pass draws dropout.      *)
Accumulate(m, a) ==
  LET base == IF a.pending_samples = 0 THEN << >> ELSE m.grads
      examples == [i \in 1..Len(a.microbatch) |->
                     [seed |-> state.seed, epoch |-> epoch,
                      window |-> a.microbatch[i],
                      microbatch |-> a.microbatch_index, rng |-> m.rng + i - 1]]
  IN  [m EXCEPT !.grads = base \o examples, !.rng = @ + Len(a.microbatch)]

AfterMicrobatch(a) ==
  [a EXCEPT !.microbatch = << >>,
            !.microbatch_index = @ + 1,
            !.pending_samples = @ + Len(a.microbatch),
            !.pending_microbatches = @ + 1]

(* model_apply_accumulated_gradients: the gradients stay in their buffer.  *)
Apply(m) == [m EXCEPT !.log = Append(@, m.grads), !.training_steps = @ + 1]

SaveDue(steps) ==
  /\ state.checkpoint_interval > 0
  /\ steps % state.checkpoint_interval = 0

(* Mutant: only the epoch is recorded, the cursor stays behind.            *)
Position_NoCursor(a) == [state EXCEPT !.epoch_index = epoch]

(* Where the trained prefix ends, as a checkpoint will record it.          *)
Position(a) ==
  [state EXCEPT !.epoch_index = epoch, !.step_in_epoch = a.prediction_cursor]

(* commit_accumulated_training, then on to the step named next.            *)
Commit(m, a, next) ==
  IF a.pending_samples = 0
  THEN /\ model' = m
       /\ acc' = a
       /\ pc' = next
       /\ UNCHANGED <<ret, state>>
  ELSE /\ model' = Apply(m)
       /\ acc' = [a EXCEPT !.pending_microbatches = 0, !.pending_samples = 0]
       /\ state' = Position(a)
       /\ IF SaveDue(m.training_steps + 1)
          THEN pc' = "create" /\ ret' = next
          ELSE pc' = next /\ UNCHANGED ret

CommitDue(a) == a.pending_microbatches >= Accumulation

(* process_training_microbatch on a minibatch that is not empty.           *)
ProcessMicrobatch(a, next) ==
  LET m == Accumulate(model, a)
      b == AfterMicrobatch(a)
  IN  IF CommitDue(b)
      THEN Commit(m, b, next)
      ELSE /\ model' = m
           /\ acc' = b
           /\ pc' = next
           /\ UNCHANGED <<ret, state>>

-----------------------------------------------------------------------------
(* The process.                                                            *)

(* The process ends; its memory goes with it.                              *)
Exit(how) ==
  /\ pc' = how
  /\ ret' = "stream"
  /\ epoch' = 0
  /\ acc' = NewAccumulator(0)
  /\ model' = NewModel
  /\ state' = ZeroState

Start(seed, target, interval, keep) ==
  /\ ~Up
  /\ starts < MaxStarts
  /\ starts' = starts + 1
  /\ model' = NewModel
  /\ state' = NewState(seed, target, interval, keep)
  /\ epoch' = 0
  /\ acc' = NewAccumulator(0)
  /\ pc' = "epoch"
  /\ UNCHANGED <<ret, files, bundle, resumes>>

(* mode_train's resume path on file f. An explicit --epochs must extend    *)
(* beyond the epoch reached; interval and retention may be changed.        *)
Resume(f, target, interval, keep) ==
  /\ ~Up
  /\ resumes < MaxResumes
  /\ Loadable(f)
  /\ target = f.state.target_epochs \/ target > f.state.epoch_index
  /\ resumes' = resumes + 1
  /\ model' = f.model
  /\ state' = [f.state EXCEPT !.target_epochs = target,
                              !.checkpoint_interval = interval,
                              !.keep_checkpoints = keep]
  /\ epoch' = f.state.epoch_index
  /\ acc' = NewAccumulator(f.state.step_in_epoch)
  /\ pc' = "epoch"
  /\ UNCHANGED <<ret, files, bundle, starts>>

ResumeLatest ==
  \E f \in files : IsLatest(f) /\
    \E target \in Targets \cup {f.state.target_epochs},
       interval \in Intervals, keep \in Keeps :
      Resume(f, target, interval, keep)

ResumeFile ==
  \E f \in Listed : \E target \in Targets \cup {f.state.target_epochs},
                       interval \in Intervals, keep \in Keeps :
    Resume(f, target, interval, keep)

(* Mutant: the epoch loop stops one epoch early.                           *)
EpochsLeft_OneShort == epoch + 1 < state.target_epochs

EpochsLeft == epoch < state.target_epochs

EpochAccumulator == NewAccumulator(acc.resume_skip)

(* The head of the epoch loop; resume_skip survives only into the epoch    *)
(* the process resumed in.                                                 *)
BeginEpoch ==
  /\ pc = "epoch"
  /\ IF EpochsLeft
     THEN acc' = EpochAccumulator /\ pc' = "stream"
     ELSE pc' = "final" /\ UNCHANGED acc
  /\ UNCHANGED <<ret, epoch, model, state, files, bundle, launches>>

(* Mutant: replayed minibatches are not counted.                           *)
Replay_SameIndex(a) ==
  [a EXCEPT !.prediction_cursor = @ + 1,
            !.replay_slots = (@ + 1) % BatchSize]

(* Mutant: replay_slots is not reset at the end of a minibatch.            *)
Replay_NoReset(a) ==
  [a EXCEPT !.prediction_cursor = @ + 1, !.replay_slots = @ + 1]

(* Mutant: the cursor does not advance while windows are skipped.          *)
Replay_NoAdvance(a) == [a EXCEPT !.replay_slots = (@ + 1) % BatchSize]

(* A skipped window takes a slot of the minibatch it was trained in.       *)
Replay(a) ==
  LET full == a.replay_slots + 1 = BatchSize
  IN  [a EXCEPT !.prediction_cursor = @ + 1,
                !.replay_slots = IF full THEN 0 ELSE @ + 1,
                !.microbatch_index = IF full THEN @ + 1 ELSE @]

(* submit_training_prediction while replaying an interrupted epoch.        *)
ReplayWindow ==
  /\ pc = "stream"
  /\ acc.prediction_cursor < Windows
  /\ acc.prediction_cursor + 1 <= acc.resume_skip
  /\ acc' = Replay(acc)
  /\ UNCHANGED <<pc, ret, epoch, model, state, files, bundle, launches>>

(* batch_is_full                                                           *)
MicrobatchFull(a) == Len(a.microbatch) >= BatchSize

(* submit_training_prediction past the replayed prefix. A cursor inside a  *)
(* minibatch is an error that ends the run.                                *)
TrainWindow ==
  /\ pc = "stream"
  /\ acc.prediction_cursor < Windows
  /\ acc.prediction_cursor + 1 > acc.resume_skip
  /\ IF acc.replay_slots # 0
     THEN Exit("rejected")
     ELSE LET w == acc.prediction_cursor + 1
              a == [acc EXCEPT !.prediction_cursor = w,
                               !.microbatch = Append(@, w)]
          IN  IF MicrobatchFull(a)
              THEN ProcessMicrobatch(a, "stream") /\ UNCHANGED epoch
              ELSE acc' = a /\ UNCHANGED <<pc, ret, epoch, model, state>>
  /\ UNCHANGED <<files, bundle, launches>>

(* The end of the token stream: the short minibatch and the short          *)
(* accumulation group, unless the whole epoch was replayed.                *)
FinishStream ==
  /\ pc = "stream"
  /\ acc.prediction_cursor = Windows
  /\ IF acc.prediction_cursor < acc.resume_skip
     THEN Exit("rejected")
     ELSE IF acc.prediction_cursor = acc.resume_skip
     THEN pc' = "epochEnd" /\ UNCHANGED <<ret, epoch, acc, model, state>>
     ELSE LET some == acc.microbatch # << >>
          IN  /\ Commit(IF some THEN Accumulate(model, acc) ELSE model,
                        IF some THEN AfterMicrobatch(acc) ELSE acc,
                        "epochEnd")
              /\ UNCHANGED epoch
  /\ UNCHANGED <<files, bundle, launches>>

EndEpoch ==
  /\ pc = "epochEnd"
  /\ state' = [state EXCEPT !.epoch_index = epoch + 1, !.step_in_epoch = 0]
  /\ acc' = NewAccumulator(0)
  /\ epoch' = epoch + 1
  /\ pc' = "epoch"
  /\ UNCHANGED <<ret, model, files, bundle, launches>>

FinalCheckpoint ==
  /\ pc = "final"
  /\ IF state.checkpoint_interval > 0
     THEN /\ state' = [state EXCEPT !.epoch_index = state.target_epochs,
                                    !.step_in_epoch = 0]
          /\ pc' = "create"
          /\ ret' = "publish"
     ELSE pc' = "publish" /\ UNCHANGED <<ret, state>>
  /\ UNCHANGED <<epoch, acc, model, files, bundle, launches>>

(* model_bundle_save replaces the bundle atomically, or fails and leaves   *)
(* the old one; either way the process ends.                               *)
Publish ==
  /\ pc = "publish"
  /\ \/ bundle' = [seed |-> state.seed, target |-> state.target_epochs,
                   log |-> model.log]
     \/ UNCHANGED bundle
  /\ Exit("done")
  /\ UNCHANGED <<files, launches>>

-----------------------------------------------------------------------------
(* checkpoint_save, one file-system operation per step.                    *)

CreateTemp ==
  /\ pc = "create"
  /\ files' = files \cup {Entry(Pid, FALSE)}
  /\ pc' = "write"
  /\ UNCHANGED <<ret, epoch, acc, model, state, bundle, launches>>

WriteTemp ==
  /\ pc = "write"
  /\ files' = (files \ {Entry(Pid, FALSE)}) \cup {Entry(Pid, TRUE)}
  /\ pc' = "rename"
  /\ UNCHANGED <<ret, epoch, acc, model, state, bundle, launches>>

RenameTemp ==
  /\ pc = "rename"
  /\ LET new == Entry(0, TRUE)
         replaced == {f \in Listed : Name(f) = Name(new)}
     IN  files' = (files \ (replaced \cup {Entry(Pid, TRUE)})) \cup {new}
  /\ pc' = "prune"
  /\ UNCHANGED <<ret, epoch, acc, model, state, bundle, launches>>

(* A failing mkdir, fopen, write, fsync or rename removes the temporary    *)
(* file and ends the run.                                                  *)
FailSave ==
  /\ pc \in {"create", "write", "rename"}
  /\ files' = files \ {Entry(Pid, FALSE), Entry(Pid, TRUE)}
  /\ Exit("down")
  /\ UNCHANGED <<bundle, launches>>

(* checkpoint_prune goes down the sorted list, newest surplus file first.  *)
PruneFile ==
  /\ pc = "prune"
  /\ \E f \in Surplus :
       /\ \A g \in Surplus : ~Newer(g, f)
       /\ files' = files \ {f}
  /\ UNCHANGED <<process, bundle, launches>>

EndSave ==
  /\ pc = "prune"
  /\ Surplus = {}
  /\ pc' = ret
  /\ UNCHANGED <<ret, epoch, acc, model, state, files, bundle, launches>>

(* The process dies, or an error it cannot continue after ends it.         *)
Crash ==
  /\ Up
  /\ Exit("down")
  /\ UNCHANGED <<files, bundle, launches>>

-----------------------------------------------------------------------------
Init ==
  /\ pc = "down"
  /\ ret = "stream"
  /\ epoch = 0
  /\ acc = NewAccumulator(0)
  /\ model = NewModel
  /\ state = ZeroState
  /\ files = {}
  /\ bundle = NoBundle
  /\ starts = 0
  /\ resumes = 0

Launch ==
  \/ \E seed \in Seeds, target \in Targets, interval \in Intervals, keep \in Keeps :
       Start(seed, target, interval, keep)
  \/ ResumeLatest
  \/ ResumeFile

Work ==
  \/ BeginEpoch
  \/ ReplayWindow
  \/ TrainWindow
  \/ FinishStream
  \/ EndEpoch
  \/ FinalCheckpoint
  \/ CreateTemp
  \/ WriteTemp
  \/ RenameTemp
  \/ PruneFile
  \/ EndSave
  \/ Publish

Next == Launch \/ Work \/ FailSave \/ Crash

Spec == Init /\ [][Next]_vars

(* A running process keeps executing: nothing in it waits for another.     *)
FairSpec == Spec /\ WF_vars(Work)

-----------------------------------------------------------------------------
(* Properties.                                                             *)

Promise == INSTANCE Trajectory WITH
  log <- IF Up THEN model.log ELSE << >>,
  saved <- {f.model.log : f \in Listed}

GroupSize == BatchSize * Accumulation

PCs == Exits \cup {"epoch", "stream", "epochEnd", "final", "create", "write",
                   "rename", "prune", "publish"}

Example ==
  [seed : Nat, epoch : Nat, window : Nat, microbatch : Nat, rng : Nat]

Accumulator ==
  [microbatch : Seq(Nat), pending_microbatches : Nat, pending_samples : Nat,
   prediction_cursor : Nat, resume_skip : Nat, replay_slots : Nat,
   microbatch_index : Nat]

Model ==
  [log : Seq(Seq(Example)), grads : Seq(Example), rng : Nat,
   training_steps : Nat]

RunState ==
  [epoch_index : Nat, step_in_epoch : Nat, target_epochs : Nat, seed : Nat,
   checkpoint_interval : Nat, keep_checkpoints : Nat]

File == [pid : Nat, complete : BOOLEAN, state : RunState, model : Model]

Bundle == [seed : Nat, target : Nat, log : Seq(Seq(Example))]

(* Every variable stays in the range its C type and role give it.          *)
TypeOK ==
  /\ pc \in PCs
  /\ ret \in {"stream", "epochEnd", "publish"}
  /\ epoch \in Nat
  /\ acc \in Accumulator
  /\ model \in Model
  /\ state \in RunState
  /\ files \subseteq File
  /\ bundle \in Bundle \cup {NoBundle}
  /\ starts \in Nat
  /\ resumes \in Nat

(* Exact resume: across any crashes and resumes, the updates applied to    *)
(* the live model, and those any checkpoint restores, are an initial part  *)
(* of the uninterrupted run's; a save adds the live sequence, and prune    *)
(* gives up a saved sequence only while one as advanced remains. The       *)
(* directory may hold checkpoints of several runs.                         *)
RefinesTrajectory == Promise!Spec

(* The recorded epoch and cursor are the place the recorded parameters and *)
(* RNG have really reached, training_steps counts their updates, and, as   *)
(* submit_training_prediction's comment has it, that place is the end of a *)
(* complete accumulation group or of the epoch.                            *)
CursorMatchesModel ==
  \A f \in Listed :
    LET trained == f.state.epoch_index * Windows + f.state.step_in_epoch
    IN  /\ f.model.rng = trained
        /\ f.model.training_steps = Len(f.model.log)
        /\ f.model.log = Promise!Uninterrupted(f.state.seed, Len(f.model.log))
        /\ trained > 0 => LET last == f.model.log[Len(f.model.log)]
                          IN  last[Len(last)].rng = trained - 1
        /\ \/ f.state.step_in_epoch % GroupSize = 0
           \/ f.state.step_in_epoch = Windows

(* The two errors replay can end in (a cursor inside a minibatch, a cursor *)
(* past the epoch) are unreachable from checkpoints the program wrote.     *)
NeverRejectsOwnCheckpoint == pc # "rejected"

(* Whatever moment the process died at, the file --resume latest selects   *)
(* is whole: no torn or temporary file is ever selected.                   *)
LatestIsLoadable == \A f \in files : IsLatest(f) => Loadable(f)

(* Retention never takes the newest training step away: once a checkpoint  *)
(* of step n is listed, one of step n or later is listed for ever, also    *)
(* between the removals of one prune and when the process dies there.      *)
NewestSurvives ==
  [][\A f \in Listed : IsLatest(f) => \E g \in Listed' : ~Newer(f, g)]_vars

(* The bundle at --model never holds a partly trained run.                 *)
BundleIsWholeRun ==
  bundle # NoBundle =>
    bundle.log = Promise!Uninterrupted(bundle.seed,
                                       bundle.target * Promise!UpdatesPerEpoch)

(* usage.md: "Retain the newest N files". When checkpoint_save reports     *)
(* success, the checkpoint it has just written is on disk.                 *)
SavedIsRetained == pc = "prune" /\ Surplus = {} => Entry(0, TRUE) \in files

(* Replay, training, saving and pruning all come to an end: a process      *)
(* that is not killed reaches an exit of its own.                          *)
RunEnds == Up ~> ~Up
=============================================================================
