---------------------------- MODULE CommandLine ----------------------------
(***************************************************************************)
(* The program as its user sees it: a command line is parsed option by     *)
(* option (cli/cli.c), checked, and carried out by one of the four modes   *)
(* of cli/main.c, and the files it leaves are what the next command line   *)
(* finds.  A run may be killed between any two steps.                      *)
(*                                                                         *)
(* A word of the command line is a record of its text and of the number it *)
(* reads as: Malformed when it is not a number, or is negative; the texts  *)
(* of all numbers are one.  Numbers of the float options count             *)
(* thousandths.  What a mode does with the                                 *)
(* model (the training loop, evaluation, decoding) is the subject of other *)
(* modules; here it succeeds or fails.  Reading, allocating and writing    *)
(* may fail at every step.                                                 *)
(***************************************************************************)
EXTENDS Integers, Sequences, FiniteSets

CONSTANTS CommandLines,    \* the command lines each run in turn is tried with
          Overlong,        \* texts that fit no field of cli_args_t
          StartingFiles,   \* the files that may exist at the start
          RecordCapacity,  \* how many names fit in explicit_options
          StopCapacity,    \* CLI_MAX_STOP_SEQUENCES
          Updates,         \* window -> the optimizer steps of an epoch
          Copies,          \* files with the bytes the default corpus starts with
          MaxEdits         \* bound: how often a corpus is edited

Malformed == -1
Word(text)  == [text |-> text, number |-> Malformed]
Figure(n)   == [text |-> "figure", number |-> n]
On == Figure(1)
Off == Figure(0)
Words == [text : STRING, number : Int]
IsFigure(w) == w.number \in Nat /\ w = Figure(w.number)

ASSUME CommandLineAssumption ==
    /\ RecordCapacity \in Nat /\ StopCapacity \in Nat /\ MaxEdits \in Nat
    /\ \A window \in DOMAIN Updates : Updates[window] \in Nat \ {0}
    /\ CommandLines \in Seq(SUBSET Seq(Words))
    /\ \A i \in DOMAIN CommandLines : \A words \in CommandLines[i] :
           \A j \in DOMAIN words :
               words[j] = Word(words[j].text) \/ IsFigure(words[j])
    /\ \A found \in StartingFiles : \A p \in DOMAIN found : found[p].run = 0

VARIABLES files,        \* path -> what the file there is and which run wrote it
          checkpoints,  \* directory -> the checkpoints in it
          edits,        \* how often the training corpus was edited
          run,          \* how many runs were started
          argv, index,  \* the command line and the word being parsed
          mode, args,   \* the parsed mode, and the value of every option
          explicit,     \* explicit_options: the options given, in order
          effective,    \* effective_args: the values in force
          source,       \* the checkpoint this run resumed, or Nothing
          epoch,        \* epochs completed
          step,         \* model->training_steps: optimizer steps taken
          phase,        \* what the run does next
          held,         \* what it has allocated
          exit          \* the exit code and the step that ended the run

vars == <<files, checkpoints, edits, run, argv, index, mode, args, explicit,
          effective, source, epoch, step, phase, held, exit>>
disk == <<files, checkpoints, edits>>
line == <<run, argv, index, mode, args, explicit>>
progress == <<epoch, step>>

---------------------------------------------------------------------------
Flags == {"--gpu", "--tie-embeddings", "--rope", "--rmsnorm", "--gelu",
          "--swiglu", "--debug", "--shuffle"}
Texts == {"--input", "--validation", "--model", "--tokenizer",
          "--checkpoint-dir", "--resume", "--prompt"}
Choices == [o \in {"--optimizer", "--sampling"} |->
                IF o = "--optimizer" THEN {"adam", "sgd"}
                ELSE {"greedy", "topk", "topp"}]
(* The least value a numeric option accepts; some have a greatest one too. *)
FromZero == {"--checkpoint-interval", "--keep-checkpoints", "--length",
             "--min-length", "--eval-window", "--train-stride",
             "--warmup-steps", "--total-steps", "--seed", "--dropout",
             "--grad-clip", "--weight-decay", "--temperature"}
FromOne == {"--epochs", "--batch-size", "--gradient-accumulation", "--top-k",
            "--embedding-dim", "--num-heads", "--num-layers", "--max-seq-len",
            "--train-window", "--learning-rate", "--top-p"}
Least == [o \in FromZero \cup FromOne \cup {"--vocab-size", "--repetition-penalty"} |->
              CASE o \in FromZero -> 0
                [] o \in FromOne -> 1
                [] o = "--vocab-size" -> 256
                [] o = "--repetition-penalty" -> 1000]
Most == [o \in {"--dropout", "--top-p", "--temperature"} |->
             CASE o = "--dropout" -> 999
               [] o = "--top-p" -> 1000
               [] o = "--temperature" -> 2000]
Options == Flags \cup Texts \cup DOMAIN Choices \cup DOMAIN Least
               \cup {"--stop"}
Modes == {"train", "eval", "infer", "generate"}

Defaults ==
    [o \in Options |->
        CASE o = "--input" -> Word("../test.txt")
          [] o = "--model" -> Word("dranzer.pth")
          [] o = "--checkpoint-dir" -> Word("checkpoints")
          [] o = "--optimizer" -> Word("adam")
          [] o = "--sampling" -> Word("greedy")
          [] o \in {"--validation", "--tokenizer", "--resume", "--prompt"} -> Word("")
          [] o \in {"--epochs", "--batch-size", "--gradient-accumulation",
                    "--learning-rate", "--seed"} -> On
          [] o \in {"--num-heads", "--num-layers"} -> Figure(2)
          [] o = "--keep-checkpoints" -> Figure(3)
          [] o = "--top-k" -> Figure(5)
          [] o \in {"--checkpoint-interval", "--weight-decay"} -> Figure(10)
          [] o \in {"--embedding-dim", "--train-window"} -> Figure(16)
          [] o = "--max-seq-len" -> Figure(32)
          [] o = "--length" -> Figure(50)
          [] o = "--vocab-size" -> Figure(260)
          [] o = "--temperature" -> Figure(800)
          [] o = "--top-p" -> Figure(900)
          [] o \in {"--grad-clip", "--repetition-penalty"} -> Figure(1000)
          [] OTHER -> Off]

(* The options reject_resume_override compares with the checkpoint. *)
Trajectory ==
    {"--vocab-size", "--embedding-dim", "--num-heads", "--num-layers",
     "--max-seq-len", "--tie-embeddings", "--rope", "--rmsnorm", "--gelu",
     "--swiglu", "--train-window", "--train-stride", "--batch-size",
     "--gradient-accumulation", "--shuffle", "--learning-rate", "--optimizer",
     "--dropout", "--grad-clip", "--weight-decay", "--warmup-steps",
     "--total-steps", "--seed", "--gpu"}
(* The options a resumed run takes from the checkpoint unless given anew. *)
Replaceable == {"--input", "--tokenizer", "--model", "--checkpoint-dir",
                "--checkpoint-interval", "--keep-checkpoints"}

Put(f, key, value) ==
    [x \in DOMAIN f \cup {key} |-> IF x = key THEN value ELSE f[x]]

Given(o) == \E i \in DOMAIN explicit : explicit[i] = o

---------------------------------------------------------------------------
Absent == [kind |-> "absent", vocabulary |-> 0, run |-> 0]
Found(path) == IF path \in DOMAIN files THEN files[path] ELSE Absent
File(kind, e) ==
    [kind |-> kind, vocabulary |-> e["--vocab-size"].number, run |-> run]
Sidecar(e) == IF e["--tokenizer"].text # "" THEN e["--tokenizer"].text
              ELSE e["--model"].text \o ".tokenizer"
(* What the corpus at a path holds, which is compared by fingerprint and    *)
(* size, whatever its path: the default corpus may be edited, and others    *)
(* may be copies of it.                                                     *)
Content(path) ==
    [bytes |-> IF path \in Copies THEN "../test.txt" ELSE path,
     edition |-> IF path = "../test.txt" THEN edits ELSE 0]

Nothing == [epoch |-> 0, step |-> 0, target |-> 0,
            corpus |-> [bytes |-> "", edition |-> 0], run |-> 0,
            values |-> Defaults, born |-> Defaults, asked |-> Defaults]

Checkpoint(e, done, steps) ==
    [epoch |-> done, step |-> steps, target |-> e["--epochs"].number,
     corpus |-> Content(e["--input"].text), run |-> run,
     values |-> e, born |-> IF source = Nothing THEN e ELSE source.born,
     asked |-> IF source = Nothing THEN args ELSE source.asked]

(* metadata_compare_desc: steps first, then epochs, of whichever run. *)
Outranks(c, d) == c.step > d.step \/ (c.step = d.step /\ c.epoch > d.epoch)
Directory(dir) == IF dir \in DOMAIN checkpoints THEN checkpoints[dir] ELSE {}
Newest(dir) ==
    {c \in Directory(dir) : \A d \in Directory(dir) : ~Outranks(d, c)}

Init ==
    /\ files \in StartingFiles /\ checkpoints = << >> /\ edits = 0
    /\ run = 0 /\ argv = << >> /\ index = 1
    /\ mode = "train" /\ args = Defaults /\ explicit = << >>
    /\ effective = Defaults /\ source = Nothing /\ epoch = 0 /\ step = 0
    /\ phase = "exited" /\ held = {} /\ exit = [code |-> 0, at |-> "start"]

(* A step that goes well goes on to the next; one that does not frees what *)
(* its error path frees and ends the run.                                  *)
Go(here, there, takes) ==
    /\ phase = here /\ phase' = there /\ held' = held \cup takes
    /\ UNCHANGED exit

Return(here, there, frees) ==
    /\ phase = here /\ phase' = there /\ held' = held \ frees
    /\ UNCHANGED exit

Abort(here, code, frees) ==
    /\ phase = here /\ phase' = "exited" /\ held' = held \ frees
    /\ exit' = [code |-> code, at |-> here]

---------------------------------------------------------------------------
(* main, cli_parse.                                                        *)

Start ==
    /\ phase = "exited" /\ run < Len(CommandLines)
    /\ run' = run + 1
    /\ argv' \in CommandLines[run']
    /\ mode' = "train" /\ args' = Defaults /\ explicit' = << >>
    /\ effective' = Defaults /\ source' = Nothing /\ epoch' = 0 /\ step' = 0
    /\ held' = {} /\ exit' = [code |-> 0, at |-> "start"]
    /\ IF \E i \in DOMAIN argv' : argv'[i].text \in {"--help", "-h"}
       THEN phase' = "exited" /\ index' = 1
       ELSE /\ phase' = "parse"
            /\ index' = 1
    /\ UNCHANGED disk

Recorded(o) == /\ Len(explicit) < RecordCapacity
               /\ explicit' = Append(explicit, o)

(* The first word names the mode unless it looks like an option. *)
NamesMode == index = 1 /\ argv[1].text \in Modes
ParseMode ==
    /\ phase = "parse" /\ index \in DOMAIN argv /\ NamesMode
    /\ mode' = argv[1].text /\ Recorded("mode") /\ index' = 2
    /\ UNCHANGED <<disk, run, argv, args, effective, source, progress, phase, held, exit>>

Takes(o, v) ==
    /\ o \in Texts => v.text \notin Overlong
    /\ o \in DOMAIN Choices => v.text \in Choices[o]
    /\ o \in DOMAIN Least => v.number >= Least[o]
    /\ o \in DOMAIN Most => v.number <= Most[o]
    /\ o = "--stop" => /\ v.text \notin Overlong \cup {""}
                       /\ args[o].number < StopCapacity
Stored(o, v) == IF o = "--stop" THEN Figure(args[o].number + 1) ELSE v

ParseFlag ==
    /\ phase = "parse" /\ index \in DOMAIN argv
    /\ LET o == argv[index].text
       IN  /\ o \in Flags
           /\ args' = [args EXCEPT ![o] = On]
           /\ Recorded(o)
    /\ index' = index + 1
    /\ UNCHANGED <<disk, run, argv, mode, effective, source, progress, phase, held, exit>>

ParseValue ==
    /\ phase = "parse" /\ {index, index + 1} \subseteq DOMAIN argv
    /\ LET o == argv[index].text
           v == argv[index + 1]
       IN  /\ o \in Options \ Flags /\ Takes(o, v)
           /\ args' = [args EXCEPT ![o] = Stored(o, v)]
           /\ Recorded(o)
    /\ index' = index + 2
    /\ UNCHANGED <<disk, run, argv, mode, effective, source, progress, phase, held, exit>>

ParseError ==
    /\ index \in DOMAIN argv /\ ~NamesMode
    /\ LET o == argv[index].text
       IN  \/ o \notin Options
           \/ Len(explicit) >= RecordCapacity
           \/ /\ o \in Options \ Flags
              /\ index + 1 \in DOMAIN argv => ~Takes(o, argv[index + 1])
    /\ Abort("parse", 2, {})
    /\ UNCHANGED <<disk, line, effective, source, progress>>

(* What the options must satisfy together. *)
Coherent ==
    /\ mode # "generate" =>
           \A o \in {"--repetition-penalty", "--min-length", "--stop"} : ~Given(o)
    /\ ~(args["--gelu"] = On /\ args["--swiglu"] = On)
    /\ mode = "train" =>
           /\ args["--embedding-dim"].number % args["--num-heads"].number = 0
           /\ LET warmup == args["--warmup-steps"].number
                  total == args["--total-steps"].number
              IN  IF total = 0 THEN warmup = 0 ELSE warmup < total
Resuming == args["--resume"].text # ""

(* main after parsing, and the checks the modes make before they load. *)
Dispatch ==
    /\ phase = "parse" /\ index > Len(argv)
    /\ \/ ~Coherent /\ Abort("parse", 2, {})
       \/ /\ Coherent /\ mode = "train"
          /\ Go("parse", IF Resuming THEN "load checkpoint" ELSE "tokenizer", {})
       \/ /\ Coherent /\ mode = "eval"
          /\ IF Given("--input") /\ args["--input"].text # ""
             THEN Go("parse", "load model", {})
             ELSE Abort("parse", 2, {})
       \/ /\ Coherent /\ mode \in {"infer", "generate"}
          /\ IF args["--prompt"].text # ""
             THEN Go("parse", "load model", {})
             ELSE Abort("parse", 1, {})
    /\ effective' = args
    /\ UNCHANGED <<disk, line, source, progress>>

---------------------------------------------------------------------------
(* mode_train: resuming.                                                   *)

(* latest is the checkpoint that outranks the others of its directory; a    *)
(* path may be that of any one, and here the directory's name stands for it. *)
LoadCheckpoint ==
    LET from == IF args["--resume"].text = "latest"
                THEN Newest(args["--checkpoint-dir"].text)
                ELSE Directory(args["--resume"].text)
    IN  /\ \/ \E c \in from :
                  /\ Go("load checkpoint", "adopt", {"model", "encoder"})
                  /\ source' = c
           \/ Abort("load checkpoint", 1, {}) /\ UNCHANGED source
        /\ UNCHANGED <<disk, line, effective, progress>>

Requested_Raw(o) == args[o]
(* The value a request stands for: a stride of 0 is a whole window. *)
Requested(o) == IF o = "--train-stride" /\ args[o] = Off
                THEN args["--train-window"] ELSE args[o]
Rejected_Never(o) == FALSE
Rejected(o) == Given(o) /\ Requested(o) # source.values[o]

Adopted_NotSeed ==
    [o \in Options |->
        CASE o \in Trajectory \ {"--seed"} -> source.values[o]
          [] o \in Replaceable -> IF Given(o) THEN args[o] ELSE source.values[o]
          [] o = "--validation" ->
                 IF args[o].text # "" THEN args[o] ELSE source.values[o]
          [] o = "--epochs" -> IF Given(o) THEN args[o] ELSE Figure(source.target)
          [] OTHER -> args[o]]

Adopted ==
    [o \in Options |->
        CASE o \in Trajectory -> source.values[o]
          [] o \in Replaceable -> IF Given(o) THEN args[o] ELSE source.values[o]
          [] o = "--validation" ->
                 IF args[o].text # "" THEN args[o] ELSE source.values[o]
          [] o = "--epochs" -> IF Given(o) THEN args[o] ELSE Figure(source.target)
          [] OTHER -> args[o]]

AdoptCheckpoint ==
    /\ \/ /\ \A o \in Trajectory : ~Rejected(o)
          /\ Given("--epochs") => args["--epochs"].number > source.epoch
          /\ Content(Adopted["--input"].text) = source.corpus
          /\ effective' = Adopted
          /\ epoch' = source.epoch /\ step' = source.step
          /\ files' = Put(files, Sidecar(Adopted), File("sidecar", Adopted))
          /\ Go("adopt", "stream", {})
       \/ /\ Abort("adopt", 1, {"model", "encoder"})
          /\ UNCHANGED <<files, effective, progress>>
    /\ UNCHANGED <<checkpoints, edits, line, source>>

(* prepare_training_tokenizer: a frozen tokenizer named by --tokenizer is  *)
(* reused; otherwise one is trained and written beside the model.          *)
PrepareTokenizer ==
    LET sidecar == Found(Sidecar(effective))
        reuse   == effective["--tokenizer"].text # "" /\ sidecar # Absent
    IN  /\ \/ /\ reuse /\ sidecar.kind = "sidecar"
              /\ sidecar.vocabulary = effective["--vocab-size"].number
              /\ Go("tokenizer", "stream", {"encoder"})
              /\ UNCHANGED files
           \/ /\ ~reuse
              /\ Go("tokenizer", "stream", {"encoder"})
              /\ files' = Put(files, Sidecar(effective), File("sidecar", effective))
           \/ Abort("tokenizer", 1, {"encoder"}) /\ UNCHANGED files
        /\ UNCHANGED <<checkpoints, edits, line, effective, source, progress>>

(* mode_train: from the token stream to the manifest.  A resumed model is   *)
(* not freed when the stream cannot be allocated.                           *)
CreateStream ==
    /\ \/ Go("stream", IF Resuming THEN "batch" ELSE "model", {"stream"})
       \/ Abort("stream", 1, {"encoder"})
    /\ UNCHANGED <<disk, line, effective, source, progress>>

CreateModel ==
    /\ \/ Go("model", "batch", {"model"})
       \/ Abort("model", 1, {"stream", "encoder"})
    /\ UNCHANGED <<disk, line, effective, source, progress>>

Clamp(n, limit) == IF n > limit THEN limit ELSE n
Windowed(e) ==
    LET window == Clamp(e["--train-window"].number, e["--max-seq-len"].number)
        stride == e["--train-stride"].number
    IN  [e EXCEPT !["--train-window"] = Figure(window),
                  !["--train-stride"] =
                      Figure(IF stride = 0 THEN window ELSE Clamp(stride, window))]

CreateBatch ==
    /\ \/ Go("batch", "state", {"batch"}) /\ effective' = Windowed(effective)
       \/ /\ Abort("batch", 1, {"model", "stream", "encoder"})
          /\ UNCHANGED effective
    /\ UNCHANGED <<disk, line, source, progress>>

Everything == {"model", "batch", "stream", "encoder"}
(* The run state takes the values in force; the tokenizer's path is the    *)
(* resolved one in a fresh run.                                            *)
FillState ==
    /\ \/ /\ Go("state", "manifest", {})
          /\ effective' = IF Resuming THEN effective
                          ELSE [effective EXCEPT
                                   !["--tokenizer"].text = Sidecar(effective)]
       \/ Abort("state", 1, Everything) /\ UNCHANGED effective
    /\ UNCHANGED <<disk, line, source, progress>>

(* run_manifest_write: a new file for every run, which is never replaced. *)
WriteManifest ==
    /\ \/ Go("manifest", "epoch", {})
       \/ Abort("manifest", 1, Everything)
    /\ UNCHANGED <<disk, line, effective, source, progress>>

---------------------------------------------------------------------------
(* mode_train: the epochs, and what the run leaves behind.                 *)

Interval == effective["--checkpoint-interval"].number
Keep == effective["--keep-checkpoints"].number

(* checkpoint_prune: what it leaves of a directory, 0 being everything.     *)
Kept_Oldest(all) ==
    {c \in all : Keep = 0 \/ Cardinality({d \in all : Outranks(c, d)}) < Keep}
Kept(all) ==
    {c \in all : Keep = 0 \/ Cardinality({d \in all : Outranks(d, c)}) < Keep}

(* checkpoint_save: a file of the same epoch and step is replaced. The      *)
(* oldest files are removed, and a removal that fails is ignored.           *)
Store(done, steps) ==
    LET dir   == effective["--checkpoint-dir"].text
        saved == Checkpoint(effective, done, steps)
        all   == {c \in Directory(dir) : c.epoch # done \/ c.step # steps} \cup {saved}
    IN  \E left \in SUBSET (all \ Kept(all)) :
            checkpoints' = Put(checkpoints, dir, Kept(all) \cup left)

OpenCorpus ==
    /\ epoch < effective["--epochs"].number
    /\ \/ Go("epoch", "corpus", {"reader"})
       \/ Abort("epoch", 1, Everything)
    /\ UNCHANGED <<disk, line, effective, source, progress>>

EncodeChunk ==
    /\ \/ Go("corpus", "chunk", {"chunk"})
       \/ Abort("corpus", 1, Everything \cup {"reader"})
    /\ UNCHANGED <<disk, line, effective, source, progress>>

(* Where the epoch that is being trained ends.                              *)
EpochEnd == (epoch + 1) * Updates[effective["--train-window"].number]

(* An optimizer step, in a chunk, for the tokens after the last one or for  *)
(* the last minibatch; some are followed by a checkpoint.                   *)
Commit ==
    /\ phase \in {"chunk", "corpus", "last minibatch"}
    /\ step < EpochEnd /\ step' = step + 1
    /\ IF Interval > 0 /\ step' % Interval = 0 THEN Store(epoch, step')
       ELSE UNCHANGED checkpoints
    /\ UNCHANGED <<files, edits, line, effective, source, epoch, phase, held, exit>>

(* The chunk's tokens are freed whether it was trained on or not.           *)
TrainChunk ==
    /\ \/ Return("chunk", "corpus", {"chunk"})
       \/ Abort("chunk", 1, Everything \cup {"reader", "chunk"})
    /\ UNCHANGED <<disk, line, effective, source, progress>>

CloseCorpus ==
    /\ \/ Return("corpus", "last minibatch", {"reader"})
       \/ Abort("corpus", 1, Everything \cup {"reader"})
    /\ UNCHANGED <<disk, line, effective, source, progress>>

(* The last minibatch, and the validation. *)
EndEpoch ==
    /\ \/ /\ Return("last minibatch", "epoch", {})
          /\ step >= EpochEnd /\ epoch' = epoch + 1
       \/ Abort("last minibatch", 1, Everything) /\ UNCHANGED epoch
    /\ UNCHANGED <<disk, line, effective, source, step>>

(* The last validation, and the terminal checkpoint. *)
FinishTraining ==
    /\ epoch >= effective["--epochs"].number
    /\ \/ /\ Go("epoch", "bundle", {})
          /\ IF Interval > 0 THEN Store(effective["--epochs"].number, step)
             ELSE UNCHANGED checkpoints
       \/ Abort("epoch", 1, Everything) /\ UNCHANGED checkpoints
    /\ UNCHANGED <<files, edits, line, effective, source, progress>>

(* Whether the bundle was saved is remembered to the end. *)
SaveBundle ==
    /\ \/ /\ Go("bundle", "config", {})
          /\ files' = Put(files, effective["--model"].text, File("bundle", effective))
       \/ Go("bundle", "config unsaved", {}) /\ UNCHANGED files
    /\ UNCHANGED <<checkpoints, edits, line, effective, source, progress>>

ExitCode_ConfigOnly(saved, configured) == IF configured THEN 0 ELSE 1
ExitCode(saved, configured) == IF saved /\ configured THEN 0 ELSE 1

SaveConfig ==
    /\ \E configured \in BOOLEAN :
           /\ \/ Abort("config", ExitCode(TRUE, configured), Everything)
              \/ Abort("config unsaved", ExitCode(FALSE, configured), Everything)
           /\ files' = IF configured
                       THEN Put(files, "config.json", File("config", effective))
                       ELSE files
    /\ UNCHANGED <<checkpoints, edits, line, effective, source, progress>>

---------------------------------------------------------------------------
(* mode_eval, mode_infer and mode_generate.                                *)

(* load_model_artifact: a bundle holds its tokenizer; a weight file needs   *)
(* the sidecar, and one without any is read with a byte vocabulary.  A      *)
(* weight file that ends early leaves the model allocated.                  *)
SidecarServes ==
    LET sidecar == Found(Sidecar(args))
    IN  \/ sidecar = Absent /\ args["--tokenizer"].text = ""
        \/ /\ sidecar.kind = "sidecar"
           /\ sidecar.vocabulary = Found(args["--model"].text).vocabulary

LoadModel ==
    LET kind == Found(args["--model"].text).kind
    IN  /\ \/ /\ \/ kind = "bundle" /\ ~Given("--tokenizer")
                 \/ kind = "legacy" /\ SidecarServes
              /\ Go("load model", mode, {"model", "encoder"})
           \/ Abort("load model", 1, {})
           \/ /\ kind = "legacy"
              /\ phase = "load model" /\ phase' = "exited"
              /\ held' = held \cup {"model"}
              /\ exit' = [code |-> 1, at |-> "load model"]
        /\ UNCHANGED <<disk, line, effective, source, progress>>

(* The window must fit the model: MaxSeqLen of any model that was loaded. *)
Evaluate ==
    /\ \/ Abort("eval", 2, {"model", "encoder"}) /\ args["--eval-window"] # Off
       \/ \E code \in {0, 1} : Abort("eval", code, {"model", "encoder"})
    /\ UNCHANGED <<disk, line, effective, source, progress>>

EncodePrompt ==
    /\ \/ Go("infer", "context", {"tokens"})
       \/ Go("generate", "stops", {"tokens"})
       \/ \E here \in {"infer", "generate"} :
              Abort(here, 1, {"model", "encoder", "tokens"})
    /\ UNCHANGED <<disk, line, effective, source, progress>>

PrepareContext ==
    /\ \/ Go("context", "forward", {"context"})
       \/ Abort("context", 1, {"model", "encoder", "tokens"})
    /\ UNCHANGED <<disk, line, effective, source, progress>>
Infer ==
    /\ \E code \in {0, 1} :
           Abort("forward", code, {"context", "model", "encoder", "tokens"})
    /\ UNCHANGED <<disk, line, effective, source, progress>>

(* A stop text that cannot be encoded frees the ones before it too. *)
EncodeStops ==
    /\ \/ Go("stops", "sequence", {"stops"})
       \/ Abort("stops", 1, {"stops", "model", "encoder", "tokens"})
    /\ UNCHANGED <<disk, line, effective, source, progress>>

Generated_NoStops == {"generated", "model", "encoder", "tokens"}
Generated == {"generated", "stops", "model", "encoder", "tokens"}
AllocateSequence ==
    /\ \/ Go("sequence", "prompt", {"generated"})
       \/ Abort("sequence", 1, Generated \ {"generated"})
    /\ UNCHANGED <<disk, line, effective, source, progress>>

DecodePrompt ==
    /\ \/ Go("prompt", "echo", {"prompt text"})
       \/ Abort("prompt", 1, Generated)
    /\ UNCHANGED <<disk, line, effective, source, progress>>

(* The prompt is written out; its text is freed before the result is looked *)
(* at.                                                                      *)
EchoPrompt ==
    /\ \/ Return("echo", "decode", {"prompt text"})
       \/ Abort("echo", 1, Generated \cup {"prompt text"})
    /\ UNCHANGED <<disk, line, effective, source, progress>>

Generate ==
    /\ \E code \in {0, 1} : Abort("decode", code, Generated)
    /\ UNCHANGED <<disk, line, effective, source, progress>>

---------------------------------------------------------------------------
(* The run is killed: the system takes its memory back.                    *)
Kill ==
    /\ phase # "exited"
    /\ phase' = "exited" /\ held' = {}
    /\ exit' = [code |-> 137, at |-> phase]
    /\ UNCHANGED <<disk, line, effective, source, progress>>

EditCorpus ==
    /\ phase = "exited" /\ edits < MaxEdits
    /\ edits' = edits + 1
    /\ UNCHANGED <<files, checkpoints, line, effective, source, progress, phase, held, exit>>

Parse == ParseMode \/ ParseFlag \/ ParseValue \/ ParseError \/ Dispatch
Resume == LoadCheckpoint \/ AdoptCheckpoint
Prepare == \/ PrepareTokenizer \/ CreateStream \/ CreateModel \/ CreateBatch
           \/ FillState \/ WriteManifest
Epoch == OpenCorpus \/ EncodeChunk \/ Commit \/ TrainChunk \/ CloseCorpus \/ EndEpoch
Train == Epoch \/ FinishTraining \/ SaveBundle \/ SaveConfig
Read == \/ LoadModel \/ Evaluate \/ EncodePrompt \/ PrepareContext \/ Infer
        \/ EncodeStops \/ AllocateSequence \/ DecodePrompt \/ EchoPrompt \/ Generate
Next == Start \/ Parse \/ Resume \/ Prepare \/ Train \/ Read \/ Kill \/ EditCorpus

Spec == Init /\ [][Next]_vars

---------------------------------------------------------------------------
(* Asked(o) is the last value the command line gives o, read from the      *)
(* words themselves and not from what the parser recorded.                 *)
Places(o) == {i \in DOMAIN argv : argv[i].text = o}
Asked(o) ==
    LET last == CHOOSE i \in Places(o) : \A j \in Places(o) : j <= i
    IN  IF o \in Flags THEN On ELSE argv[last + 1]
Training ==
    /\ phase \in {"manifest", "epoch", "corpus", "chunk", "last minibatch",
                  "bundle", "config"}
    /\ mode = "train"
(* No value is named like an option, so each name on the line is an option. *)
Unambiguous ==
    \A i \in DOMAIN argv :
        (argv[i].text \in Options \ Flags /\ i + 1 \in DOMAIN argv) =>
            argv[i + 1].text \notin Options

(* mode_train: an option on the command line is either in force when        *)
(* training starts or the run was refused; it is never silently replaced by *)
(* what the checkpoint holds or by a default.  The program says so when it  *)
(* shortens a window or a stride; an empty --validation on a resumed run    *)
(* counts as not given.  The stride 0 is the window in force, in a resumed  *)
(* run the one its line gives, which need not be the checkpoint's           *)
(* (ZeroStrideIsWholeWindow).                                               *)
ExplicitOptionsTakeEffect ==
    (Training /\ Unambiguous) =>
        \A o \in (Trajectory \cup Replaceable \cup {"--validation", "--epochs"}) :
            Places(o) # {} =>
                \/ effective[o] = Asked(o)
                \/ o = "--train-window"
                       /\ effective[o] = effective["--max-seq-len"]
                       /\ Asked(o).number > effective[o].number
                \/ o = "--train-stride"
                       /\ effective[o] = effective["--train-window"]
                       /\ (Asked(o) = Off \/ Asked(o).number > effective[o].number)
                \/ o = "--train-stride" /\ Asked(o) = Off
                       /\ Resuming /\ effective[o] = args["--train-window"]
                \/ Resuming /\ o = "--validation" /\ Asked(o).text = ""
                \/ ~Resuming /\ o = "--tokenizer" /\ Asked(o).text = ""

(* docs/usage.md, on --train-stride: 0 means a whole window.                *)
ZeroStrideIsWholeWindow ==
    (/\ Training /\ Unambiguous
     /\ Places("--train-stride") # {} /\ Asked("--train-stride") = Off) =>
        effective["--train-stride"] = effective["--train-window"]

(* reject_resume_override, mode_train: however often a run is resumed, and  *)
(* whatever the command lines in between, what fixes the trajectory is what *)
(* the first run of the chain started with, on the corpus it started with.  *)
TrajectoryIsInherited ==
    (Training /\ Resuming) =>
        /\ \A o \in Trajectory : effective[o] = source.born[o]
        /\ Content(effective["--input"].text) = source.corpus

(* The run trained with a shorter window or stride than it was given.       *)
Shortened(e) == \/ e["--train-window"].number > e["--max-seq-len"].number
                \/ e["--train-stride"].number > e["--train-window"].number

(* reject_resume_override: the command line that started a run is not       *)
(* refused as an override when the run is resumed with it, unless the run   *)
(* shortened its window or stride and recorded that.                        *)
OwnOptionsAreAccepted ==
    (/\ phase = "adopt" /\ ~Shortened(args)
     /\ \A o \in Trajectory : args[o] = source.asked[o]) =>
        \A o \in Trajectory : ~Rejected(o)

(* checkpoint_save, FinishTraining: the terminal checkpoint is in its       *)
(* directory, unless only a number of checkpoints is kept and the directory *)
(* holds one of another run that outranks it: the program keeps those with  *)
(* the most steps, not the last.                                            *)
TerminalIsKept ==
    LET there == Directory(effective["--checkpoint-dir"].text)
        terminal == [step |-> step, epoch |-> effective["--epochs"].number]
    IN  \/ \E c \in there : /\ c.run = run
                            /\ c.step = terminal.step /\ c.epoch = terminal.epoch
        \/ /\ Keep > 0
           /\ \E c \in there : c.run # run /\ Outranks(c, terminal)

(* What a run was to leave after all epochs: its bundle, its configuration  *)
(* and, with checkpoints on, a terminal checkpoint.                         *)
ResultsAreInPlace ==
    /\ Found(effective["--model"].text).run = run
    /\ Found("config.json").run = run
    /\ epoch >= effective["--epochs"].number
    /\ Interval > 0 => TerminalIsKept
(* The three files a run writes have names of their own.                    *)
PathsDiffer ==
    /\ effective["--model"].text \notin {"config.json", Sidecar(effective)}
    /\ Sidecar(effective) # "config.json"

(* main: a training run that exits with 0 left its results, the terminal    *)
(* checkpoint possibly pushed out by those of another run; one that exits   *)
(* with another code left out one of them.  (Where the user gives two   *)
(* of the files one name, a file of the run is there although the one meant *)
(* failed.)                                                                 *)
ExitCodeIsHonest ==
    (phase = "exited" /\ mode = "train" /\ exit.at \in {"config", "config unsaved"}) =>
        /\ exit.code = 0 => ResultsAreInPlace
        /\ PathsDiffer => (ResultsAreInPlace => exit.code = 0)

(* Every way out of every mode frees what the run allocated, except the     *)
(* resumed model when the token stream cannot be allocated (main.c:768) and *)
(* the model of a weight file that ends early (main.c:207).                 *)
EveryExitFrees ==
    phase = "exited" =>
        \/ held = {}
        \/ held = {"model"} /\ exit.at \in {"stream", "load model"}

(* However a run ends, its exit code tells whether its results are in place *)
(* and nothing it allocated is left.                                        *)
ExitsCleanly == ExitCodeIsHonest /\ EveryExitFrees
============================================================================
