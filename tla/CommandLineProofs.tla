------------------------- MODULE CommandLineProofs -------------------------
(***************************************************************************)
(* The command line, for any command lines of words and numbers, any       *)
(* starting files and any number of runs, kills and resumptions.           *)
(*                                                                         *)
(* Four things are shown, each from invariants of their own:               *)
(*   - a chain of resumed runs keeps the trajectory of its first run, and  *)
(*     the options that started a run are accepted when it is resumed      *)
(*     (TypeOK, Chains, Course);                                           *)
(*   - a run's exit code tells whether its results are in place, and every *)
(*     way out frees what the run holds (HeldOK, RankOK, FilesOK);         *)
(*   - a given option is in force in training (ReadOK).                    *)
(***************************************************************************)
EXTENDS CommandLine, FiniteSetTheorems, TLAPS

(* The options a run may shorten or resolve, and the one that bounds       *)
(* them.                                                                   *)
Windows == {"--train-window", "--train-stride", "--max-seq-len"}
(* The options whose values the arguments count with.                      *)
Numbers == Windows \cup {"--epochs", "--keep-checkpoints"}
(* A value for every option: those that count are numbers, that of the     *)
(* tokenizer is a word.                                                    *)
Sound(e) ==
    /\ e = [o \in Options |-> e[o]]
    /\ \A o \in Numbers : IsFigure(e[o])
    /\ e["--tokenizer"] = [text |-> e["--tokenizer"].text,
                           number |-> e["--tokenizer"].number]

(* The sets of options the model names, and what they share.               *)
LEMMA OptionNames ==
    /\ Numbers \subseteq DOMAIN Least
    /\ Windows \subseteq Trajectory
    /\ Trajectory \cup Replaceable \cup {"--validation", "--epochs"}
          \subseteq Options \ {"--stop"}
    /\ Trajectory \cap (Replaceable \cup {"--validation", "--epochs"}) = {}
    /\ Numbers \cap (Flags \cup Texts \cup DOMAIN Choices) = {}
    /\ Numbers \subseteq Options \ {"--tokenizer"}
    /\ "--keep-checkpoints" \in Replaceable
  BY DEF Numbers, Windows, Least, FromZero, FromOne, Trajectory, Replaceable, Options,
         Flags, Texts, Choices

LEMMA LeastIsNatural == \A o \in Numbers : Least[o] \in Nat
  BY DEF Numbers, Windows, Least, FromZero, FromOne

LEMMA DefaultsAreSound == Sound(Defaults)
<1>0. Numbers \cup {"--tokenizer"} \subseteq Options
  BY OptionNames DEF Replaceable
<1> USE DEF Numbers, Windows
<1>1. Defaults["--train-window"] = Figure(16)
  BY <1>0 DEF Defaults
<1>2. Defaults["--train-stride"] = Off
  BY <1>0 DEF Defaults
<1>3. Defaults["--max-seq-len"] = Figure(32)
  BY <1>0 DEF Defaults
<1>4. Defaults["--tokenizer"] = Word("")
  BY <1>0 DEF Defaults
<1>8. Defaults["--epochs"] = On /\ Defaults["--keep-checkpoints"] = Figure(3)
  BY <1>0 DEF Defaults
<1>5. \A o \in Numbers : IsFigure(Defaults[o])
  BY <1>1, <1>2, <1>3, <1>8 DEF IsFigure, Figure, Off, On
<1>6. Defaults = [o \in Options |-> Defaults[o]]
  BY DEF Defaults
<1>7. Defaults["--tokenizer"] = [text |-> Defaults["--tokenizer"].text,
                                number |-> Defaults["--tokenizer"].number]
  BY <1>4 DEF Word
<1> QED BY <1>5, <1>6, <1>7 DEF Sound

(* mode_train: where a resumed run takes each option from.                 *)
LEMMA Adoption ==
    ASSUME TRUE
    PROVE  /\ Adopted = [o \in Options |-> Adopted[o]]
           /\ \A o \in Trajectory : Adopted[o] = source.values[o]
           /\ \A o \in Replaceable :
                  Adopted[o] = IF Given(o) THEN args[o] ELSE source.values[o]
           /\ Adopted["--validation"] =
                  IF args["--validation"].text # "" THEN args["--validation"]
                  ELSE source.values["--validation"]
           /\ Adopted["--epochs"] =
                  IF Given("--epochs") THEN args["--epochs"] ELSE Figure(source.target)
<1>1. Adopted = [o \in Options |-> Adopted[o]]
  BY DEF Adopted
<1>2. \A o \in Trajectory : Adopted[o] = source.values[o]
  BY OptionNames DEF Adopted
<1>3. \A o \in Replaceable :
          Adopted[o] = IF Given(o) THEN args[o] ELSE source.values[o]
  <2> SUFFICES ASSUME NEW o \in Replaceable
               PROVE  Adopted[o] = IF Given(o) THEN args[o] ELSE source.values[o]
    OBVIOUS
  <2>1. /\ o \in Options /\ o \notin Trajectory
        /\ o # "--validation" /\ o # "--epochs"
    BY OptionNames DEF Replaceable
  <2> QED BY <2>1 DEF Adopted
<1>4. Adopted["--validation"] =
          IF args["--validation"].text # "" THEN args["--validation"]
          ELSE source.values["--validation"]
  BY OptionNames DEF Adopted, Replaceable, Trajectory
<1>5. Adopted["--epochs"] =
          IF Given("--epochs") THEN args["--epochs"] ELSE Figure(source.target)
  BY OptionNames DEF Adopted, Replaceable
<1> QED BY <1>1, <1>2, <1>3, <1>4, <1>5

(* Values whose window fits the model and whose stride fits the window:    *)
(* what model_batch_create leaves of any values, and leaves alone.         *)
Settled(e) ==
    /\ e["--train-window"].number <= e["--max-seq-len"].number
    /\ e["--train-stride"].number <= e["--train-window"].number
    /\ e["--train-stride"].number # 0 \/ e["--train-window"].number = 0

(* mode_train: what shortening the window and resolving the stride does,   *)
(* and that it does it once and for all.                                   *)
LEMMA WindowedIsSound ==
    ASSUME NEW e, Sound(e)
    PROVE  /\ Sound(Windowed(e)) /\ Settled(Windowed(e))
           /\ \A o \in Options \ {"--train-window", "--train-stride"} :
                  Windowed(e)[o] = e[o]
           /\ Windowed(e)["--train-window"] =
                  Figure(Clamp(e["--train-window"].number, e["--max-seq-len"].number))
           /\ Windowed(e)["--train-stride"] =
                  IF e["--train-stride"].number = 0 THEN Windowed(e)["--train-window"]
                  ELSE Figure(Clamp(e["--train-stride"].number,
                                    Windowed(e)["--train-window"].number))
<1> DEFINE w == Windowed(e)
<1>0. {"--train-window", "--train-stride", "--max-seq-len", "--tokenizer"} \subseteq Options
  BY OptionNames DEF Windows, Replaceable
<1>1. DOMAIN e = Options
  BY DEF Sound
<1>2. w = [o \in Options |-> w[o]]
  BY <1>0, <1>1 DEF Windowed
<1>3. \A o \in Options \ {"--train-window", "--train-stride"} : w[o] = e[o]
  BY <1>0, <1>1 DEF Windowed
<1>4. w["--train-window"] =
          Figure(Clamp(e["--train-window"].number, e["--max-seq-len"].number))
  BY <1>0, <1>1 DEF Windowed
<1>5. w["--train-stride"] =
          IF e["--train-stride"].number = 0 THEN w["--train-window"]
          ELSE Figure(Clamp(e["--train-stride"].number, w["--train-window"].number))
  BY <1>0, <1>1 DEF Windowed, Figure
<1>6. /\ e["--train-window"].number \in Nat /\ e["--train-stride"].number \in Nat
      /\ e["--max-seq-len"].number \in Nat /\ IsFigure(e["--max-seq-len"])
  BY DEF Sound, Numbers, Windows, IsFigure
<1>7. w["--max-seq-len"] = e["--max-seq-len"] /\ w["--tokenizer"] = e["--tokenizer"]
  BY <1>0, <1>3
<1>8. IsFigure(w["--train-window"]) /\ IsFigure(w["--train-stride"])
  BY <1>4, <1>5, <1>6 DEF IsFigure, Figure, Clamp
<1>9. Settled(w)
  BY <1>4, <1>5, <1>6, <1>7 DEF Settled, Figure, Clamp
<1>10. Sound(w)
  <2>1. \A o \in Numbers \ Windows : w[o] = e[o]
    BY <1>3, OptionNames DEF Windows
  <2> QED BY <1>2, <1>6, <1>7, <1>8, <2>1 DEF Sound, Numbers, Windows
<1> QED BY <1>3, <1>4, <1>5, <1>9, <1>10

(* What is settled is not shortened again: a resumed run trains with the   *)
(* very values of its checkpoint.                                          *)
LEMMA SettledStays ==
    ASSUME NEW e, Sound(e), Settled(e)
    PROVE  Windowed(e) = e
<1>0. {"--train-window", "--train-stride", "--max-seq-len"} \subseteq Options
  BY OptionNames DEF Windows
<1>1. \A o \in {"--train-window", "--train-stride", "--max-seq-len"} : IsFigure(e[o])
  BY DEF Sound, Numbers, Windows
<1>2. Windowed(e)["--train-window"] = e["--train-window"]
  BY <1>0, <1>1, WindowedIsSound DEF Settled, Clamp, IsFigure
<1>3. Windowed(e)["--train-stride"] = e["--train-stride"]
  BY <1>0, <1>1, <1>2, WindowedIsSound DEF Settled, Clamp, IsFigure
<1>4. \A o \in Options : Windowed(e)[o] = e[o]
  BY <1>2, <1>3, WindowedIsSound
<1> QED BY <1>4, WindowedIsSound DEF Sound

---------------------------------------------------------------------------
(* The modes that load a model.                                            *)
Reading == {"eval", "infer", "generate"}

(* The type invariant.                                                     *)
TypeOK ==
    /\ run \in 0..Len(CommandLines)
    /\ argv \in Seq(Words)
    /\ \A j \in DOMAIN argv : argv[j] = Word(argv[j].text) \/ IsFigure(argv[j])
    /\ index \in Nat \ {0} /\ explicit \in Seq(STRING \cup {"mode"})
    /\ mode \in Modes
    /\ phase = "load model" => mode \in Reading
    /\ phase # "exited" => run > 0
    /\ Sound(args) /\ Sound(effective)
    /\ epoch \in Nat /\ step \in Nat

(* mode_train: the path of the tokenizer, put in when the run state is     *)
(* filled.                                                                 *)
Resolved(e) == [e EXCEPT !["--tokenizer"].text = Sidecar(e)]

(* A checkpoint holds the trajectory its chain was born with, which is     *)
(* what the options asked for then make of a window.                       *)
Good(c) ==
    /\ c.run # 0 /\ c.epoch \in Nat /\ c.step \in Nat /\ c.target \in Nat
    /\ Sound(c.values) /\ Settled(c.values) /\ Sound(c.asked)
    /\ \A o \in Trajectory : /\ c.values[o] = c.born[o]
                             /\ c.values[o] = Windowed(c.asked)[o]

(* Every checkpoint on disk, and the one resumed, is such a checkpoint.    *)
Chains ==
    /\ \A dir \in DOMAIN checkpoints : \A c \in Directory(dir) : Good(c)
    /\ source = Nothing \/ Good(source)

LEMMA ResolvedIsSound ==
    ASSUME NEW e, Sound(e)
    PROVE  /\ Sound(Resolved(e))
           /\ \A o \in Options \ {"--tokenizer"} : Resolved(e)[o] = e[o]
           /\ Resolved(e)["--tokenizer"].text = Sidecar(e)
           /\ Resolved(e)["--tokenizer"] =
                  [text |-> Sidecar(e), number |-> e["--tokenizer"].number]
<1>0. "--tokenizer" \in Options /\ Numbers \subseteq Options \ {"--tokenizer"}
  BY OptionNames DEF Replaceable
<1>1. DOMAIN e = Options
  BY DEF Sound
<1>2. Resolved(e) = [o \in Options |-> Resolved(e)[o]]
  BY <1>0, <1>1 DEF Resolved
<1>3. \A o \in Options \ {"--tokenizer"} : Resolved(e)[o] = e[o]
  BY <1>0, <1>1 DEF Resolved
<1>4. Resolved(e)["--tokenizer"] = [e["--tokenizer"] EXCEPT !.text = Sidecar(e)]
  BY <1>0, <1>1 DEF Resolved
<1>5. Resolved(e)["--tokenizer"] =
          [text |-> Sidecar(e), number |-> e["--tokenizer"].number]
  BY <1>4 DEF Sound
<1>6. Sound(Resolved(e))
  BY <1>0, <1>2, <1>3, <1>5 DEF Sound
<1> QED BY <1>3, <1>5, <1>6

LEMMA AdoptedIsSound ==
    ASSUME Sound(args), Good(source)
    PROVE  Sound(Adopted) /\ Settled(Adopted) /\ Windowed(Adopted) = Adopted
<1>0. Windows \subseteq Trajectory /\ "--tokenizer" \in Replaceable
  BY OptionNames DEF Replaceable
<1>1. \A o \in Windows : Adopted[o] = source.values[o]
  BY <1>0, Adoption
<1>2. \/ Adopted["--tokenizer"] = args["--tokenizer"]
      \/ Adopted["--tokenizer"] = source.values["--tokenizer"]
  BY <1>0, Adoption
<1>5. Adopted["--epochs"] \in {args["--epochs"], Figure(source.target)}
      /\ Adopted["--keep-checkpoints"] \in {args["--keep-checkpoints"],
                                           source.values["--keep-checkpoints"]}
  BY OptionNames, Adoption
<1>7. /\ \A o \in Numbers : IsFigure(args[o]) /\ IsFigure(source.values[o])
      /\ source.target \in Nat
  BY DEF Sound, Good
<1>8. IsFigure(Figure(source.target))
  BY <1>7 DEF IsFigure, Figure
<1>6. \A o \in Numbers : IsFigure(Adopted[o])
  BY <1>1, <1>5, <1>7, <1>8 DEF Numbers
<1>3. Sound(Adopted)
  BY <1>2, <1>6, Adoption DEF Sound, Good
<1>4. Settled(Adopted)
  BY <1>1 DEF Windows, Good, Settled
<1> QED BY <1>3, <1>4, SettledStays

(* A word that is accepted as the value of a counting option is a number.  *)
LEMMA WordsAreTaken ==
    ASSUME TypeOK, NEW o \in Numbers, NEW i \in DOMAIN argv, Takes(o, argv[i])
    PROVE  IsFigure(argv[i])
<1>3. argv[i].number >= Least[o]
  BY OptionNames DEF Takes
<1>4. Least[o] \in Nat
  BY LeastIsNatural
<1>1. argv \in Seq(Words)
  BY DEF TypeOK
<1>2. argv[i] \in Words
  BY <1>1
<1>5. argv[i].number \in Int
  BY <1>2 DEF Words
<1>6. argv[i].number # Malformed
  BY <1>3, <1>4, <1>5 DEF Malformed
<1>7. argv[i] = Word(argv[i].text) => argv[i].number = Malformed
  BY DEF Word
<1> QED BY <1>6, <1>7 DEF TypeOK

LEMMA SoundUpdate ==
    ASSUME NEW e, Sound(e), NEW o \in Options, NEW v,
           o \in Numbers => IsFigure(v),
           o = "--tokenizer" => v = [text |-> v.text, number |-> v.number]
    PROVE  Sound([e EXCEPT ![o] = v])
<1>0. "--tokenizer" \in Options /\ Numbers \subseteq Options
  BY OptionNames DEF Replaceable
<1>1. DOMAIN e = Options
  BY DEF Sound
<1> QED BY <1>0, <1>1 DEF Sound

LEMMA FlagsAreApart == Flags \cap (Numbers \cup {"--tokenizer"}) = {}
  BY DEF Flags, Numbers, Windows

---------------------------------------------------------------------------
(* The steps of a training run after its batch is created.                 *)
InEpoch == {"epoch", "corpus", "chunk", "last minibatch"}
Late == {"state", "manifest", "bundle", "config", "config unsaved"} \cup InEpoch
(* The steps of a run that answers a prompt.                               *)
Answering == {"context", "forward", "stops", "sequence", "prompt", "echo", "decode"}

(* What reject_resume_override and the corpus check let through.           *)
Accepted ==
    /\ source # Nothing
    /\ \A o \in Trajectory : ~Rejected(o)
    /\ Content(Adopted["--input"].text) = source.corpus

(* The values in force in a run that resumes nothing, step by step.        *)
Fresh(here) ==
    IF here \in {"stream", "model", "batch"} THEN args
    ELSE IF here = "state" THEN Windowed(args) ELSE Resolved(Windowed(args))

(* At every step, the values in force are those the line and the           *)
(* checkpoint give.                                                        *)
Course ==
    /\ phase = "parse" => source = Nothing
    /\ phase = "load checkpoint" => Resuming /\ source = Nothing
    /\ phase = "adopt" => Resuming /\ source # Nothing
    /\ phase = "tokenizer" => ~Resuming /\ source = Nothing /\ effective = args
    /\ phase = "model" => ~Resuming
    /\ phase \in {"stream", "model", "batch"} \cup Late =>
           IF Resuming THEN Accepted /\ effective = Adopted
           ELSE source = Nothing /\ effective = Fresh(phase)

LEMMA InitTypes == Init => TypeOK /\ Chains /\ Course
<1> SUFFICES ASSUME Init PROVE TypeOK /\ Chains /\ Course
  OBVIOUS
<1> USE DEF Init
<1>1. 0 \in 0..Len(CommandLines)
  BY CommandLineAssumption
<1>2. argv \in Seq(Words) /\ DOMAIN argv = {} /\ explicit \in Seq(STRING \cup {"mode"})
  OBVIOUS
<1>3. TypeOK
  BY <1>1, <1>2, DefaultsAreSound DEF TypeOK, Modes
<1>4. Chains
  BY DEF Chains
<1>5. Course
  BY DEF Course, Late, InEpoch
<1> QED BY <1>3, <1>4, <1>5

LEMMA AbortTellsWhere ==
    ASSUME NEW here, NEW code, NEW frees, Abort(here, code, frees)
    PROVE  /\ phase = here /\ phase' = "exited"
           /\ exit'.at = here /\ exit'.code = code
<1>1. phase = here /\ phase' = "exited" /\ exit' = [code |-> code, at |-> here]
  BY DEF Abort
<1> QED BY <1>1

(* What the steps of an epoch, and those of a reading mode, leave alone     *)
(* and where they lead.                                                    *)
LEMMA EpochSteps ==
    ASSUME Epoch
    PROVE  /\ UNCHANGED <<files, edits, line, effective, source>>
           /\ phase \in InEpoch /\ phase' \in InEpoch \cup {"exited"}
           /\ phase' = "exited" => exit'.at = phase
<1> USE DEF InEpoch, Go, Return, disk
<1>1. CASE OpenCorpus \/ EncodeChunk
  BY <1>1, AbortTellsWhere DEF OpenCorpus, EncodeChunk
<1>2. CASE Commit
  BY <1>2, AbortTellsWhere DEF Commit
<1>3. CASE TrainChunk \/ CloseCorpus
  BY <1>3, AbortTellsWhere DEF TrainChunk, CloseCorpus
<1>4. CASE EndEpoch
  BY <1>4, AbortTellsWhere DEF EndEpoch
<1> QED BY <1>1, <1>2, <1>3, <1>4 DEF Epoch

LEMMA ReadSteps ==
    ASSUME TypeOK, Read
    PROVE  /\ UNCHANGED <<disk, line, effective, source, progress>>
           /\ phase \in {"load model"} \cup Reading \cup Answering
           /\ phase' \in Reading \cup Answering \cup {"exited"}
           /\ phase' = "exited" => exit'.at = phase
<1> USE DEF Reading, Answering, Go, Return
<1>1. CASE LoadModel
  <2>1. mode \in Reading
    BY <1>1, AbortTellsWhere DEF LoadModel, TypeOK
  <2>2. \/ phase = "load model" /\ phase' = mode
        \/ Abort("load model", 1, {})
        \/ /\ phase = "load model" /\ phase' = "exited"
           /\ exit' = [code |-> 1, at |-> "load model"]
    BY <1>1 DEF LoadModel
  <2>3. ASSUME exit' = [code |-> 1, at |-> "load model"]
        PROVE  exit'.at = "load model"
    BY <2>3
  <2>4. UNCHANGED <<disk, line, effective, source, progress>>
    BY <1>1 DEF LoadModel
  <2> QED BY <2>1, <2>2, <2>3, <2>4, AbortTellsWhere
<1>6. CASE Evaluate
  <2>1. \E code \in {0, 1, 2} : Abort("eval", code, {"model", "encoder"})
    BY <1>6 DEF Evaluate
  <2>2. UNCHANGED <<disk, line, effective, source, progress>>
    BY <1>6 DEF Evaluate
  <2> QED BY <2>1, <2>2, AbortTellsWhere
<1>2. CASE EncodePrompt
  <2>1. \/ phase = "infer" /\ phase' = "context"
        \/ phase = "generate" /\ phase' = "stops"
        \/ \E here \in {"infer", "generate"} :
               \E code : Abort(here, code, {"model", "encoder", "tokens"})
    BY <1>2 DEF EncodePrompt
  <2>3. ASSUME NEW here, NEW code, Abort(here, code, {"model", "encoder", "tokens"})
        PROVE  phase = here /\ phase' = "exited" /\ exit'.at = here
    BY <2>3, AbortTellsWhere
  <2>2. UNCHANGED <<disk, line, effective, source, progress>>
    BY <1>2 DEF EncodePrompt
  <2> QED BY <2>1, <2>2, <2>3
<1>3. CASE PrepareContext \/ Infer \/ EncodeStops
  BY <1>3, AbortTellsWhere DEF PrepareContext, Infer, EncodeStops
<1>4. CASE AllocateSequence \/ DecodePrompt
  BY <1>4, AbortTellsWhere DEF AllocateSequence, DecodePrompt
<1>5. CASE EchoPrompt \/ Generate
  BY <1>5, AbortTellsWhere DEF EchoPrompt, Generate
<1> QED BY <1>1, <1>2, <1>3, <1>4, <1>5, <1>6 DEF Read

(* The steps that neither parse nor resume, and what they count.           *)
LEMMA ProgressIsNatural ==
    ASSUME TypeOK, Chains, Course, Next
    PROVE  epoch' \in Nat /\ step' \in Nat
<1>0. epoch \in Nat /\ step \in Nat
  BY DEF TypeOK
<1>1. CASE Start
  BY <1>1 DEF Start
<1>2. CASE UNCHANGED progress
  BY <1>0, <1>2 DEF progress
<1>3. CASE AdoptCheckpoint
  <2>1. phase = "adopt"
    BY <1>3 DEF AdoptCheckpoint, Go, Abort
  <2>2. Good(source)
    BY <2>1 DEF Course, Chains
  <2>3. UNCHANGED progress \/ (epoch' = source.epoch /\ step' = source.step)
    BY <1>3 DEF AdoptCheckpoint
  <2> QED BY <1>2, <2>2, <2>3 DEF Good
<1>4. CASE Epoch
  <2>1. epoch' \in {epoch, epoch + 1} /\ step' \in {step, step + 1}
    BY <1>4 DEF Epoch, OpenCorpus, EncodeChunk, Commit, TrainChunk, CloseCorpus,
       EndEpoch, progress
  <2> QED BY <1>0, <2>1
<1>5. CASE Read
  BY <1>2, <1>5, ReadSteps
<1> QED BY <1>1, <1>2, <1>3, <1>4, <1>5 DEF Next, Parse, Resume, Prepare, Train,
       ParseMode, ParseFlag, ParseValue, ParseError, Dispatch, LoadCheckpoint,
       PrepareTokenizer, CreateStream, CreateModel, CreateBatch, FillState,
       WriteManifest, FinishTraining, SaveBundle, SaveConfig, Kill, EditCorpus

LEMMA ParsingKeepsTypes ==
    ASSUME TypeOK, UNCHANGED <<run, argv, effective>>, index' \in Nat \ {0},
           explicit' \in Seq(STRING \cup {"mode"}), mode' \in Modes,
           phase = "parse", phase' # "load model", Sound(args'), epoch' \in Nat, step' \in Nat
    PROVE  TypeOK'
<1>1. argv' = argv /\ run' = run /\ effective' = effective
  OBVIOUS
<1>2. \A j \in DOMAIN argv' : argv'[j] = Word(argv'[j].text) \/ IsFigure(argv'[j])
  BY <1>1 DEF TypeOK
<1> QED BY <1>1, <1>2 DEF TypeOK

LEMMA TypesAreKept ==
    ASSUME TypeOK, Chains, Course, Next
    PROVE  TypeOK'
<1>0. epoch' \in Nat /\ step' \in Nat
  BY ProgressIsNatural
<1>1. CASE Start
  <2>1. run \in Nat /\ run' = run + 1 /\ run' \in 0..Len(CommandLines) /\ run' \in DOMAIN CommandLines
    BY <1>1, CommandLineAssumption DEF Start, TypeOK
  <2>2. argv' \in CommandLines[run']
    BY <1>1 DEF Start
  <2>3. CommandLines[run'] \in SUBSET Seq(Words)
    BY <2>1, CommandLineAssumption
  <2>4. argv' \in Seq(Words)
    BY <2>2, <2>3
  <2>5. \A j \in DOMAIN argv' : argv'[j] = Word(argv'[j].text) \/ IsFigure(argv'[j])
    BY <2>1, <2>2, CommandLineAssumption
  <2>6. index' = 1 /\ explicit' = << >> /\ mode' = "train" /\ phase' \in {"parse", "exited"}
        /\ args' = Defaults /\ effective' = Defaults
    BY <1>1 DEF Start
  <2>7. Sound(args)' /\ Sound(effective)'
    BY <2>6, DefaultsAreSound DEF Sound
  <2>8. index' \in Nat \ {0}
    BY <2>6
  <2>10. mode' \in Modes
    BY <2>6 DEF Modes
  <2>11. phase' # "load model"
    BY <2>6
  <2>9. explicit' \in Seq(STRING \cup {"mode"})
    BY <2>6
  <2>12. run' > 0
    BY <2>1
  <2> QED BY <1>0, <2>1, <2>4, <2>5, <2>7, <2>8, <2>9, <2>10, <2>11, <2>12 DEF TypeOK
<1>2. CASE ParseMode
  <2>1. argv \in Seq(Words) /\ explicit \in Seq(STRING \cup {"mode"}) /\ index' = 2
    BY <1>2 DEF ParseMode, TypeOK
  <2>2. explicit' = Append(explicit, "mode")
    BY <1>2 DEF ParseMode, Recorded
  <2>3. explicit' \in Seq(STRING \cup {"mode"})
    BY <2>1, <2>2
  <2>4. mode' \in Modes /\ phase = "parse" /\ phase' = "parse" /\ UNCHANGED <<run, argv, args, effective>>
    BY <1>2 DEF ParseMode, NamesMode
  <2>5. index' \in Nat \ {0}
    BY <2>1
  <2>6. Sound(args')
    BY <2>4 DEF TypeOK
  <2> QED BY <2>3, <2>4, <2>5, <2>6, <1>0, ParsingKeepsTypes
<1>3. CASE ParseFlag
  <2>1. /\ argv \in Seq(Words) /\ index \in DOMAIN argv
        /\ argv[index].text \in Flags /\ explicit \in Seq(STRING \cup {"mode"})
        /\ args' = [args EXCEPT ![argv[index].text] = On]
        /\ explicit' = Append(explicit, argv[index].text) /\ index' = index + 1
    BY <1>3 DEF ParseFlag, TypeOK, Recorded
  <2>5. argv[index] \in Words
    BY <2>1
  <2>2. argv[index].text \in STRING
    BY <2>5 DEF Words
  <2>3. explicit' \in Seq(STRING \cup {"mode"})
    BY <2>1, <2>2
  <2>4. Sound(args')
    BY <2>1, SoundUpdate, FlagsAreApart DEF TypeOK, Options
  <2>9. phase = "parse" /\ phase' = "parse" /\ UNCHANGED <<run, argv, mode, effective>>
    BY <1>3 DEF ParseFlag
  <2>11. index \in Nat \ {0} /\ mode \in Modes
    BY DEF TypeOK
  <2>12. index' \in Nat \ {0}
    BY <2>1, <2>11
  <2>10. index' \in Nat \ {0} /\ mode' \in Modes
    BY <2>9, <2>11, <2>12
  <2> QED BY <2>3, <2>4, <2>9, <2>10, <1>0, ParsingKeepsTypes
<1>4. CASE ParseValue
  <2> DEFINE o == argv[index].text
             v == argv[index + 1]
  <2>1. /\ argv \in Seq(Words) /\ index \in DOMAIN argv /\ index + 1 \in DOMAIN argv
        /\ o \in Options \ Flags /\ Takes(o, v) /\ explicit \in Seq(STRING \cup {"mode"})
        /\ args' = [args EXCEPT ![o] = Stored(o, v)]
        /\ explicit' = Append(explicit, o) /\ index' = index + 2
    BY <1>4 DEF ParseValue, TypeOK, Recorded
  <2>8. argv[index] \in Words /\ v \in Words
    BY <2>1
  <2>2. o \in STRING /\ v \in Words
    BY <2>8 DEF Words
  <2>3. explicit' \in Seq(STRING \cup {"mode"})
    BY <2>1, <2>2
  <2>4. o \in Numbers \cup {"--tokenizer"} => Stored(o, v) = v
    BY DEF Stored, Numbers, Windows
  <2>5. o \in Numbers => IsFigure(Stored(o, v))
    BY <2>1, <2>4, WordsAreTaken
  <2>6. v = [text |-> v.text, number |-> v.number]
    BY <2>2 DEF Words
  <2>7. Sound(args')
    <3> HIDE DEF o, v
    <3>1. Sound(args) /\ o \in Options
      BY <2>1 DEF TypeOK
    <3>2. o = "--tokenizer" =>
              Stored(o, v) = [text |-> Stored(o, v).text, number |-> Stored(o, v).number]
      BY <2>4, <2>6
    <3>3. Sound([args EXCEPT ![o] = Stored(o, v)])
      BY <3>1, <3>2, <2>5, SoundUpdate
    <3> QED BY <3>3, <2>1
  <2>9. phase = "parse" /\ phase' = "parse" /\ UNCHANGED <<run, argv, mode, effective>>
    BY <1>4 DEF ParseValue
  <2>11. index \in Nat \ {0} /\ mode \in Modes
    BY DEF TypeOK
  <2>12. index' \in Nat \ {0}
    BY <2>1, <2>11
  <2>10. index' \in Nat \ {0} /\ mode' \in Modes
    BY <2>9, <2>11, <2>12
  <2> QED BY <2>3, <2>7, <2>9, <2>10, <1>0, ParsingKeepsTypes
<1>5. CASE ParseError
  BY <1>0, <1>5 DEF ParseError, Abort, TypeOK, line, Sound
<1>6. CASE Dispatch
  <2>1. phase' = "load model" => mode \in Reading
    BY <1>6 DEF Dispatch, Go, Abort, Reading
  <2> QED BY <1>0, <1>6, <2>1 DEF Dispatch, TypeOK, line, Sound
<1>7. CASE /\ UNCHANGED line /\ Sound(effective') /\ phase' # "load model"
           /\ phase = "exited" => phase' = "exited"
  BY <1>0, <1>7 DEF TypeOK, line, Sound
<1>8. CASE Resume \/ Prepare \/ Train
  <2>1. UNCHANGED line /\ phase' # "load model" /\ phase # "exited"
    <3>1. CASE Resume \/ Prepare
      BY <3>1 DEF Resume, Prepare, LoadCheckpoint, AdoptCheckpoint,
         PrepareTokenizer, CreateStream, CreateModel, CreateBatch, FillState,
         WriteManifest, Go, Abort
    <3>2. CASE Epoch
      BY <3>2, EpochSteps DEF InEpoch
    <3>3. CASE FinishTraining \/ SaveBundle \/ SaveConfig
      BY <3>3 DEF FinishTraining, SaveBundle, SaveConfig, Go, Abort
    <3> QED BY <1>8, <3>1, <3>2, <3>3 DEF Train
  <2>3. Sound(effective')
    <3>1. Sound(args) /\ Sound(effective)
      BY DEF TypeOK
    <3>2. CASE AdoptCheckpoint
      <4>1. phase = "adopt" /\ effective' \in {Adopted, effective}
        BY <3>2 DEF AdoptCheckpoint, Go, Abort
      <4>2. Good(source)
        BY <4>1 DEF Course, Chains
      <4> QED BY <3>1, <4>1, <4>2, AdoptedIsSound
    <3>3. CASE CreateBatch
      BY <3>1, <3>3, WindowedIsSound DEF CreateBatch
    <3>4. CASE FillState
      <4>1. effective' \in {effective, Resolved(effective)}
        BY <3>4 DEF FillState, Resolved
      <4> QED BY <3>1, <4>1, ResolvedIsSound
    <3>5. CASE UNCHANGED effective
      BY <3>1, <3>5
    <3> QED BY <1>8, <3>2, <3>3, <3>4, <3>5, EpochSteps DEF Resume, Prepare, Train,
           LoadCheckpoint, PrepareTokenizer, CreateStream, CreateModel,
           WriteManifest, FinishTraining, SaveBundle, SaveConfig
  <2> QED BY <1>7, <2>1, <2>3
<1>10. CASE Read
  <2>1. /\ UNCHANGED line /\ UNCHANGED effective /\ phase' # "load model"
        /\ phase # "exited"
    BY <1>10, ReadSteps DEF Reading, Answering
  <2> QED BY <1>7, <2>1 DEF TypeOK
<1>9. CASE Kill \/ EditCorpus
  <2>1. /\ UNCHANGED line /\ UNCHANGED effective
        /\ phase' # "load model" /\ phase' = "exited"
    BY <1>9 DEF Kill, EditCorpus
  <2> QED BY <1>7, <2>1 DEF TypeOK
<1> QED BY <1>1, <1>2, <1>3, <1>4, <1>5, <1>6, <1>8, <1>9, <1>10 DEF Next, Parse

(* What a run was given and what it resumed do not change while it         *)
(* trains.                                                                 *)
LEMMA LineIsFixed ==
    ASSUME UNCHANGED <<line, source, edits>>
    PROVE  /\ Resuming' = Resuming /\ Adopted' = Adopted /\ Accepted' = Accepted
<1> USE DEF line
<1>1. Resuming' = Resuming
  BY DEF Resuming
<1>2. Adopted' = Adopted
  BY DEF Adopted, Given
<1>3. Accepted' = Accepted
  BY <1>2 DEF Accepted, Rejected, Requested, Given, Content
<1> QED BY <1>1, <1>2, <1>3

LEMMA CourseIsKept ==
    ASSUME TypeOK, Chains, Course, Next
    PROVE  Course'
<1>1. CASE phase' = "exited"
  BY <1>1 DEF Course, Late, InEpoch
<1>2. CASE Start
  BY <1>2 DEF Start, Course, Late, InEpoch
<1>3. CASE ParseMode \/ ParseFlag \/ ParseValue
  BY <1>3 DEF ParseMode, ParseFlag, ParseValue, Course, Late, InEpoch
<1>4. CASE Dispatch
  <2> SUFFICES ASSUME phase' # "exited" PROVE Course'
    BY <1>1
  <2>1. source = Nothing /\ source' = source /\ effective' = args /\ args' = args
    BY <1>4 DEF Dispatch, Course, line
  <2>2. /\ phase' = "load checkpoint" => Resuming
        /\ phase' = "tokenizer" => ~Resuming
        /\ phase' \in {"load checkpoint", "tokenizer", "load model"}
    BY <1>4 DEF Dispatch, Go, Abort
  <2>3. Resuming' = Resuming
    BY <2>1 DEF Resuming
  <2> QED BY <2>1, <2>2, <2>3 DEF Course, Late, InEpoch
<1>5. CASE LoadCheckpoint
  <2> SUFFICES ASSUME phase' # "exited" PROVE Course'
    BY <1>1
  <2>1. /\ phase = "load checkpoint" /\ phase' = "adopt" /\ args' = args
        /\ \E dir : source' \in Directory(dir)
    BY <1>5 DEF LoadCheckpoint, Newest, Go, Abort, line
  <2>4. source'.run # 0
    BY <2>1 DEF Directory, Chains, Good
  <2>5. Nothing.run = 0
    BY DEF Nothing
  <2>3. source' # Nothing
    BY <2>4, <2>5
  <2>2. Resuming'
    BY <2>1 DEF Resuming, Course
  <2> QED BY <2>1, <2>2, <2>3 DEF Course, Late, InEpoch
<1>6. CASE AdoptCheckpoint
  <2> SUFFICES ASSUME phase' # "exited" PROVE Course'
    BY <1>1
  <2>1. /\ phase = "adopt" /\ phase' = "stream" /\ UNCHANGED <<line, source, edits>>
        /\ effective' = Adopted /\ \A o \in Trajectory : ~Rejected(o)
        /\ Content(Adopted["--input"].text) = source.corpus
    BY <1>6 DEF AdoptCheckpoint, Go, Abort
  <2>2. Resuming /\ Accepted
    BY <2>1 DEF Course, Accepted
  <2> QED BY <2>1, <2>2, LineIsFixed DEF Course, Late, InEpoch
<1> DEFINE Walk == {"stream", "model", "batch"} \cup Late
<1>7. ASSUME UNCHANGED <<line, source, edits>>, phase \in Walk, phase' \in Walk,
             phase' = "model" => ~Resuming,
             Resuming => effective' = Adopted,
             ~Resuming => effective' = Fresh(phase')
      PROVE  Course'
  <2>1. phase' \notin {"parse", "load checkpoint", "adopt", "tokenizer"}
    BY <1>7 DEF Late, InEpoch
  <2>2. IF Resuming THEN Accepted ELSE source = Nothing
    BY <1>7 DEF Course
  <2>3. Resuming' => Accepted' /\ effective' = Adopted'
    <3>1. Resuming' = Resuming /\ Adopted' = Adopted /\ Accepted' = Accepted
      BY <1>7, LineIsFixed
    <3>2. Resuming => effective' = Adopted
      BY <1>7
    <3> QED BY <2>2, <3>1, <3>2
  <2>4. ~Resuming' => source' = Nothing /\ effective' = Fresh(phase)'
    <3>1. args' = args /\ source' = source
      BY <1>7 DEF line
    <3>2. Fresh(phase)' = Fresh(phase')
      BY <3>1 DEF Fresh
    <3> QED BY <1>7, <2>2, <3>1, <3>2, LineIsFixed
  <2>5. phase' = "model" => ~Resuming'
    BY <1>7, LineIsFixed
  <2> QED BY <2>1, <2>3, <2>4, <2>5 DEF Course
<1>8. CASE PrepareTokenizer
  <2> SUFFICES ASSUME phase' # "exited" PROVE Course'
    BY <1>1
  <2>1. /\ phase = "tokenizer" /\ phase' = "stream" /\ UNCHANGED <<line, source, edits>>
        /\ effective' = effective
    BY <1>8 DEF PrepareTokenizer, Go, Abort
  <2>2. ~Resuming /\ source = Nothing /\ effective = args
    BY <2>1 DEF Course
  <2>3. Resuming' = Resuming /\ args' = args
    BY <2>1, LineIsFixed DEF line
  <2> QED BY <2>1, <2>2, <2>3 DEF Course, Late, InEpoch, Fresh
<1>9. CASE CreateStream \/ CreateModel
  <2> SUFFICES ASSUME phase' # "exited" PROVE Course'
    BY <1>1
  <2>1. /\ UNCHANGED <<line, source, edits>> /\ effective' = effective
        /\ phase \in {"stream", "model"} /\ phase' \in {"model", "batch"}
        /\ phase' = "model" => ~Resuming
    BY <1>9 DEF CreateStream, CreateModel, Go, Abort, disk
  <2>2. IF Resuming THEN effective = Adopted ELSE effective = args
    BY <2>1 DEF Course, Fresh
  <2> QED BY <1>7, <2>1, <2>2 DEF Fresh
<1>10. CASE CreateBatch
  <2> SUFFICES ASSUME phase' # "exited" PROVE Course'
    BY <1>1
  <2>1. /\ UNCHANGED <<line, source, edits>> /\ effective' = Windowed(effective)
        /\ phase = "batch" /\ phase' = "state"
    BY <1>10 DEF CreateBatch, Go, Abort, disk
  <2>2. IF Resuming THEN Accepted /\ effective = Adopted ELSE effective = args
    BY <2>1 DEF Course, Fresh
  <2>3. Resuming => effective' = Adopted
    BY <2>1, <2>2, AdoptedIsSound DEF Accepted, Chains, TypeOK
  <2> QED BY <1>7, <2>1, <2>2, <2>3 DEF Fresh, Late, InEpoch
<1>11. CASE FillState
  <2> SUFFICES ASSUME phase' # "exited" PROVE Course'
    BY <1>1
  <2>1. /\ UNCHANGED <<line, source, edits>>
        /\ effective' = IF Resuming THEN effective ELSE Resolved(effective)
        /\ phase = "state" /\ phase' = "manifest"
    BY <1>11 DEF FillState, Go, Abort, disk, Resolved
  <2>2. IF Resuming THEN effective = Adopted ELSE effective = Windowed(args)
    BY <2>1 DEF Course, Fresh, Late, InEpoch
  <2> QED BY <1>7, <2>1, <2>2 DEF Fresh, Late, InEpoch
<1>12. CASE WriteManifest \/ Train
  <2> SUFFICES ASSUME phase' # "exited" PROVE Course'
    BY <1>1
  <2>1. /\ UNCHANGED <<line, source, edits>> /\ effective' = effective
        /\ {phase, phase'} \subseteq Late \ {"state"}
    <3>1. CASE Epoch
      BY <3>1, EpochSteps DEF Late, InEpoch
    <3>2. CASE WriteManifest \/ FinishTraining \/ SaveBundle \/ SaveConfig
      BY <3>2 DEF WriteManifest, FinishTraining, SaveBundle, SaveConfig, Go, Abort,
         Late, InEpoch, disk
    <3> QED BY <1>12, <3>1, <3>2 DEF Train
  <2>3. IF Resuming THEN effective = Adopted
        ELSE effective = Resolved(Windowed(args))
    BY <2>1 DEF Course, Fresh, Late, InEpoch
  <2> QED BY <1>7, <2>1, <2>3 DEF Fresh, Late, InEpoch
<1>13. CASE Read
  <2> SUFFICES ASSUME phase' # "exited" PROVE Course'
    BY <1>1
  <2>1. phase' \in Reading \cup Answering
    BY <1>13, ReadSteps
  <2> QED BY <2>1 DEF Course, Late, InEpoch, Reading, Answering
<1>14. CASE ParseError \/ Kill \/ EditCorpus
  BY <1>1, <1>14 DEF ParseError, Kill, EditCorpus, Abort
<1> QED BY <1>2, <1>3, <1>4, <1>5, <1>6, <1>8, <1>9, <1>10, <1>11, <1>12, <1>13, <1>14
        DEF Next, Parse, Resume, Prepare

LEMMA RunIsNatural == TypeOK => run \in Nat
<1> SUFFICES ASSUME TypeOK PROVE run \in Nat
  OBVIOUS
<1>1. Len(CommandLines) \in Nat
  BY CommandLineAssumption
<1>2. run \in 0..Len(CommandLines)
  BY DEF TypeOK
<1> QED BY <1>1, <1>2

(* A checkpoint a run stores carries on the chain it belongs to.           *)
LEMMA CheckpointIsGood ==
    ASSUME TypeOK, Chains, Course, phase \in InEpoch,
           NEW done \in Nat, NEW steps \in Nat
    PROVE  Good(Checkpoint(effective, done, steps))
<1> DEFINE c == Checkpoint(effective, done, steps)
<1>4. c.run = run /\ c.epoch = done /\ c.step = steps /\ c.target = effective["--epochs"].number
  BY DEF Checkpoint
<1>5. c.run # 0 /\ c.epoch \in Nat /\ c.step \in Nat /\ c.target \in Nat
  <2>1. run \in Nat /\ run > 0
    BY RunIsNatural DEF TypeOK, InEpoch
  <2>2. effective["--epochs"].number \in Nat
    BY DEF TypeOK, Sound, Numbers, IsFigure
  <2>3. run # 0
    BY <2>1
  <2> QED BY <1>4, <2>2, <2>3
<1>0. /\ c.values = effective
      /\ c.born = IF source = Nothing THEN effective ELSE source.born
      /\ c.asked = IF source = Nothing THEN args ELSE source.asked
  BY DEF Checkpoint
<1>1. Sound(args) /\ Sound(effective)
  BY DEF TypeOK
<1>2. CASE Resuming
  <2>1. Accepted /\ effective = Adopted
    BY <1>2 DEF Course, Late, InEpoch
  <2>2. source # Nothing /\ Good(source)
    BY <2>1 DEF Accepted, Chains
  <2>3. Settled(effective)
    BY <1>1, <2>1, <2>2, AdoptedIsSound
  <2>4. \A o \in Trajectory : /\ effective[o] = source.born[o]
                              /\ effective[o] = Windowed(source.asked)[o]
    BY <2>1, <2>2, Adoption DEF Good
  <2>5. Sound(source.asked)
    BY <2>2 DEF Good
  <2> QED BY <1>0, <1>1, <1>5, <2>2, <2>3, <2>4, <2>5 DEF Good
<1>3. CASE ~Resuming
  <2>1. source = Nothing /\ effective = Resolved(Windowed(args))
    BY <1>3 DEF Course, Late, InEpoch, Fresh
  <2>2. Sound(Windowed(args)) /\ Settled(Windowed(args))
    BY <1>1, WindowedIsSound
  <2>3. \A o \in Options \ {"--tokenizer"} : effective[o] = Windowed(args)[o]
    BY <2>1, <2>2, ResolvedIsSound
  <2>4. Trajectory \subseteq Options \ {"--tokenizer"} /\ Windows \subseteq Trajectory
    BY OptionNames DEF Replaceable
  <2>5. Settled(effective)
    BY <2>2, <2>3, <2>4 DEF Settled, Windows
  <2>6. \A o \in Trajectory : effective[o] = Windowed(args)[o]
    BY <2>3, <2>4
  <2> QED BY <1>0, <1>1, <1>5, <2>1, <2>5, <2>6 DEF Good
<1> QED BY <1>2, <1>3

(* checkpoint_save and checkpoint_prune: what a directory holds afterwards *)
(* was there before, or is what was saved.                                 *)
LEMMA StoreReplaces ==
    ASSUME NEW done, NEW steps, Store(done, steps)
    PROVE  /\ \A dir : \A c \in Directory(dir)' :
                  c \in Directory(dir) \/ c = Checkpoint(effective, done, steps)
           /\ \A dir : dir # effective["--checkpoint-dir"].text =>
                  Directory(dir)' = Directory(dir)
<1> DEFINE others(dir, saved) ==
        {c \in Directory(dir) : c.epoch # done \/ c.step # steps} \cup {saved}
<1>1. PICK dir : dir = effective["--checkpoint-dir"].text
  OBVIOUS
<1>2. PICK saved : saved = Checkpoint(effective, done, steps)
  OBVIOUS
<1>3. PICK rest \in SUBSET others(dir, saved) :
          checkpoints' = Put(checkpoints, dir, Kept(others(dir, saved)) \cup rest)
  BY <1>1, <1>2 DEF Store
<1>4. PICK new : new = Kept(others(dir, saved)) \cup rest
  OBVIOUS
<1>5. new \subseteq others(dir, saved)
  BY <1>4 DEF Kept
<1>6. checkpoints' = Put(checkpoints, dir, new)
  BY <1>3, <1>4
<1>7. Directory(dir)' = new
  BY <1>6 DEF Directory, Put
<1>8. \A other : other # dir => Directory(other)' = Directory(other)
  BY <1>6 DEF Directory, Put
<1>9. \A c \in new : c \in Directory(dir) \/ c = saved
  BY <1>5
<1>10. \A other : \A c \in Directory(other)' : c \in Directory(other) \/ c = saved
  BY <1>7, <1>8, <1>9
<1> QED BY <1>1, <1>2, <1>8, <1>10

(* The two steps that save a checkpoint.                                   *)
LEMMA SavingSteps ==
    ASSUME TypeOK, Commit \/ FinishTraining
    PROVE  /\ phase \in InEpoch /\ UNCHANGED <<source, run, effective>>
           /\ \/ checkpoints' = checkpoints
              \/ \E done \in Nat, steps \in Nat : Store(done, steps)
<1>1. epoch \in Nat /\ step \in Nat /\ effective["--epochs"].number \in Nat
  BY DEF TypeOK, Sound, Numbers, IsFigure
<1>2. CASE Commit
  <2>2. step' = step + 1
    BY <1>2 DEF Commit
  <2>1. step' \in Nat
    BY <1>1, <2>2
  <2> QED BY <1>1, <1>2, <2>1 DEF Commit, InEpoch, line
<1>3. CASE FinishTraining
  BY <1>1, <1>3 DEF FinishTraining, Go, Abort, InEpoch, line
<1> QED BY <1>2, <1>3

LEMMA ChainsAreKept ==
    ASSUME TypeOK, Chains, Course, Next
    PROVE  Chains'
<1>1. CASE UNCHANGED <<checkpoints, source>>
  BY <1>1 DEF Chains, Directory
<1>2. CASE Start
  <2>1. checkpoints' = checkpoints /\ source' = Nothing
    BY <1>2 DEF Start, disk
  <2> QED BY <2>1 DEF Chains, Directory
<1>3. CASE LoadCheckpoint
  <2>1. PICK dir : checkpoints' = checkpoints /\ source' \in Directory(dir) \cup {source}
    BY <1>3 DEF LoadCheckpoint, Newest, disk
  <2>2. \A c \in Directory(dir) : Good(c)
    BY DEF Directory, Chains
  <2> QED BY <2>1, <2>2 DEF Chains, Directory
<1>4. CASE Commit \/ FinishTraining
  <2>1. phase \in InEpoch /\ source' = source
    BY <1>4, SavingSteps
  <2>2. ASSUME NEW done \in Nat, NEW steps \in Nat, Store(done, steps)
        PROVE  Chains'
    <3>1. Good(Checkpoint(effective, done, steps))
      BY <2>1, CheckpointIsGood
    <3>2. \A dir : \A c \in Directory(dir) : Good(c)
      BY DEF Directory, Chains
    <3>3. \A dir : \A c \in Directory(dir)' : Good(c)
      BY <2>2, <3>1, <3>2, StoreReplaces
    <3> QED BY <2>1, <3>3 DEF Chains
  <2> QED BY <1>1, <1>4, <2>1, <2>2, SavingSteps
<1>5. CASE Read
  BY <1>1, <1>5, ReadSteps DEF disk
<1>6. CASE OpenCorpus \/ EncodeChunk \/ TrainChunk \/ CloseCorpus \/ EndEpoch
  BY <1>1, <1>6 DEF OpenCorpus, EncodeChunk, TrainChunk, CloseCorpus, EndEpoch, disk
<1> QED BY <1>1, <1>2, <1>3, <1>4, <1>5, <1>6 DEF Next, Parse, Resume, Prepare, Train,
       Epoch, ParseMode, ParseFlag, ParseValue, ParseError, Dispatch, AdoptCheckpoint,
       PrepareTokenizer, CreateStream, CreateModel, CreateBatch, FillState,
       WriteManifest, SaveBundle, SaveConfig, Kill, EditCorpus, disk

LEMMA CourseHolds == Spec => [](TypeOK /\ Chains /\ Course)
<1>1. ASSUME TypeOK, Chains, Course, UNCHANGED vars
      PROVE  (TypeOK /\ Chains /\ Course)'
  <2>1. TypeOK' /\ Chains'
    BY <1>1 DEF TypeOK, Chains, Directory, vars
  <2>2. UNCHANGED <<line, source, edits, phase, effective>>
    BY <1>1 DEF vars, line
  <2>3. Fresh(phase)' = Fresh(phase)
    BY <2>2 DEF Fresh, line
  <2>5. Resuming' = Resuming /\ Adopted' = Adopted /\ Accepted' = Accepted
    BY <2>2, LineIsFixed
  <2>6. args' = args /\ source' = source /\ phase' = phase /\ effective' = effective
    BY <2>2 DEF line
  <2>4. Course'
    BY <1>1, <2>3, <2>5, <2>6 DEF Course
  <2> QED BY <2>1, <2>4
<1>2. TypeOK /\ Chains /\ Course /\ [Next]_vars => (TypeOK /\ Chains /\ Course)'
  BY <1>1, TypesAreKept, ChainsAreKept, CourseIsKept
<1> QED BY <1>2, InitTypes, PTL DEF Spec

(* reject_resume_override and mode_train: however often a run is killed    *)
(* and resumed, with whatever lines, the trajectory is the one its first   *)
(* run was born with and the corpus the one it trained on.                 *)
THEOREM ChainsKeepTheirTrajectory == Spec => []TrajectoryIsInherited
<1>1. TypeOK /\ Chains /\ Course => TrajectoryIsInherited
  <2> SUFFICES ASSUME TypeOK, Chains, Course, Training, Resuming
               PROVE  /\ \A o \in Trajectory : effective[o] = source.born[o]
                      /\ Content(effective["--input"].text) = source.corpus
    BY DEF TrajectoryIsInherited
  <2>1. phase \in Late
    BY DEF Training, Late, InEpoch
  <2>2. Accepted /\ effective = Adopted
    BY <2>1 DEF Course
  <2>3. Good(source)
    BY <2>2 DEF Accepted, Chains
  <2> QED BY <2>2, <2>3, Adoption DEF Accepted, Good
<1> QED BY <1>1, CourseHolds, PTL

(* reject_resume_override: a line that repeats the options of the run it   *)
(* resumes is not rejected, unless that run shortened its window or        *)
(* stride.                                                                 *)
THEOREM OwnOptionsPass == Spec => []OwnOptionsAreAccepted
<1>1. TypeOK /\ Chains /\ Course => OwnOptionsAreAccepted
  <2> SUFFICES ASSUME TypeOK, Chains, Course, phase = "adopt", ~Shortened(args),
                      \A o \in Trajectory : args[o] = source.asked[o],
                      NEW o \in Trajectory
               PROVE  Requested(o) = source.values[o]
    BY DEF OwnOptionsAreAccepted, Rejected
  <2>1. Good(source)
    BY DEF Course, Chains
  <2>2. Windows \subseteq Trajectory /\ Trajectory \subseteq Options
    BY OptionNames
  <2>3. source.values[o] = Windowed(source.asked)[o] /\ Sound(source.asked)
    BY <2>1 DEF Good
  <2>4. CASE o \notin {"--train-window", "--train-stride"}
    BY <2>2, <2>3, <2>4, WindowedIsSound DEF Requested
  <2> DEFINE e == source.asked
  <2>5. /\ args["--train-window"] = e["--train-window"]
        /\ args["--train-stride"] = e["--train-stride"]
        /\ args["--max-seq-len"] = e["--max-seq-len"]
    BY <2>2 DEF Windows
  <2>6. /\ IsFigure(e["--train-window"]) /\ IsFigure(e["--train-stride"])
        /\ IsFigure(e["--max-seq-len"])
    BY <2>3 DEF Sound, Numbers, Windows
  <2>7. ~(e["--train-window"].number > e["--max-seq-len"].number)
        /\ ~(e["--train-stride"].number > e["--train-window"].number)
    BY <2>5 DEF Shortened
  <2>8. Windowed(e)["--train-window"] = e["--train-window"]
    BY <2>3, <2>6, <2>7, WindowedIsSound DEF IsFigure, Clamp
  <2>9. CASE o = "--train-window"
    BY <2>3, <2>5, <2>8, <2>9 DEF Requested
  <2>10. CASE o = "--train-stride"
    <3>1. Windowed(e)[o] = IF e[o].number = 0 THEN e["--train-window"] ELSE e[o]
      BY <2>3, <2>6, <2>7, <2>8, <2>10, WindowedIsSound DEF IsFigure, Clamp
    <3>2. e[o].number = 0 <=> e[o] = Off
      BY <2>6, <2>10 DEF IsFigure, Off, Figure
    <3> QED BY <2>3, <2>5, <2>10, <3>1, <3>2 DEF Requested
  <2> QED BY <2>4, <2>9, <2>10
<1> QED BY <1>1, CourseHolds, PTL

---------------------------------------------------------------------------
(* What a run holds at each of its steps.                                  *)
HeldInEpoch(here) ==
    CASE here = "corpus" -> Everything \cup {"reader"}
      [] here = "chunk" -> Everything \cup {"reader", "chunk"}
      [] OTHER -> Everything
HeldInAnswer(here) ==
    CASE here \in {"context", "stops"} -> {"model", "encoder", "tokens"}
      [] here = "forward" -> {"context", "model", "encoder", "tokens"}
      [] here = "sequence" -> {"stops", "model", "encoder", "tokens"}
      [] here = "echo" -> Generated \cup {"prompt text"}
      [] OTHER -> Generated
HeldOK ==
    /\ phase \in {"parse", "load checkpoint", "tokenizer", "load model"} => held = {}
    /\ phase \in {"adopt"} \cup Reading => held = {"model", "encoder"}
    /\ phase = "stream" => held = IF Resuming THEN {"model", "encoder"} ELSE {"encoder"}
    /\ phase = "model" => held = {"encoder", "stream"}
    /\ phase = "batch" => held = {"model", "stream", "encoder"}
    /\ phase \in Late => held = HeldInEpoch(phase)
    /\ phase \in Answering => held = HeldInAnswer(phase)
    /\ EveryExitFrees

(* Everything a run ends with is freed, or nothing is left at all.         *)
LEMMA LeavesNothing ==
    ASSUME phase' = "exited", held' = {}
    PROVE  HeldOK'
  BY DEF HeldOK, EveryExitFrees, Reading, Late, InEpoch, Answering

LEMMA HeldInTraining ==
    ASSUME HeldOK, Train
    PROVE  HeldOK'
<1> SUFFICES \/ phase' = "exited" /\ held' = {}
             \/ phase' \in Late /\ held' = HeldInEpoch(phase')
  BY LeavesNothing DEF HeldOK, EveryExitFrees, Reading, Late, InEpoch, Answering
<1> USE DEF Go, Return, Abort, Everything
<1>1. phase \in Late => held = HeldInEpoch(phase)
  BY DEF HeldOK
<1>2. CASE OpenCorpus
  BY <1>1, <1>2 DEF OpenCorpus, Late, InEpoch, HeldInEpoch
<1>3. CASE EncodeChunk
  BY <1>1, <1>3 DEF EncodeChunk, Late, InEpoch, HeldInEpoch
<1>4. CASE Commit
  BY <1>1, <1>4 DEF Commit, Late, InEpoch
<1>5. CASE TrainChunk
  BY <1>1, <1>5 DEF TrainChunk, Late, InEpoch, HeldInEpoch
<1>6. CASE CloseCorpus
  BY <1>1, <1>6 DEF CloseCorpus, Late, InEpoch, HeldInEpoch
<1>7. CASE EndEpoch
  BY <1>1, <1>7 DEF EndEpoch, Late, InEpoch, HeldInEpoch
<1>8. CASE FinishTraining
  BY <1>1, <1>8 DEF FinishTraining, Late, InEpoch, HeldInEpoch
<1>9. CASE SaveBundle
  BY <1>1, <1>9 DEF SaveBundle, Late, InEpoch, HeldInEpoch
<1>10. CASE SaveConfig
  BY <1>1, <1>10 DEF SaveConfig, Late, InEpoch, HeldInEpoch
<1> QED BY <1>2, <1>3, <1>4, <1>5, <1>6, <1>7, <1>8, <1>9, <1>10 DEF Train, Epoch

LEMMA HeldInReading ==
    ASSUME TypeOK, HeldOK, Read
    PROVE  HeldOK'
<1>1. CASE LoadModel
  <2>1. phase = "load model" /\ held = {} /\ mode \in Reading
    BY <1>1 DEF LoadModel, Go, Abort, HeldOK, TypeOK
  <2>2. \/ phase' = mode /\ held' = {"model", "encoder"}
        \/ /\ phase' = "exited" /\ (held' = {} \/ held' = {"model"})
           /\ exit'.at = "load model"
    <3>1. \/ phase' = mode /\ held' = held \cup {"model", "encoder"}
          \/ phase' = "exited" /\ held' = held \ {}
                /\ exit' = [code |-> 1, at |-> "load model"]
          \/ phase' = "exited" /\ held' = held \cup {"model"}
                /\ exit' = [code |-> 1, at |-> "load model"]
      BY <1>1 DEF LoadModel, Go, Abort
    <3>2. held \cup {"model", "encoder"} = {"model", "encoder"}
      BY <2>1
    <3>3. held \ {} = {} /\ held \cup {"model"} = {"model"}
      BY <2>1
    <3>4. ASSUME exit' = [code |-> 1, at |-> "load model"]
          PROVE  exit'.at = "load model"
      BY <3>4
    <3> QED BY <3>1, <3>2, <3>3, <3>4
  <2> QED BY <2>1, <2>2 DEF HeldOK, EveryExitFrees, Reading, Late, InEpoch, Answering
<1>2. CASE ~LoadModel
  <2> SUFFICES \/ phase' = "exited" /\ held' = {}
               \/ phase' \in Answering /\ held' = HeldInAnswer(phase')
    BY LeavesNothing DEF HeldOK, EveryExitFrees, Reading, Late, InEpoch, Answering
  <2> USE DEF Go, Return, Abort, Generated
  <2>1. /\ phase \in Reading => held = {"model", "encoder"}
        /\ phase \in Answering => held = HeldInAnswer(phase)
    BY DEF HeldOK
  <2>2. CASE Evaluate
    BY <2>1, <2>2 DEF Evaluate, Reading
  <2>3. CASE EncodePrompt
    BY <2>1, <2>3 DEF EncodePrompt, Reading, Answering, HeldInAnswer
  <2>4. CASE PrepareContext
    BY <2>1, <2>4 DEF PrepareContext, Answering, HeldInAnswer
  <2>5. CASE Infer
    BY <2>1, <2>5 DEF Infer, Answering, HeldInAnswer
  <2>6. CASE EncodeStops
    BY <2>1, <2>6 DEF EncodeStops, Answering, HeldInAnswer
  <2>7. CASE AllocateSequence
    BY <2>1, <2>7 DEF AllocateSequence, Answering, HeldInAnswer
  <2>8. CASE DecodePrompt
    BY <2>1, <2>8 DEF DecodePrompt, Answering, HeldInAnswer
  <2>9. CASE EchoPrompt
    BY <2>1, <2>9 DEF EchoPrompt, Answering, HeldInAnswer
  <2>10. CASE Generate
    BY <2>1, <2>10 DEF Generate, Answering, HeldInAnswer
  <2> QED BY <1>2, <2>2, <2>3, <2>4, <2>5, <2>6, <2>7, <2>8, <2>9, <2>10 DEF Read
<1> QED BY <1>1, <1>2

LEMMA HeldIsKept ==
    ASSUME TypeOK, Course, HeldOK, Next
    PROVE  HeldOK'
<1> USE DEF Reading, Late, InEpoch, Answering
<1>0. UNCHANGED line => Resuming' = Resuming
  BY DEF line, Resuming
<1>1. CASE Start
  BY <1>1 DEF Start, HeldOK, EveryExitFrees
<1>2. CASE ParseMode \/ ParseFlag \/ ParseValue
  BY <1>2 DEF ParseMode, ParseFlag, ParseValue, HeldOK, EveryExitFrees
<1>3. CASE ParseError
  BY <1>3 DEF ParseError, Abort, HeldOK, EveryExitFrees
<1>4. CASE Dispatch
  BY <1>4 DEF Dispatch, Go, Abort, HeldOK, EveryExitFrees
<1>5. CASE LoadCheckpoint
  BY <1>5 DEF LoadCheckpoint, Go, Abort, HeldOK, EveryExitFrees
<1>6. CASE AdoptCheckpoint
  <2>1. phase = "adopt" /\ Resuming' = Resuming
    BY <1>0, <1>6 DEF AdoptCheckpoint, Go, Abort
  <2>2. Resuming
    BY <2>1 DEF Course
  <2> QED BY <1>6, <2>1, <2>2 DEF AdoptCheckpoint, Go, Abort, HeldOK, EveryExitFrees
<1>7. CASE PrepareTokenizer
  <2>1. phase = "tokenizer" /\ Resuming' = Resuming
    BY <1>0, <1>7 DEF PrepareTokenizer, Go, Abort
  <2>2. ~Resuming
    BY <2>1 DEF Course
  <2> QED BY <1>7, <2>1, <2>2 DEF PrepareTokenizer, Go, Abort, HeldOK, EveryExitFrees
<1>8. CASE CreateStream
  <2>1. phase = "stream" /\ held = IF Resuming THEN {"model", "encoder"} ELSE {"encoder"}
    BY <1>8 DEF CreateStream, Go, Abort, HeldOK
  <2>2. \/ phase' = "exited" /\ held' \in {{}, {"model"}} /\ exit'.at = "stream"
        \/ phase' = "batch" /\ held' = {"model", "stream", "encoder"}
        \/ phase' = "model" /\ held' = {"encoder", "stream"}
    BY <1>8, <2>1 DEF CreateStream, Go, Abort
  <2> QED BY <2>2 DEF HeldOK, EveryExitFrees
<1>9. CASE CreateModel
  BY <1>9 DEF CreateModel, Go, Abort, HeldOK, EveryExitFrees
<1>10. CASE CreateBatch
  BY <1>10 DEF CreateBatch, Go, Abort, HeldOK, EveryExitFrees, Everything, HeldInEpoch
<1>11. CASE FillState \/ WriteManifest
  BY <1>11 DEF FillState, WriteManifest, Go, Abort, HeldOK, EveryExitFrees, HeldInEpoch
<1>12. CASE Kill
  BY <1>12, LeavesNothing DEF Kill
<1>13. CASE EditCorpus
  BY <1>13 DEF EditCorpus, HeldOK, EveryExitFrees
<1> QED BY <1>1, <1>2, <1>3, <1>4, <1>5, <1>6, <1>7, <1>8, <1>9, <1>10, <1>11, <1>12,
           <1>13, HeldInTraining, HeldInReading DEF Next, Parse, Resume, Prepare

---------------------------------------------------------------------------
(* The steps of a run that may have saved a checkpoint.                    *)
Saving == InEpoch \cup {"bundle", "config", "config unsaved", "exited"}

(* checkpoint_prune and checkpoint_save: a directory with checkpoints has  *)
(* one that none outranks; the ones of the current run rank no higher than *)
(* the run has come.                                                       *)
RankOK ==
    /\ phase \in InEpoch \ {"epoch"} => epoch < effective["--epochs"].number
    /\ \A dir \in DOMAIN checkpoints :
           /\ Directory(dir) # {} => Newest(dir) # {}
           /\ \A c \in Directory(dir) :
                  /\ c.run \in 0..run
                  /\ c.run = run => /\ phase \in Saving /\ c.step <= step
                                   /\ c.epoch <= effective["--epochs"].number

(* checkpoint_prune: after a save the newest checkpoint is the one saved,  *)
(* or one that was there before and outranks it.  Pruning never removes a  *)
(* checkpoint that none outranks.                                          *)
LEMMA NewestIsKept ==
    ASSUME TypeOK, Chains, NEW dir, dir = effective["--checkpoint-dir"].text,
           Directory(dir) # {} => Newest(dir) # {},
           NEW done \in Nat, NEW steps \in Nat, Store(done, steps)
    PROVE  \E top \in Newest(dir)' :
               \/ top = Checkpoint(effective, done, steps)
               \/ /\ top \in Directory(dir)
                  /\ Outranks(top, Checkpoint(effective, done, steps))
<1> DEFINE others(saved) ==
               {c \in Directory(dir) : c.epoch # done \/ c.step # steps} \cup {saved}
<1>1. PICK saved : saved = Checkpoint(effective, done, steps)
  OBVIOUS
<1>2. saved.epoch = done /\ saved.step = steps
  BY <1>1 DEF Checkpoint
<1>3. PICK rest \in SUBSET others(saved) :
          checkpoints' = Put(checkpoints, dir, Kept(others(saved)) \cup rest)
  BY <1>1 DEF Store
<1>4. PICK all : all = others(saved)
  OBVIOUS
<1>5. \A c \in Directory(dir) : c.epoch \in Nat /\ c.step \in Nat
  BY DEF Directory, Chains, Good
<1>6. \A c \in all : c = saved \/ c \in Directory(dir)
  BY <1>4
<1>7. saved \in all /\ \A c \in Directory(dir) : (c.epoch # done \/ c.step # steps) => c \in all
  BY <1>4
<1>8. \A c \in all : c.epoch \in Nat /\ c.step \in Nat
  BY <1>2, <1>5, <1>6
<1>9. PICK top \in all : /\ \A c \in all : ~Outranks(c, top)
                         /\ top = saved \/ (top \in Directory(dir) /\ Outranks(top, saved))
  <2>1. CASE Directory(dir) = {}
    BY <1>2, <1>6, <1>7, <2>1 DEF Outranks
  <2>2. CASE Directory(dir) # {}
    <3>1. PICK old \in Directory(dir) : \A c \in Directory(dir) : ~Outranks(c, old)
      BY <2>2 DEF Newest
    <3>2. CASE Outranks(old, saved)
      <4>1. old \in all
        BY <1>2, <1>5, <1>7, <3>2 DEF Outranks
      <4>2. ~Outranks(saved, old)
        BY <1>2, <1>5, <3>2 DEF Outranks
      <4> QED BY <1>6, <3>1, <3>2, <4>1, <4>2
    <3>3. CASE ~Outranks(old, saved)
      <4>1. \A c \in Directory(dir) : ~Outranks(c, saved)
        BY <1>2, <1>5, <3>1, <3>3 DEF Outranks
      <4>2. ~Outranks(saved, saved)
        BY <1>2 DEF Outranks
      <4> QED BY <1>6, <1>7, <4>1, <4>2
    <3> QED BY <3>2, <3>3
  <2> QED BY <2>1, <2>2
<1>10. top \in Kept(all)
  <2>1. {c \in all : Outranks(c, top)} = {}
    BY <1>9
  <2>2. Cardinality({c \in all : Outranks(c, top)}) = 0
    BY <2>1, FS_EmptySet
  <2>3. Keep \in Nat
    BY DEF Keep, TypeOK, Sound, Numbers, IsFigure
  <2>4. Keep = 0 \/ 0 < Keep
    BY <2>3
  <2> QED BY <2>2, <2>4 DEF Kept
<1>11. PICK new : new = Kept(all) \cup rest
  OBVIOUS
<1>12. top \in new /\ new \subseteq all /\ checkpoints' = Put(checkpoints, dir, new)
  BY <1>3, <1>4, <1>10, <1>11 DEF Kept
<1>13. Directory(dir)' = new
  BY <1>12 DEF Directory, Put
<1>14. top \in Newest(dir)'
  BY <1>9, <1>12, <1>13 DEF Newest
<1> QED BY <1>1, <1>9, <1>14

(* Saving a checkpoint that ranks where the run is keeps the ranks.        *)
LEMMA StoreKeepsRanks ==
    ASSUME TypeOK, Chains, RankOK, UNCHANGED <<run, effective>>, phase' \in Saving,
           phase' \in InEpoch \ {"epoch"} => epoch' < effective'["--epochs"].number,
           step' \in Nat, step <= step',
           NEW done \in Nat, NEW steps \in Nat, Store(done, steps),
           done <= effective["--epochs"].number, steps <= step'
    PROVE  RankOK'
<1>1. run \in Nat /\ step \in Nat /\ effective["--epochs"].number \in Nat
  BY RunIsNatural DEF TypeOK, Sound, Numbers, IsFigure
<1>2. PICK saved : saved = Checkpoint(effective, done, steps)
  OBVIOUS
<1>3. saved.run = run /\ saved.epoch = done /\ saved.step = steps
  BY <1>2 DEF Checkpoint
<1>4. \A dir : \A c \in Directory(dir) :
          /\ c.run \in 0..run /\ c.step \in Nat
          /\ c.run = run => c.step <= step /\ c.epoch <= effective["--epochs"].number
  BY DEF RankOK, Directory, Chains, Good
<1>5. \A dir : \A c \in Directory(dir)' :
          /\ c.run \in 0..run
          /\ c.run = run => c.step <= step' /\ c.epoch <= effective["--epochs"].number
  <2> SUFFICES ASSUME NEW dir, NEW c \in Directory(dir)'
               PROVE  /\ c.run \in 0..run
                      /\ c.run = run => /\ c.step <= step'
                                       /\ c.epoch <= effective["--epochs"].number
    OBVIOUS
  <2>1. CASE c = saved
    BY <1>1, <1>3, <2>1
  <2>2. CASE c \in Directory(dir)
    BY <1>1, <1>4, <2>2
  <2> QED BY <1>2, <2>1, <2>2, StoreReplaces
<1>6. \A dir : Directory(dir) # {} => Newest(dir) # {}
  BY DEF RankOK, Directory
<1>7. \A dir : Directory(dir)' # {} => Newest(dir)' # {}
  <2> SUFFICES ASSUME NEW dir, Directory(dir)' # {} PROVE Newest(dir)' # {}
    OBVIOUS
  <2>1. CASE dir = effective["--checkpoint-dir"].text
    BY <1>6, <2>1, NewestIsKept
  <2>2. CASE dir # effective["--checkpoint-dir"].text
    <3>1. Directory(dir)' = Directory(dir)
      BY <2>2, StoreReplaces
    <3> QED BY <1>6, <3>1 DEF Newest
  <2> QED BY <2>1, <2>2
<1> QED BY <1>5, <1>7 DEF RankOK

LEMMA RanksAreKept ==
    ASSUME TypeOK, Chains, RankOK, Next
    PROVE  RankOK'
<1>0. run \in Nat /\ step \in Nat /\ epoch \in Nat /\ effective["--epochs"].number \in Nat
  BY RunIsNatural DEF TypeOK, Sound, Numbers, IsFigure
<1>1. CASE Start
  <2>1. checkpoints' = checkpoints /\ run' = run + 1 /\ phase' \in {"parse", "exited"}
    BY <1>1 DEF Start, disk
  <2>2. \A dir \in DOMAIN checkpoints : \A c \in Directory(dir) :
            c.run \in 0..run' /\ c.run # run'
    BY <1>0, <2>1 DEF RankOK
  <2>3. \A dir : Directory(dir)' = Directory(dir) /\ Newest(dir)' = Newest(dir)
    BY <2>1 DEF Directory, Newest
  <2> QED BY <2>1, <2>2, <2>3 DEF RankOK, InEpoch
<1>2. ASSUME UNCHANGED <<checkpoints, run>>,
             phase \in Saving => /\ phase' \in Saving /\ effective' = effective
                                 /\ step' \in Nat /\ step <= step',
             phase' \in InEpoch \ {"epoch"} => epoch' < effective'["--epochs"].number
      PROVE  RankOK'
  <2>1. \A dir : Directory(dir)' = Directory(dir) /\ Newest(dir)' = Newest(dir)
    BY <1>2 DEF Directory, Newest
  <2>2. \A dir \in DOMAIN checkpoints : \A c \in Directory(dir) :
            /\ c.run \in 0..run /\ c.step \in Nat
            /\ c.run = run => /\ phase \in Saving /\ c.step <= step
                             /\ c.epoch <= effective["--epochs"].number
    BY DEF RankOK, Chains, Good
  <2>3. \A dir \in DOMAIN checkpoints : \A c \in Directory(dir) :
            c.run = run => /\ phase' \in Saving /\ c.step <= step'
                           /\ c.epoch <= effective'["--epochs"].number
    BY <1>0, <1>2, <2>2
  <2>4. \A dir \in DOMAIN checkpoints : Directory(dir) # {} => Newest(dir) # {}
    BY DEF RankOK
  <2> QED BY <1>2, <2>1, <2>2, <2>3, <2>4 DEF RankOK
<1>3. CASE Parse \/ Resume \/ Prepare
  <2>1. /\ UNCHANGED <<checkpoints, run>> /\ phase \notin Saving
        /\ phase' \notin InEpoch \ {"epoch"}
    <3> USE DEF Saving, InEpoch, disk, line, Go, Abort
    <3>1. CASE Parse
      BY <3>1 DEF Parse, ParseMode, ParseFlag, ParseValue, ParseError, Dispatch
    <3>2. CASE Resume
      BY <3>2 DEF Resume, LoadCheckpoint, AdoptCheckpoint
    <3>3. CASE Prepare
      BY <3>3 DEF Prepare, PrepareTokenizer, CreateStream, CreateModel, CreateBatch,
         FillState, WriteManifest
    <3> QED BY <1>3, <3>1, <3>2, <3>3
  <2> QED BY <1>2, <2>1
<1>4. CASE Read
  <2>1. UNCHANGED <<checkpoints, run>> /\ phase \notin Saving /\ phase' \notin InEpoch
    BY <1>4, ReadSteps DEF disk, line, Saving, InEpoch, Reading, Answering
  <2> QED BY <1>2, <2>1
<1>5. CASE OpenCorpus \/ EncodeChunk \/ TrainChunk \/ CloseCorpus \/ EndEpoch
  <2>1. /\ UNCHANGED <<checkpoints, run, effective, step>> /\ phase' \in Saving
    BY <1>5 DEF OpenCorpus, EncodeChunk, TrainChunk, CloseCorpus, EndEpoch, Go, Return,
       Abort, Saving, InEpoch, disk, line, progress
  <2>2. phase' \in InEpoch \ {"epoch"} => epoch' < effective["--epochs"].number
    BY <1>5 DEF OpenCorpus, EncodeChunk, TrainChunk, CloseCorpus, EndEpoch, Go, Return,
       Abort, InEpoch, RankOK, progress
  <2> QED BY <1>0, <1>2, <2>1, <2>2
<1>6. CASE Commit
  <2>1. /\ phase \in InEpoch \ {"epoch"} /\ step' = step + 1
        /\ UNCHANGED <<run, effective, phase, epoch>>
        /\ Store(epoch, step') \/ checkpoints' = checkpoints
    BY <1>6 DEF Commit, InEpoch, line
  <2>2. epoch < effective["--epochs"].number
    BY <2>1 DEF RankOK
  <2>6. step' = step + 1 /\ phase' \in Saving
    BY <2>1 DEF Saving
  <2>3. phase' \in Saving /\ step' \in Nat /\ step <= step'
        /\ epoch <= effective["--epochs"].number
    BY <1>0, <2>2, <2>6
  <2>4. CASE checkpoints' = checkpoints
    BY <1>2, <2>1, <2>2, <2>3, <2>4
  <2>5. CASE Store(epoch, step')
    <3>1. PICK steps \in Nat : steps = step'
      BY <2>3
    <3> QED BY <1>0, <2>1, <2>2, <2>3, <2>5, <3>1, StoreKeepsRanks
  <2> QED BY <2>1, <2>4, <2>5
<1>7. CASE FinishTraining
  <2>1. /\ UNCHANGED <<run, effective, step>> /\ phase' \in {"bundle", "exited"}
        /\ \/ Store(effective["--epochs"].number, step)
           \/ checkpoints' = checkpoints
    BY <1>7 DEF FinishTraining, Go, Abort, line, progress
  <2>2. phase' \in Saving /\ phase' \notin InEpoch
    BY <2>1 DEF Saving, InEpoch
  <2>3. CASE checkpoints' = checkpoints
    BY <1>0, <1>2, <2>1, <2>2, <2>3
  <2>4. CASE Store(effective["--epochs"].number, step)
    <3>1. PICK done \in Nat : done = effective["--epochs"].number
      BY <1>0
    <3> QED BY <1>0, <2>1, <2>2, <2>4, <3>1, StoreKeepsRanks
  <2> QED BY <2>1, <2>3, <2>4
<1>8. CASE SaveBundle \/ SaveConfig \/ Kill \/ EditCorpus
  <2>1. /\ UNCHANGED <<checkpoints, run, effective, step>> /\ phase' \in Saving \ InEpoch
    BY <1>8 DEF SaveBundle, SaveConfig, Kill, EditCorpus, Go, Abort, disk, line,
       progress, Saving, InEpoch
  <2> QED BY <1>0, <1>2, <2>1
<1> QED BY <1>1, <1>3, <1>4, <1>5, <1>6, <1>7, <1>8 DEF Next, Train, Epoch

(* FinishTraining: what the save of the terminal checkpoint leaves.        *)
LEMMA TerminalIsStored ==
    ASSUME TypeOK, Chains, RankOK, UNCHANGED <<effective, run, step>>,
           Store(effective["--epochs"].number, step)
    PROVE  TerminalIsKept'
<1>1. step \in Nat
  BY DEF TypeOK
<1>2. PICK done \in Nat : done = effective["--epochs"].number
  BY DEF TypeOK, Sound, Numbers, IsFigure
<1>3. PICK dir : dir = effective["--checkpoint-dir"].text
  OBVIOUS
<1>4. PICK saved : saved = Checkpoint(effective, done, step)
  OBVIOUS
<1>5. saved.run = run /\ saved.epoch = done /\ saved.step = step
  BY <1>4 DEF Checkpoint
<1>6. Directory(dir) # {} => Newest(dir) # {}
  BY DEF RankOK, Directory
<1>7. PICK steps \in Nat : steps = step
  BY <1>1
<1>8. Store(done, steps) /\ saved = Checkpoint(effective, done, steps)
  BY <1>2, <1>4, <1>7
<1>9. PICK top \in Newest(dir)' :
          top = saved \/ (top \in Directory(dir) /\ Outranks(top, saved))
  BY <1>3, <1>6, <1>8, NewestIsKept
<1>10. top \in Directory(dir)'
  BY DEF Newest
<1>11. CASE top = saved
  BY <1>2, <1>3, <1>5, <1>10, <1>11 DEF TerminalIsKept
<1>12. CASE Keep = 0
  <2>1. PICK all : all = {c \in Directory(dir) : c.epoch # done \/ c.step # steps}
                             \cup {saved}
    OBVIOUS
  <2>2. PICK left \in SUBSET (all \ Kept(all)) :
            checkpoints' = Put(checkpoints, dir, Kept(all) \cup left)
    BY <1>3, <1>8, <2>1 DEF Store
  <2>3. saved \in Kept(all)
    BY <1>12, <2>1 DEF Kept
  <2>4. saved \in Directory(dir)'
    BY <2>2, <2>3 DEF Directory, Put
  <2> QED BY <1>2, <1>3, <1>5, <2>4 DEF TerminalIsKept
<1>13. CASE Keep # 0 /\ top \in Directory(dir) /\ Outranks(top, saved)
  <2>0. Keep > 0 /\ Keep' > 0
    <3>1. effective["--keep-checkpoints"].number \in Nat
      BY DEF TypeOK, Sound, Numbers, IsFigure
    <3> QED BY <1>13, <3>1 DEF Keep
  <2>1. top.step \in Nat /\ top.epoch \in Nat
    BY <1>13 DEF Chains, Good, Directory
  <2>2. top.run = run => top.step <= step /\ top.epoch <= done
    BY <1>2, <1>13 DEF RankOK, Directory
  <2>3. top.run # run
    BY <1>1, <1>5, <1>13, <2>1, <2>2 DEF Outranks
  <2>4. PICK terminal : terminal = [step |-> step, epoch |-> done]
    OBVIOUS
  <2>5. terminal.step = saved.step /\ terminal.epoch = saved.epoch
    BY <1>5, <2>4
  <2>6. Outranks(top, terminal)
    BY <1>13, <2>5 DEF Outranks
  <2> QED BY <1>2, <1>3, <1>10, <2>3, <2>4, <2>0, <2>6 DEF TerminalIsKept
<1> QED BY <1>9, <1>11, <1>12, <1>13

---------------------------------------------------------------------------
(* The steps before a run has written a file.                              *)
Unwritten == {"parse", "load checkpoint", "adopt", "tokenizer", "load model"}
(* The file was written by the current run.                                *)
Owned(path) == path \in DOMAIN files /\ files[path].run = run
(* All epochs are done, and the terminal checkpoint is stored.             *)
Completed ==
    /\ epoch >= effective["--epochs"].number
    /\ Interval > 0 => TerminalIsKept

(* Which files of the current run there are at each of its steps: before   *)
(* the bundle only the tokenizer's, before the configuration that and      *)
(* the bundle's.                                                           *)
FilesOK ==
    /\ \A path \in DOMAIN files : files[path].run \in 0..run
    /\ phase # "exited" => run > 0
    /\ phase \in Unwritten => \A path : ~Owned(path)
    /\ phase \in {"stream", "model", "batch"} \cup (Late \ {"config"}) =>
           \A path : Owned(path) => path = Sidecar(effective)
    /\ phase = "config" =>
           /\ Owned(effective["--model"].text)
           /\ \A path : Owned(path) =>
                  path \in {Sidecar(effective), effective["--model"].text}
    /\ phase \in {"bundle", "config", "config unsaved"} => Completed

LEMMA PutOwns ==
    ASSUME NEW key, NEW value, files' = Put(files, key, value), value.run = run,
           run' = run
    PROVE  \A path : Owned(path)' <=> (path = key \/ Owned(path))
  BY DEF Owned, Put

LEMMA OwnedIsFound ==
    ASSUME TypeOK, run > 0, NEW path
    PROVE  Found(path).run = run <=> Owned(path)
<1>1. run # 0
  BY RunIsNatural
<1>2. CASE path \in DOMAIN files
  BY <1>2 DEF Found, Owned
<1>3. CASE path \notin DOMAIN files
  BY <1>1, <1>3 DEF Found, Owned, Absent
<1> QED BY <1>2, <1>3

LEMMA SidecarStays ==
    ASSUME NEW e, Sound(e)
    PROVE  Sidecar(Windowed(e)) = Sidecar(e) /\ Sidecar(Resolved(e)) = Sidecar(e)
<1>0. "--tokenizer" \in Options \ {"--train-window", "--train-stride"}
      /\ "--model" \in Options \ {"--train-window", "--train-stride", "--tokenizer"}
  BY OptionNames DEF Replaceable, Options, Texts
<1>1. Sidecar(Windowed(e)) = Sidecar(e)
  BY <1>0, WindowedIsSound DEF Sidecar
<1>2. /\ Resolved(e)["--model"] = e["--model"]
      /\ Resolved(e)["--tokenizer"].text = Sidecar(e)
  BY <1>0, ResolvedIsSound
<1>3. Sidecar(Resolved(e)) = Sidecar(e)
  BY <1>2 DEF Sidecar
<1> QED BY <1>1, <1>3

LEMMA FilesAreKept ==
    ASSUME TypeOK, Chains, RankOK, FilesOK, Next
    PROVE  FilesOK'
<1>0. run \in Nat /\ \A path \in DOMAIN files : files[path].run \in 0..run
  BY RunIsNatural DEF FilesOK
<1>1. CASE Start
  <2>1. run' = run + 1 /\ files' = files /\ phase' \in {"parse", "exited"}
    BY <1>1 DEF Start, disk
  <2>2. \A path \in DOMAIN files' : files'[path].run \in 0..run' /\ files'[path].run # run'
    BY <1>0, <2>1
  <2>3. run' > 0 /\ \A path : ~Owned(path)'
    BY <1>0, <2>1, <2>2 DEF Owned
  <2>4. phase' \notin {"stream", "model", "batch"} \cup Late
    BY <2>1 DEF Late, InEpoch
  <2>5. phase' \notin {"bundle", "config", "config unsaved"} /\ phase' # "config"
    BY <2>1
  <2> QED BY <2>2, <2>3, <2>4, <2>5 DEF FilesOK
<1>2. ASSUME UNCHANGED <<files, run>>, phase # "exited",
             phase' \in Unwritten => phase \in Unwritten,
             phase' \notin {"stream", "model", "batch"} \cup Late
      PROVE  FilesOK'
  <2>1. \A path : Owned(path)' <=> Owned(path)
    BY <1>2 DEF Owned
  <2>2. phase' \notin {"bundle", "config", "config unsaved"} /\ phase' # "config"
    BY <1>2 DEF Late, InEpoch
  <2> QED BY <1>2, <2>1, <2>2 DEF FilesOK
<1>3. CASE Parse \/ LoadCheckpoint
  <2>1. /\ UNCHANGED <<files, run>> /\ phase \in Unwritten
        /\ phase' \in Unwritten \cup {"exited"}
    BY <1>3 DEF Parse, LoadCheckpoint, ParseMode, ParseFlag, ParseValue, ParseError,
       Dispatch, Go, Abort, disk, line, Unwritten
  <2> QED BY <1>2, <2>1 DEF Unwritten, Late, InEpoch
<1>4. CASE Read
  <2>1. /\ UNCHANGED <<files, run>> /\ phase # "exited"
        /\ phase' \in Reading \cup Answering \cup {"exited"}
    BY <1>4, ReadSteps DEF disk, line, Reading, Answering
  <2> QED BY <1>2, <2>1 DEF Unwritten, Late, InEpoch, Reading, Answering
<1>5. CASE Kill
  BY <1>2, <1>5 DEF Kill, disk, line, Unwritten, Late, InEpoch
<1>6. CASE EditCorpus
  BY <1>6 DEF EditCorpus, line, FilesOK, Owned, Unwritten, Late, InEpoch
<1>7. CASE AdoptCheckpoint \/ PrepareTokenizer
  <2> SUFFICES ASSUME phase' # "exited" PROVE FilesOK'
    BY <1>2, <1>7 DEF AdoptCheckpoint, PrepareTokenizer, Go, Abort, line,
       Unwritten, Late, InEpoch
  <2>1. /\ phase \in Unwritten /\ phase' = "stream" /\ run' = run
        /\ \/ files' = files
           \/ files' = Put(files, Sidecar(effective'), File("sidecar", effective'))
    BY <1>7 DEF AdoptCheckpoint, PrepareTokenizer, Go, Abort, line, Unwritten
  <2>2. \A path : ~Owned(path) /\ run > 0
    BY <2>1 DEF FilesOK, Unwritten
  <2>3. File("sidecar", effective').run = run
    BY DEF File
  <2>4. \A path : Owned(path)' => path = Sidecar(effective')
    <3>1. CASE files' = files
      BY <2>1, <2>2, <3>1 DEF Owned
    <3>2. CASE files' = Put(files, Sidecar(effective'), File("sidecar", effective'))
      BY <2>1, <2>2, <2>3, <3>2, PutOwns
    <3> QED BY <2>1, <3>1, <3>2
  <2>5. \A path \in DOMAIN files' : files'[path].run \in 0..run'
    BY <1>0, <2>1, <2>3 DEF Put
  <2> QED BY <2>1, <2>2, <2>4, <2>5 DEF FilesOK, Unwritten, Late, InEpoch
<1> DEFINE Filling == {"stream", "model", "batch", "state", "manifest"} \cup InEpoch
<1>8. ASSUME UNCHANGED <<files, run>>, phase \in Filling,
             Sidecar(effective') = Sidecar(effective),
             phase' \in Filling \cup {"bundle"}, phase' = "bundle" => Completed'
      PROVE  FilesOK'
  <2>1. \A path : Owned(path)' <=> Owned(path)
    BY <1>8 DEF Owned
  <2>2. phase \in {"stream", "model", "batch"} \cup (Late \ {"config"}) /\ phase # "exited"
    BY <1>8 DEF Late, InEpoch
  <2>3. phase' \notin Unwritten /\ phase' # "config"
    BY <1>8 DEF Unwritten, InEpoch
  <2>4. phase' \in {"bundle", "config", "config unsaved"} => Completed'
    BY <1>8 DEF InEpoch
  <2> QED BY <1>8, <2>1, <2>2, <2>3, <2>4 DEF FilesOK
<1>9. CASE CreateStream \/ CreateModel \/ CreateBatch \/ FillState \/ WriteManifest
  <2> USE DEF CreateStream, CreateModel, CreateBatch, FillState, WriteManifest, Go,
          Abort, line, disk
  <2> SUFFICES ASSUME phase' # "exited" PROVE FilesOK'
    BY <1>2, <1>9 DEF Unwritten, Late, InEpoch
  <2>1. UNCHANGED <<files, run>> /\ phase \in Filling /\ phase' \in Filling
    BY <1>9 DEF InEpoch
  <2>2. effective' \in {effective, Windowed(effective), Resolved(effective)}
    BY <1>9 DEF Resolved
  <2>3. Sidecar(effective') = Sidecar(effective)
    BY <2>2, SidecarStays DEF TypeOK
  <2>4. phase' # "bundle"
    BY <2>1 DEF InEpoch
  <2> QED BY <1>8, <2>1, <2>3, <2>4
<1>13. CASE Epoch
  <2>1. /\ UNCHANGED <<files, run, effective>> /\ phase \in InEpoch
        /\ phase' \in InEpoch \cup {"exited"}
    BY <1>13, EpochSteps DEF line
  <2>2. CASE phase' = "exited"
    BY <1>2, <2>1, <2>2 DEF Unwritten, Late, InEpoch
  <2>3. CASE phase' # "exited"
    <3>1. phase' # "bundle" /\ Sidecar(effective') = Sidecar(effective)
      BY <2>1, <2>3 DEF InEpoch
    <3> QED BY <1>8, <2>1, <2>3, <3>1
  <2> QED BY <2>2, <2>3
<1>10. CASE FinishTraining
  <2> SUFFICES ASSUME phase' # "exited" PROVE FilesOK'
    BY <1>2, <1>10 DEF FinishTraining, Go, Abort, line, Unwritten, Late, InEpoch
  <2>1. /\ UNCHANGED <<files, run, effective, epoch, step>>
        /\ phase = "epoch" /\ phase' = "bundle"
        /\ epoch >= effective["--epochs"].number
        /\ Interval > 0 => Store(effective["--epochs"].number, step)
    BY <1>10 DEF FinishTraining, Go, Abort, line, progress
  <2>2. Interval > 0 => TerminalIsKept'
    BY <2>1, TerminalIsStored
  <2>3. Completed'
    BY <2>1, <2>2 DEF Completed, Interval
  <2>4. phase \in Filling
    BY <2>1 DEF InEpoch
  <2> QED BY <1>8, <2>1, <2>3, <2>4
<1>11. CASE SaveBundle
  <2>1. /\ UNCHANGED <<run, effective, epoch, step, checkpoints>> /\ phase = "bundle"
        /\ \/ phase' = "config" /\ files' = Put(files, effective["--model"].text,
                                                File("bundle", effective))
           \/ phase' = "config unsaved" /\ files' = files
    BY <1>11 DEF SaveBundle, Go, line, progress
  <2>2. Completed'
    BY <2>1 DEF FilesOK, Completed, Interval, TerminalIsKept, Keep, Directory
  <2>3. (\A path : Owned(path) => path = Sidecar(effective)) /\ run > 0
    BY <2>1 DEF FilesOK, Late, InEpoch
  <2>4. File("bundle", effective).run = run
    BY DEF File
  <2>5. CASE phase' = "config unsaved"
    <3>1. \A path : Owned(path)' <=> Owned(path)
      BY <2>1, <2>5 DEF Owned
    <3> QED BY <2>1, <2>2, <2>3, <2>5, <3>1 DEF FilesOK, Unwritten, Late, InEpoch
  <2>6. CASE phase' = "config"
    <3>1. \A path : Owned(path)' <=> (path = effective["--model"].text \/ Owned(path))
      BY <2>1, <2>4, <2>6, PutOwns
    <3>2. \A path \in DOMAIN files' : files'[path].run \in 0..run'
      BY <1>0, <2>1, <2>4, <2>6 DEF Put, FilesOK
    <3> QED BY <2>1, <2>2, <2>3, <2>6, <3>1, <3>2 DEF FilesOK, Unwritten, Late, InEpoch
  <2> QED BY <2>1, <2>5, <2>6
<1>12. CASE SaveConfig
  <2>1. /\ run' = run /\ phase' = "exited"
        /\ files' = files \/ files' = Put(files, "config.json", File("config", effective))
    BY <1>12 DEF SaveConfig, Abort, line
  <2>3. File("config", effective).run = run
    BY DEF File
  <2>2. \A path \in DOMAIN files' : files'[path].run \in 0..run'
    BY <1>0, <2>1, <2>3 DEF Put
  <2> QED BY <2>1, <2>2 DEF FilesOK, Unwritten, Late, InEpoch
<1> QED BY <1>1, <1>3, <1>4, <1>5, <1>6, <1>7, <1>9, <1>10, <1>11, <1>12, <1>13
        DEF Next, Resume, Prepare, Train

LEMMA ResultsAreOwned ==
    ASSUME TypeOK, run > 0
    PROVE  ResultsAreInPlace <=> /\ Owned(effective["--model"].text)
                                 /\ Owned("config.json") /\ Completed
  BY OwnedIsFound DEF ResultsAreInPlace, Completed

(* SaveConfig: where the exit code is decided.                             *)
LEMMA HonestyIsKept ==
    ASSUME TypeOK, FilesOK, ExitCodeIsHonest, Next
    PROVE  ExitCodeIsHonest'
<1>1. CASE phase' # "exited" \/ exit'.at \notin {"config", "config unsaved"}
  BY <1>1 DEF ExitCodeIsHonest
<1>0. \A code : (code = 1 \/ code = 137) => code # 0
  OBVIOUS
<1>2. ASSUME phase \in {"config", "config unsaved"}, PathsDiffer
      PROVE  ~ResultsAreInPlace
  <2>1. run > 0
    BY <1>2 DEF FilesOK
  <2>2. CASE phase = "config"
    <3>1. ~Owned("config.json")
      BY <1>2, <2>2 DEF FilesOK, PathsDiffer
    <3> QED BY <2>1, <3>1, ResultsAreOwned
  <2>3. CASE phase = "config unsaved"
    <3>1. ~Owned(effective["--model"].text)
      BY <1>2, <2>3 DEF FilesOK, Late, InEpoch, PathsDiffer
    <3> QED BY <2>1, <3>1, ResultsAreOwned
  <2> QED BY <1>2, <2>2, <2>3
<1>3. ASSUME UNCHANGED <<files, checkpoints, effective, run, progress>>
      PROVE  ResultsAreInPlace' = ResultsAreInPlace /\ PathsDiffer' = PathsDiffer
  BY <1>3 DEF ResultsAreInPlace, PathsDiffer, Found, TerminalIsKept, Keep, Directory, Interval,
     Sidecar, progress
<1>4. ASSUME phase \in {"config", "config unsaved"}, exit'.code # 0,
             UNCHANGED <<files, checkpoints, effective, run, progress>>
      PROVE  ExitCodeIsHonest'
  BY <1>2, <1>3, <1>4 DEF ExitCodeIsHonest
<1>5. CASE Start
  <2>1. exit' = [code |-> 0, at |-> "start"]
    BY <1>5 DEF Start
  <2>2. exit'.at = "start"
    BY <2>1
  <2> QED BY <1>1, <2>2
<1>6. CASE Kill
  <2> SUFFICES ASSUME exit'.at \in {"config", "config unsaved"} PROVE ExitCodeIsHonest'
    BY <1>1
  <2>1. exit' = [code |-> 137, at |-> phase]
        /\ UNCHANGED <<files, checkpoints, effective, run, progress>>
    BY <1>6 DEF Kill, disk, line
  <2>2. exit'.code = 137 /\ exit'.at = phase
    BY <2>1
  <2>3. exit'.code # 0 /\ phase \in {"config", "config unsaved"}
    BY <1>0, <2>2
  <2> QED BY <1>4, <2>1, <2>3
<1>7. CASE EditCorpus
  <2>1. UNCHANGED <<files, checkpoints, effective, run, progress, mode, exit, phase>>
    BY <1>7 DEF EditCorpus, line
  <2> QED BY <1>3, <2>1 DEF ExitCodeIsHonest
<1>8. CASE SaveConfig
  <2>1. PICK configured \in BOOLEAN :
           /\ \/ phase = "config" /\ exit'.code = ExitCode(TRUE, configured)
              \/ phase = "config unsaved" /\ exit'.code = ExitCode(FALSE, configured)
           /\ files' = IF configured THEN Put(files, "config.json", File("config", effective))
                       ELSE files
           /\ UNCHANGED <<checkpoints, effective, run, progress>>
    BY <1>8, AbortTellsWhere DEF SaveConfig, line
  <2>2. run > 0 /\ Completed
    BY <2>1 DEF FilesOK
  <2>3. CASE ~configured
    <3>1. exit'.code = 1
      BY <2>1, <2>3 DEF ExitCode
    <3>2. exit'.code # 0 /\ phase \in {"config", "config unsaved"} /\ files' = files
      BY <1>0, <2>1, <2>3, <3>1
    <3> QED BY <1>4, <2>1, <3>2
  <2>4. CASE configured /\ phase = "config"
    <3>2. exit'.code = 0
      BY <2>1, <2>4 DEF ExitCode
    <3>3. Owned(effective["--model"].text)
      BY <2>4 DEF FilesOK
    <3>4. File("config", effective).run = run
      BY DEF File
    <3>5. Found(effective["--model"].text)'.run = run' /\ Found("config.json")'.run = run'
      BY <2>1, <2>4, <3>3, <3>4 DEF Found, Put, Owned
    <3>6. ResultsAreInPlace'
      BY <2>1, <2>2, <3>5 DEF ResultsAreInPlace, Completed, Interval,
         TerminalIsKept, Keep, Directory, progress
    <3> QED BY <3>2, <3>6 DEF ExitCodeIsHonest
  <2>5. CASE configured /\ phase = "config unsaved"
    <3>2. exit'.code = 1
      BY <2>1, <2>5 DEF ExitCode
    <3>3. PathsDiffer' => ~Owned(effective["--model"].text)
                          /\ effective["--model"].text # "config.json"
      BY <2>1, <2>5 DEF FilesOK, Late, InEpoch, PathsDiffer, Sidecar
    <3>4. PathsDiffer' => Found(effective["--model"].text)'.run # run'
      <4> SUFFICES ASSUME PathsDiffer'
                   PROVE  Found(effective["--model"].text)'.run # run'
        OBVIOUS
      <4>1. Found(effective["--model"].text).run # run
        BY <2>2, <3>3, OwnedIsFound
      <4>2. Found(effective["--model"].text)' = Found(effective["--model"].text)
        BY <2>1, <2>5, <3>3 DEF Found, Put
      <4> QED BY <2>1, <4>1, <4>2
    <3>5. exit'.code # 0
      BY <1>0, <3>2
    <3>6. PathsDiffer' => ~ResultsAreInPlace'
      BY <3>4 DEF ResultsAreInPlace
    <3> QED BY <3>5, <3>6 DEF ExitCodeIsHonest
  <2> QED BY <2>1, <2>3, <2>4, <2>5
<1>9. CASE Parse \/ Resume \/ Prepare \/ Epoch \/ FinishTraining \/ SaveBundle \/ Read
  <2> SUFFICES ASSUME phase' = "exited" PROVE exit'.at \notin {"config", "config unsaved"}
    BY <1>1
  <2>1. CASE Parse \/ Resume \/ Prepare
    <3> DEFINE here == {"parse", "load checkpoint", "adopt", "tokenizer", "stream",
                        "model", "batch", "state", "manifest"}
    <3>1. \E at \in here : \E code, frees : Abort(at, code, frees)
      <4>1. CASE Parse
        BY <4>1 DEF Parse, ParseMode, ParseFlag, ParseValue, ParseError, Dispatch, Go
      <4>2. CASE Resume
        BY <4>2 DEF Resume, LoadCheckpoint, AdoptCheckpoint, Go
      <4>3. CASE Prepare
        BY <4>3 DEF Prepare, PrepareTokenizer, CreateStream, CreateModel, CreateBatch,
           FillState, WriteManifest, Go
      <4> QED BY <2>1, <4>1, <4>2, <4>3
    <3> QED BY <3>1, AbortTellsWhere
  <2>2. CASE FinishTraining \/ SaveBundle
    <3>1. Abort("epoch", 1, Everything) \/ phase' \in {"bundle", "config", "config unsaved"}
      BY <2>2 DEF FinishTraining, SaveBundle, Go
    <3>2. Abort("epoch", 1, Everything) => exit'.at = "epoch"
      BY AbortTellsWhere
    <3> QED BY <3>1, <3>2
  <2>3. CASE Epoch
    BY <2>3, EpochSteps DEF InEpoch
  <2>4. CASE Read
    BY <2>4, ReadSteps DEF Reading, Answering
  <2> QED BY <1>9, <2>1, <2>2, <2>3, <2>4
<1> QED BY <1>5, <1>6, <1>7, <1>8, <1>9 DEF Next, Train

(* main and the error paths of the modes: exit code 0 of a training run    *)
(* means that its bundle and its configuration are in place, and its       *)
(* terminal checkpoint unless one of another run in the directory outranks *)
(* it; with paths that differ they are in place only then; and nothing     *)
(* stays allocated but the model in the two places the code forgets it.    *)
THEOREM RunsExitCleanly == Spec => []ExitsCleanly
<1> DEFINE IInv == HeldOK /\ RankOK /\ FilesOK /\ ExitCodeIsHonest
<1>1. Init => IInv
  <2> SUFFICES ASSUME Init PROVE IInv
    OBVIOUS
  <2> USE DEF Late, InEpoch
  <2>1. exit.at = "start"
    BY DEF Init
  <2>2. ExitCodeIsHonest
    BY <2>1 DEF ExitCodeIsHonest
  <2>3. HeldOK
    BY DEF Init, HeldOK, EveryExitFrees, Reading, Answering
  <2>4. FilesOK
    BY CommandLineAssumption DEF Init, FilesOK, Unwritten
  <2>5. RankOK
    BY DEF Init, RankOK
  <2> QED BY <2>2, <2>3, <2>4, <2>5
<1>2. TypeOK /\ Chains /\ Course /\ IInv /\ Next => IInv'
  BY HeldIsKept, RanksAreKept, FilesAreKept, HonestyIsKept
<1>3. IInv /\ UNCHANGED vars => IInv'
  <2> SUFFICES ASSUME IInv, UNCHANGED vars PROVE IInv'
    OBVIOUS
  <2>1. HeldOK'
    BY DEF HeldOK, EveryExitFrees, Resuming, vars
  <2>2. FilesOK'
    BY DEF FilesOK, Owned, Completed, Interval, TerminalIsKept, Keep, Directory, Sidecar, vars
  <2>3. ExitCodeIsHonest'
    BY DEF ExitCodeIsHonest, ResultsAreInPlace, PathsDiffer, Found, TerminalIsKept,
       Keep, Directory, Interval, Sidecar, vars
  <2>4. RankOK'
    BY DEF RankOK, Directory, Newest, vars
  <2> QED BY <2>1, <2>2, <2>3, <2>4
<1>4. IInv => ExitsCleanly
  BY DEF HeldOK, ExitsCleanly
<1> HIDE DEF IInv
<1> QED BY <1>1, <1>2, <1>3, <1>4, CourseHolds, PTL DEF Spec

---------------------------------------------------------------------------
(* The places of an option on the line that the parser has passed.         *)
ReadPlaces(o) == {i \in Places(o) : i < index}
(* The value the line gives option o at place i.                           *)
InLine(o, i) == IF o \in Flags THEN On ELSE argv[i + 1]
(* The parser holds the value of the last of them.                         *)
LastRead(o) ==
    \E i \in ReadPlaces(o) : /\ \A j \in ReadPlaces(o) : j <= i
                        /\ args[o] = InLine(o, i)

(* What the parser made of the part of the line it has read.               *)
ReadOK ==
    /\ (phase # "exited" /\ Unambiguous) =>
           \A o \in Options \ {"--stop"} : ReadPlaces(o) # {} => Given(o) /\ LastRead(o)
    /\ phase \notin {"parse", "exited"} => index > Len(argv)

LEMMA WordsHavePlaces ==
    ASSUME TypeOK
    PROVE  /\ \A i \in DOMAIN argv : i \in Nat /\ i >= 1 /\ i <= Len(argv)
           /\ index \in Nat /\ Len(argv) \in Nat
<1>1. argv \in Seq(Words)
  BY DEF TypeOK
<1>2. DOMAIN argv = 1..Len(argv) /\ Len(argv) \in Nat
  BY <1>1
<1>3. index \in Nat \ {0}
  BY DEF TypeOK
<1> QED BY <1>2, <1>3

LEMMA GivenGrows ==
    ASSUME TypeOK, NEW word, explicit' = Append(explicit, word)
    PROVE  \A o : (o = word \/ Given(o)) => Given(o)'
<1>1. explicit \in Seq(STRING \cup {"mode"})
  BY DEF TypeOK
<1>2. DOMAIN explicit = 1..Len(explicit) /\ Len(explicit) \in Nat
  BY <1>1
<1>3. DOMAIN explicit' = 1..(Len(explicit) + 1)
  BY <1>1
<1>4. explicit'[Len(explicit) + 1] = word
  BY <1>1
<1>5. \A i \in 1..Len(explicit) : explicit'[i] = explicit[i]
  BY <1>1
<1> QED BY <1>2, <1>3, <1>4, <1>5 DEF Given

LEMMA OptionIsRead ==
    ASSUME TypeOK, ReadOK, phase = "parse", phase' = "parse", argv' = argv,
           index \in DOMAIN argv, index' \in {index + 1, index + 2},
           NEW name, name = argv[index].text, name \in Options,
           NEW value, args' = [args EXCEPT ![name] = value],
           name # "--stop" => value = InLine(name, index),
           explicit' = Append(explicit, name),
           Unambiguous =>
               \A i \in DOMAIN argv : (i > index /\ i < index') => argv[i].text \notin Options
    PROVE  ReadOK'
<1> SUFFICES ASSUME Unambiguous, NEW o \in Options \ {"--stop"}, ReadPlaces(o)' # {}
             PROVE  Given(o)' /\ LastRead(o)'
  BY DEF ReadOK, Unambiguous
<1>0. index \in Nat /\ DOMAIN args = Options /\ \A i \in DOMAIN argv : i \in Nat
  BY WordsHavePlaces DEF TypeOK, Sound
<1>1. ReadPlaces(o)' = ReadPlaces(o) \cup {i \in {index} : o = name}
  BY <1>0 DEF ReadPlaces, Places
<1>2. \A i : InLine(o, i)' = InLine(o, i)
  BY DEF InLine
<1>3. CASE o = name
  <2>1. ReadPlaces(o)' = ReadPlaces(o) \cup {index}
    BY <1>1, <1>3
  <2>2. \A j \in ReadPlaces(o)' : j <= index
    BY <1>0, <2>1 DEF ReadPlaces, Places
  <2>3. args'[o] = InLine(o, index)
    BY <1>0, <1>3
  <2> QED BY <1>2, <1>3, <2>1, <2>2, <2>3, GivenGrows DEF LastRead
<1>4. CASE o # name
  <2>1. ReadPlaces(o)' = ReadPlaces(o) /\ args'[o] = args[o]
    BY <1>0, <1>1, <1>4
  <2>2. Given(o) /\ LastRead(o)
    BY <2>1 DEF ReadOK
  <2> QED BY <1>2, <2>1, <2>2, GivenGrows DEF LastRead
<1> QED BY <1>3, <1>4

LEMMA ReadingIsKept ==
    ASSUME TypeOK, ReadOK, Next
    PROVE  ReadOK'
<1>1. CASE phase' = "exited"
  BY <1>1 DEF ReadOK
<1>2. CASE Start
  <2> SUFFICES ASSUME phase' # "exited" PROVE ReadOK'
    BY <1>1
  <2>1. index' = 1 /\ phase' = "parse" /\ argv' \in CommandLines[run']
        /\ run' \in DOMAIN CommandLines
    BY <1>2, RunIsNatural, CommandLineAssumption DEF Start
  <2>2. argv' \in Seq(Words)
    BY <2>1, CommandLineAssumption
  <2>3. \A i \in DOMAIN argv' : i \in Nat /\ i >= 1
    BY <2>2
  <2>4. \A o : ReadPlaces(o)' = {}
    BY <2>1, <2>3 DEF ReadPlaces, Places
  <2> QED BY <2>1, <2>4 DEF ReadOK
<1>3. CASE ParseMode
  <2>1. phase' = "parse" /\ argv' = argv /\ index' = 2 /\ argv[1].text \in Modes
    BY <1>3 DEF ParseMode, NamesMode
  <2>2. \A i \in DOMAIN argv : i \in Nat /\ i >= 1
    BY WordsHavePlaces
  <2>3. Modes \cap Options = {}
    BY DEF Modes, Options, Flags, Texts, Choices, Least, FromZero, FromOne
  <2>4. \A o \in Options : ReadPlaces(o)' = {}
    BY <2>1, <2>2, <2>3 DEF ReadPlaces, Places
  <2> QED BY <2>1, <2>4 DEF ReadOK
<1>4. CASE ParseFlag
  <2>1. /\ phase = "parse" /\ phase' = "parse" /\ argv' = argv /\ index \in DOMAIN argv
        /\ index' = index + 1 /\ argv[index].text \in Flags
        /\ args' = [args EXCEPT ![argv[index].text] = On]
        /\ explicit' = Append(explicit, argv[index].text)
    BY <1>4 DEF ParseFlag, Recorded
  <2>2. PICK name : name = argv[index].text
    OBVIOUS
  <2>3. index \in Nat /\ \A i \in DOMAIN argv : i \in Nat
    BY WordsHavePlaces
  <2>4. \A i \in DOMAIN argv : ~(i > index /\ i < index')
    BY <2>1, <2>3
  <2>5. name \in Options /\ On = InLine(name, index)
    BY <2>1, <2>2 DEF Options, InLine
  <2> QED BY <2>1, <2>2, <2>4, <2>5, OptionIsRead
<1>5. CASE ParseValue
  <2>1. PICK name, value :
            /\ name = argv[index].text /\ value = argv[index + 1]
            /\ phase = "parse" /\ phase' = "parse" /\ argv' = argv
            /\ index \in DOMAIN argv /\ index + 1 \in DOMAIN argv /\ index' = index + 2
            /\ name \in Options \ Flags /\ args' = [args EXCEPT ![name] = Stored(name, value)]
            /\ explicit' = Append(explicit, name)
    BY <1>5 DEF ParseValue, Recorded
  <2>2. index \in Nat /\ \A i \in DOMAIN argv : i \in Nat
    BY WordsHavePlaces
  <2>3. Unambiguous => argv[index + 1].text \notin Options
    BY <2>1 DEF Unambiguous
  <2>4. \A i \in DOMAIN argv : (i > index /\ i < index') => i = index + 1
    BY <2>1, <2>2
  <2>5. name # "--stop" => Stored(name, value) = InLine(name, index)
    BY <2>1 DEF Stored, InLine
  <2>6. PICK stored : stored = Stored(name, value)
    OBVIOUS
  <2> QED BY <2>1, <2>3, <2>4, <2>5, <2>6, OptionIsRead
<1>6. ASSUME UNCHANGED line, phase # "exited", phase = "parse" => index > Len(argv)
      PROVE  ReadOK'
  BY <1>6 DEF ReadOK, line, Unambiguous, ReadPlaces, Places, Given, LastRead, InLine
<1>7. CASE Dispatch
  BY <1>6, <1>7 DEF Dispatch, Go, Abort
<1>8. CASE Resume \/ Prepare \/ Train
  <2>1. UNCHANGED line /\ phase \notin {"parse", "exited"}
    <3>1. CASE Epoch
      BY <3>1, EpochSteps DEF InEpoch
    <3>2. CASE FinishTraining \/ SaveBundle \/ SaveConfig
      BY <3>2 DEF FinishTraining, SaveBundle, SaveConfig, Go, Abort
    <3>3. CASE Resume \/ Prepare
      BY <3>3 DEF Resume, Prepare, LoadCheckpoint, AdoptCheckpoint, PrepareTokenizer,
         CreateStream, CreateModel, CreateBatch, FillState, WriteManifest, Go, Abort
    <3> QED BY <1>8, <3>1, <3>2, <3>3 DEF Train
  <2> QED BY <1>6, <2>1
<1>10. CASE Read
  <2>1. UNCHANGED line /\ phase \notin {"parse", "exited"}
    BY <1>10, ReadSteps DEF Reading, Answering
  <2> QED BY <1>6, <2>1
<1>9. CASE ParseError \/ Kill \/ EditCorpus
  BY <1>1, <1>9 DEF ParseError, Kill, EditCorpus, Abort
<1> QED BY <1>2, <1>3, <1>4, <1>5, <1>7, <1>8, <1>9, <1>10 DEF Next, Parse
LEMMA ReadingHolds == Spec => []ReadOK
<1>1. Init => ReadOK
  BY DEF Init, ReadOK
<1>2. TypeOK /\ ReadOK /\ Next => ReadOK'
  BY ReadingIsKept
<1>3. ReadOK /\ UNCHANGED vars => ReadOK'
  BY DEF ReadOK, vars, Unambiguous, ReadPlaces, Places, Given, LastRead, InLine
<1> QED BY <1>1, <1>2, <1>3, CourseHolds, PTL DEF Spec

(* cli_parse: once the line is read, an option on it is recorded as        *)
(* given and has the last value the line gives it.                         *)
LEMMA AskedIsParsed ==
    ASSUME TypeOK, ReadOK, phase \notin {"parse", "exited"}, Unambiguous,
           NEW o \in Options \ {"--stop"}, Places(o) # {}
    PROVE  Given(o) /\ args[o] = Asked(o)
<1>1. Places(o) \subseteq Nat /\ index > Len(argv)
  BY WordsHavePlaces DEF Places, ReadOK
<1>2. ReadPlaces(o) = Places(o)
  BY <1>1, WordsHavePlaces DEF ReadPlaces, Places
<1>3. Given(o) /\ LastRead(o)
  BY <1>2 DEF ReadOK
<1>4. PICK i \in Places(o) : /\ \A j \in Places(o) : j <= i
                             /\ args[o] = InLine(o, i)
  BY <1>2, <1>3 DEF LastRead
<1>5. PICK last : last = CHOOSE k \in Places(o) : \A j \in Places(o) : j <= k
  OBVIOUS
<1>6. last \in Places(o) /\ \A j \in Places(o) : j <= last
  BY <1>4, <1>5
<1>7. last = i
  BY <1>1, <1>4, <1>6
<1> QED BY <1>3, <1>4, <1>5, <1>7 DEF Asked, InLine

(* What a resumed run makes of a given option.                             *)
LEMMA ResumedInForce ==
    ASSUME Accepted, effective = Adopted,
           NEW o \in Trajectory \cup Replaceable \cup {"--validation", "--epochs"},
           Given(o)
    PROVE  \/ effective[o] = args[o]
           \/ o = "--train-stride" /\ args[o] = Off /\ effective[o] = args["--train-window"]
           \/ o = "--validation" /\ args[o].text = ""
<1>1. CASE o \in Trajectory
  <2>1. Requested(o) = effective[o]
    BY <1>1, Adoption DEF Accepted, Rejected
  <2> QED BY <2>1 DEF Requested
<1>2. CASE o \in Replaceable \cup {"--validation", "--epochs"}
  BY <1>2, Adoption
<1> QED BY <1>1, <1>2

(* What a run that resumes nothing makes of an option.                     *)
LEMMA FreshInForce ==
    ASSUME Sound(args), effective = Resolved(Windowed(args)), NEW o \in Options
    PROVE  \/ effective[o] = args[o]
           \/ o = "--train-window"
                  /\ effective[o] = effective["--max-seq-len"]
                  /\ args[o].number > effective[o].number
           \/ o = "--train-stride"
                  /\ effective[o] = effective["--train-window"]
                  /\ (args[o] = Off \/ args[o].number > effective[o].number)
           \/ o = "--tokenizer" /\ args[o].text = ""
<1> DEFINE w == Windowed(args)
<1>0. /\ {"--train-window", "--train-stride", "--max-seq-len"} \subseteq Options \ {"--tokenizer"}
      /\ "--tokenizer" \in Options
  BY OptionNames DEF Windows, Replaceable
<1>1. Sound(w) /\ \A p \in Options \ {"--tokenizer"} : effective[p] = w[p]
  BY WindowedIsSound, ResolvedIsSound
<1>2. IsFigure(args["--train-window"]) /\ IsFigure(args["--train-stride"])
      /\ IsFigure(args["--max-seq-len"])
  BY DEF Sound, Numbers, Windows
<1>3. CASE o = "--train-window"
  <2>1. effective[o] = Figure(Clamp(args[o].number, args["--max-seq-len"].number))
    BY <1>0, <1>1, <1>3, WindowedIsSound
  <2>2. effective["--max-seq-len"] = args["--max-seq-len"]
    BY <1>0, <1>1, WindowedIsSound
  <2>3. CASE args[o].number > args["--max-seq-len"].number
    BY <1>2, <1>3, <2>1, <2>2, <2>3 DEF Clamp, IsFigure
  <2>4. CASE ~(args[o].number > args["--max-seq-len"].number)
    BY <1>2, <1>3, <2>1, <2>4 DEF Clamp, IsFigure
  <2> QED BY <2>3, <2>4
<1>4. CASE o = "--train-stride"
  <2>1. effective["--train-window"] = w["--train-window"] /\ IsFigure(w["--train-window"])
    BY <1>0, <1>1 DEF Sound, Numbers, Windows
  <2>2. CASE args[o].number = 0
    BY <1>0, <1>1, <1>2, <1>4, <2>1, <2>2, WindowedIsSound DEF IsFigure, Off
  <2>3. CASE args[o].number # 0
    <3>1. effective[o] = Figure(Clamp(args[o].number, w["--train-window"].number))
      BY <1>0, <1>1, <1>4, <2>3, WindowedIsSound
    <3>2. CASE args[o].number > w["--train-window"].number
      BY <1>2, <1>4, <2>1, <3>1, <3>2 DEF Clamp, IsFigure
    <3>3. CASE ~(args[o].number > w["--train-window"].number)
      BY <1>2, <1>4, <3>1, <3>3 DEF Clamp, IsFigure
    <3> QED BY <3>2, <3>3
  <2> QED BY <2>2, <2>3
<1>5. CASE o = "--tokenizer"
  <2>1. w[o] = args[o] /\ args[o] = [text |-> args[o].text, number |-> args[o].number]
    BY <1>0, <1>5, WindowedIsSound DEF Sound
  <2>2. effective[o] = [text |-> Sidecar(w), number |-> w[o].number]
    BY <1>1, <1>5, ResolvedIsSound
  <2> QED BY <1>5, <2>1, <2>2 DEF Sidecar
<1>6. CASE o \notin {"--train-window", "--train-stride", "--tokenizer"}
  BY <1>1, <1>6, WindowedIsSound
<1> QED BY <1>3, <1>4, <1>5, <1>6

(* cli_parse, reject_resume_override and mode_train: an option the line    *)
(* gives is in force when training starts, up to the shortening the        *)
(* program reports; it is not replaced by what a checkpoint holds or by    *)
(* a default.                                                              *)
THEOREM GivenOptionsAreInForce == Spec => []ExplicitOptionsTakeEffect
<1>1. TypeOK /\ Chains /\ Course /\ ReadOK => ExplicitOptionsTakeEffect
  <2> SUFFICES ASSUME TypeOK, Course, ReadOK, Training, Unambiguous,
                      NEW o \in Trajectory \cup Replaceable \cup {"--validation", "--epochs"},
                      Places(o) # {}
               PROVE  \/ effective[o] = Asked(o)
                      \/ o = "--train-window"
                             /\ effective[o] = effective["--max-seq-len"]
                             /\ Asked(o).number > effective[o].number
                      \/ o = "--train-stride"
                             /\ effective[o] = effective["--train-window"]
                             /\ (Asked(o) = Off \/ Asked(o).number > effective[o].number)
                      \/ o = "--train-stride" /\ Asked(o) = Off
                             /\ Resuming /\ effective[o] = args["--train-window"]
                      \/ Resuming /\ o = "--validation" /\ Asked(o).text = ""
                      \/ ~Resuming /\ o = "--tokenizer" /\ Asked(o).text = ""
    BY DEF ExplicitOptionsTakeEffect
  <2>1. phase \in {"manifest", "bundle", "config"} \cup InEpoch
    BY DEF Training, InEpoch
  <2>2. Given(o) /\ args[o] = Asked(o) /\ o \in Options
    BY <2>1, AskedIsParsed, OptionNames DEF InEpoch
  <2>3. CASE Resuming
    <3>1. Accepted /\ effective = Adopted
      BY <2>1, <2>3 DEF Course, Late, InEpoch
    <3> QED BY <2>2, <2>3, <3>1, ResumedInForce
  <2>4. CASE ~Resuming
    <3>1. effective = Resolved(Windowed(args))
      BY <2>1, <2>4 DEF Course, Late, InEpoch, Fresh
    <3> QED BY <2>2, <2>4, <3>1, FreshInForce DEF TypeOK
  <2> QED BY <2>3, <2>4
<1> QED BY <1>1, CourseHolds, ReadingHolds, PTL
============================================================================
