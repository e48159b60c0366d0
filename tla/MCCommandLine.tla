---------------------------- MODULE MCCommandLine ----------------------------
(* Command lines over a small disk: fresh runs and resumed ones that repeat, *)
(* extend, contradict or redirect them, runs that read the result, and lines *)
(* the parser or the checks refuse.                                          *)
EXTENDS CommandLine, TLC

W(text) == <<Word(text)>>
F(option, n) == <<Word(option), Figure(n)>>
S(option, text) == <<Word(option), Word(text)>>
NoWindow == F("--epochs", 1) \o F("--checkpoint-interval", 0)
Fresh == W("train") \o F("--seed", 7)
Wide == F("--train-window", 64) \o F("--train-stride", 0)
Latest == S("--resume", "latest")
Prompt == S("--prompt", "p")

Narrow == F("--train-window", 8) \o F("--train-stride", 0) \o W("--shuffle")
              \o F("--checkpoint-interval", 1)
FreshLines ==
    {Fresh \o Wide,
     Fresh \o Narrow,
     F("--train-window", 32) \o F("--train-stride", 16) \o F("--max-seq-len", 64)
         \o F("--keep-checkpoints", 2),
     NoWindow \o S("--tokenizer", "own") \o S("--validation", "v")}
LaterLines ==
    {Latest,
     Fresh \o Narrow \o Latest,
     Latest \o F("--epochs", 2) \o S("--validation", "") \o S("--model", "m")
         \o S("--input", "copy"),
     Latest \o F("--seed", 2)}
ResumedLines == LaterLines \cup
    {Fresh \o Wide \o Latest,
     Latest \o F("--seed", 2) \o F("--seed", 7),
     Latest \o F("--train-stride", 0),
     Latest \o S("--checkpoint-dir", "other") \o S("--input", "elsewhere"),
     S("--resume", "checkpoints") \o S("--checkpoint-dir", "other")
         \o F("--keep-checkpoints", 1)}
GeneratingLines == {W("generate") \o Prompt \o S("--stop", "x")}
ReadingLines == GeneratingLines \cup
    {W("eval") \o S("--input", "t") \o F("--eval-window", 9),
     W("infer") \o Prompt \o S("--tokenizer", "own")}
RefusedLines ==
    {W("eval"), W("generate"), W("tune"), W("generate") \o S("--stop", ""),
     W("train") \o S("--stop", "x"), W("--gelu") \o W("--swiglu"),
     F("--top-p", 1001), S("--input", "long"), S("--prompt", "--help"),
     F("--embedding-dim", 15), F("--warmup-steps", 3), W("--seed"),
     S("--seed", "seven"), W("--gpu") \o W("--gpu") \o W("--gpu") \o W("--gpu")
         \o W("--gpu") \o W("--gpu") \o W("--gpu") \o W("--gpu") \o W("--gpu")}

(* The first run starts from the files of the configuration; a third one      *)
(* finds what a run and its resumption left.                                  *)
MCCommandLines == <<FreshLines \cup ReadingLines \cup RefusedLines,
                    FreshLines \cup ResumedLines \cup ReadingLines,
                    LaterLines \cup GeneratingLines>>
MCOverlong == {"long"}
MCUpdates == 8 :> 2 @@ 16 :> 1 @@ 32 :> 1
Old(kind, vocabulary) == [kind |-> kind, vocabulary |-> vocabulary, run |-> 0]
Legacy == "dranzer.pth" :> Old("legacy", 260)
MCStartingFiles ==
    {Legacy,
     Legacy @@ ("own" :> Old("sidecar", 260)),
     Legacy @@ ("own" :> Old("sidecar", 300))}
============================================================================
