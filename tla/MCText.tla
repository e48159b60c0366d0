------------------------------- MODULE MCText -------------------------------
(* From a corpus to tokens, from tokens to windows, and from a prompt to a   *)
(* reply: one behaviour learns and reloads a vocabulary (BytePairs), cuts an *)
(* epoch into windows (WindowWalk) or decodes a reply (Generation).  What    *)
(* the other two are made of is idle meanwhile.                              *)
EXTENDS Generation, BytePairs, WindowWalk

CONSTANTS LongChunk, ShortChunk, TextLength, a, b, Idle

VARIABLE subject   \* "vocabulary", "windows" or "reply"

MCCorpora ==
  {<<c>> : c \in [1..LongChunk -> Bytes]} \cup
  {<<c, d>> : c, d \in [1..ShortChunk -> Bytes]}

MCTexts == UNION {[1..n -> Bytes] : n \in 1..TextLength}

(* A prompt that ends in the beginning of a stop sequence, and one longer  *)
(* than the smaller windows.                                               *)
MCPrompts == {<<a>>, <<b, b, a>>}

(* No stops; overlapping stops in both registration orders; a stop that    *)
(* overlaps itself; a long stop whose end begins a shorter one.            *)
MCStopLists ==
  {<< >>, <<<<b>>, <<a, b>>>>, <<<<a, b>>, <<b>>>>, <<<<a, a, b>>>>,
   <<<<a, b, a, a>>, <<b, b>>>>}

ASSUME GenerationAssumption

NoVocabulary ==
  /\ stage = Idle /\ encoder = None /\ chunks = << >> /\ working = None
  /\ file = None /\ chunk = None /\ original = None

(* A reply nobody asks for stays as one of the initial states has it.      *)
NoReply ==
  /\ capacity = 1 /\ special = FALSE /\ stops = << >> /\ minimum_new_tokens = 0
  /\ limit = 0 /\ sequence = <<a>> /\ prior_training = FALSE

(* And a walk nobody starts.                                               *)
NoWalk ==
  /\ train_window = 1 /\ train_stride = 1 /\ ~special_tokens /\ corpus = 0

TextInit ==
  /\ Init /\ WalkInit
  /\ \/ subject = "vocabulary" /\ NoReply /\ NoWalk /\ VocabularyInit
     \/ subject = "windows" /\ NoReply /\ NoVocabulary
     \/ subject = "reply" /\ NoWalk /\ NoVocabulary

LearnNext == subject = "vocabulary" /\ VocabularyNext
               /\ UNCHANGED <<subject, vars, walkVars>>
ReplyNext == subject = "reply" /\ Next
               /\ UNCHANGED <<subject, vocabularyVars, walkVars>>
WindowsNext == subject = "windows" /\ WalkNext
               /\ UNCHANGED <<subject, vocabularyVars, vars>>
TextNext == LearnNext \/ WindowsNext \/ ReplyNext
textVars == <<subject, vars, vocabularyVars, walkVars>>
TextSpec == TextInit /\ [][TextNext]_textVars /\ WF_textVars(ReplyNext)

(* Every call of the decode loop returns.                                  *)
ReplyEnds == subject = "reply" => DecodingEnds
=============================================================================
