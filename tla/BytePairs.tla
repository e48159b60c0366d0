------------------------------ MODULE BytePairs ------------------------------
(***************************************************************************)
(* The tokenizer (libs/src/byte_pair_encoding.c, cli/tokenizer.c): a       *)
(* vocabulary is learned from a corpus read in chunks, frozen, written to  *)
(* a file and read by another process; texts are encoded by applying its   *)
(* merges in the order they were learned, and decoded by concatenation.    *)
(*                                                                         *)
(* Bytes are small numbers; frequencies of tokens are not kept, nor is the *)
(* map id_to_token, which nothing reads.                                   *)
(***************************************************************************)
EXTENDS HashMap

CONSTANTS
  ByteCount,    (* BPE_BYTE_TOKEN_COUNT                                     *)
  MaxPairLen,   (* MAX_PAIR_LEN                                             *)
  MaxPortable,  (* BPE_PORTABLE_MAX_VOCAB                                   *)
  Rooms,        (* How many learned tokens --vocab-size leaves room for.    *)
  Corpora,      (* Files, each the sequence of chunks it is read in.        *)
  Texts,        (* Texts to encode.                                         *)
  None

Bytes == 0..(ByteCount - 1)

ASSUME BytePairsAssumption ==
  /\ ByteCount \in Nat \ {0} /\ MaxPairLen \in Nat /\ MaxPortable \in Nat
  /\ Rooms \subseteq Nat
  /\ \A corpus \in Corpora :
       corpus # << >> /\ corpus \in Seq(Seq(Bytes) \ {<< >>})
  /\ Texts \subseteq Seq(Bytes) \ {<< >>}

VARIABLES
  encoder,      (* bpe_encoder_t, or None.                                  *)
  stage,        (* scan, train, ready or closed.                            *)
  chunks,       (* Chunks of the corpus not read yet.                       *)
  working,      (* working_token_t *tokens, or None.                        *)
  file,         (* What was written, in units of the format, or None.       *)
  chunk,        (* History: the chunk trained on and the tokens before it.  *)
  original      (* History: the encoder that was trained.                   *)

vocabularyVars == <<encoder, stage, chunks, working, file, chunk, original>>

-----------------------------------------------------------------------------
(* Encoders.                                                               *)

(* PAD, UNK, BOS and EOS follow the bytes.                                 *)
FirstLearned(special) == IF special THEN ByteCount + 4 ELSE ByteCount

UnknownId(special) == IF special THEN ByteCount + 1 ELSE ByteCount - 1

VocabSize(e) == FirstLearned(e.special) + Len(e.learned)

IsControl(e, id) ==
  e.special /\ id \in ByteCount..(FirstLearned(e.special) - 1)

(* encoder->tokens[id].token                                               *)
TokenBytes(e, id) ==
  IF id < ByteCount THEN <<id>> ELSE e.learned[id - FirstLearned(e.special) + 1]

(* bpe_encoder_new_mode                                                    *)
NewEncoder(max, special) ==
  LET byteIds[n \in 0..ByteCount] ==
        IF n = 0 THEN EmptyMap ELSE Insert(byteIds[n - 1], <<n - 1>>, n - 1)
  IN  [learned |-> << >>, special |-> special, max |-> max, frozen |-> FALSE,
       ids |-> byteIds[ByteCount]]

(* The end of bpe_train's loop, and of the readers'.                       *)
AddToken(e, token) ==
  [e EXCEPT !.learned = Append(@, token),
            !.ids = Insert(@, token, VocabSize(e))]

Split(text) == [i \in 1..Len(text) |-> <<text[i]>>]

(* Mutant: every occurrence is merged with its successor, overlaps too.    *)
Merge_Overlapping(tokens, pair) ==
  FlattenSeq([i \in 1..Len(tokens) |->
    IF i < Len(tokens) /\ tokens[i] \o tokens[i + 1] = pair THEN <<pair>>
    ELSE IF i > 1 /\ tokens[i - 1] \o tokens[i] = pair THEN << >>
    ELSE <<tokens[i]>>])

(* merge_pair: from left to right, trying the merged token again with the  *)
(* one that follows.                                                       *)
Joined(done, token, pair) ==
  IF done # << >> /\ Last(done) \o token = pair
  THEN Append(Front(done), pair)
  ELSE Append(done, token)

Merge(tokens, pair) ==
  LET done[n \in 0..Len(tokens)] ==
        IF n = 0 THEN << >> ELSE Joined(done[n - 1], tokens[n], pair)
  IN  done[Len(tokens)]

(* Mutant: the newest merge first.                                         *)
Segmented_NewestFirst(text, merges) ==
  LET cut[n \in 0..Len(merges)] ==
        IF n = 0 THEN Split(text) ELSE Merge(cut[n - 1], Reverse(merges)[n])
  IN  cut[Len(merges)]

Segmented(text, merges) ==
  LET cut[n \in 0..Len(merges)] ==
        IF n = 0 THEN Split(text) ELSE Merge(cut[n - 1], merges[n])
  IN  cut[Len(merges)]

(* bpe_encode: unknown bytes have an id of their own.                      *)
IdOf(e, token) ==
  IF Get(e.ids, token) = {} THEN UnknownId(e.special)
  ELSE CHOOSE id \in Get(e.ids, token) : TRUE

Encode(e, text) ==
  LET tokens == Segmented(text, e.learned)
  IN  [i \in 1..Len(tokens) |-> IdOf(e, tokens[i])]

(* bpe_decode: ids of controls and of tokens that do not exist are skipped.*)
Decode(e, ids) ==
  FlattenSeq([i \in 1..Len(ids) |->
    IF ids[i] < VocabSize(e) /\ ~IsControl(e, ids[i])
    THEN TokenBytes(e, ids[i]) ELSE << >>])

-----------------------------------------------------------------------------
(* Training.                                                               *)

VocabularyInit ==
  /\ \E special \in BOOLEAN, room \in Rooms :
       encoder = NewEncoder(FirstLearned(special) + room, special)
  /\ stage = "scan"
  /\ chunks \in Corpora
  /\ working = None
  /\ file = None
  /\ chunk = None
  /\ original = None

HasRoom(e) == VocabSize(e) < e.max

(* scan_corpus, tokenizer_train_encoder_file: each chunk is trained on     *)
(* from its bytes while there is room.                                     *)
ReadChunk ==
  /\ stage = "scan"
  /\ chunks # << >>
  /\ chunks' = Tail(chunks)
  /\ IF HasRoom(encoder)
     THEN /\ stage' = "train"
          /\ working' = Split(Head(chunks))
          /\ chunk' = [text |-> Head(chunks), known |-> Len(encoder.learned)]
     ELSE UNCHANGED <<stage, working, chunk>>
  /\ UNCHANGED <<encoder, file, original>>

Fits(pair) == Len(pair) <= MaxPairLen - 1

(* count_pair_frequencies: a pair is what its two tokens spell, and        *)
(* overlapping occurrences count.                                          *)
PairAt(i) == working[i] \o working[i + 1]

Frequency(pair) == Cardinality({i \in 1..(Len(working) - 1) : PairAt(i) = pair})

(* Sorting leaves pairs of one frequency in any order.                     *)
MostFrequent ==
  LET pairs == {pair \in {PairAt(i) : i \in 1..(Len(working) - 1)} : Fits(pair)}
  IN  {pair \in pairs :
         /\ Frequency(pair) >= 2
         /\ \A other \in pairs : Frequency(other) <= Frequency(pair)}

(* One turn of bpe_train's loop.                                           *)
Learn ==
  /\ stage = "train"
  /\ HasRoom(encoder)
  /\ \E pair \in MostFrequent :
       /\ working' = Merge(working, pair)
       /\ encoder' = AddToken(encoder, pair)
  /\ UNCHANGED <<stage, chunks, file, chunk, original>>

EndChunk ==
  /\ stage = "train"
  /\ ~HasRoom(encoder) \/ MostFrequent = {}
  /\ stage' = "scan"
  /\ working' = None
  /\ chunk' = None
  /\ UNCHANGED <<encoder, chunks, file, original>>

(* bpe_encoder_freeze                                                      *)
Freeze ==
  /\ stage = "scan"
  /\ chunks = << >>
  /\ stage' = "ready"
  /\ encoder' = [encoder EXCEPT !.frozen = TRUE]
  /\ original' = encoder'
  /\ UNCHANGED <<chunks, working, file, chunk>>

(* An allocation or a read fails: mode_train frees the encoder and ends.   *)
FailTraining ==
  /\ stage \in {"scan", "train"}
  /\ stage' = "closed"
  /\ encoder' = None
  /\ working' = None
  /\ chunk' = None
  /\ UNCHANGED <<chunks, file, original>>

-----------------------------------------------------------------------------
(* Files.                                                                  *)

(* What bpe_encoder_write and bpe_encoder_serialize_portable write: the    *)
(* sizes, and the learned tokens in merge order.                           *)
Header(e) == [special |-> e.special, max |-> e.max, vocab |-> VocabSize(e)]

Units(e) == <<Header(e)>> \o e.learned

LengthOK(token) == Len(token) > 0 /\ Len(token) < MaxPairLen

Writable(e) == \A i \in 1..Len(e.learned) : LengthOK(e.learned[i])

(* bpe_encoder_save: the file is written in place, over an older one, up   *)
(* to the first token that has no place in the format, and may be cut short*)
(* anywhere.                                                               *)
Save ==
  /\ stage = "ready"
  /\ \E n \in 0..Len(Units(encoder)) :
       /\ \A i \in 1..(n - 1) : LengthOK(encoder.learned[i])
       /\ file' = SubSeq(Units(encoder), 1, n)
  /\ UNCHANGED <<encoder, stage, chunks, working, chunk, original>>

Close ==
  /\ stage = "ready"
  /\ stage' = "closed"
  /\ encoder' = None
  /\ UNCHANGED <<chunks, working, file, chunk, original>>

(* Mutant: the end of the file ends the vocabulary.                        *)
Complete_EndOfFile(units) == units # << >>

(* Every token the header announces, and nothing after them.               *)
Complete(units) ==
  /\ units # << >>
  /\ Len(units) - 1 = units[1].vocab - FirstLearned(units[1].special)

(* bpe_encoder_read and bpe_encoder_deserialize_portable.                  *)
Readable(units) ==
  /\ Complete(units)
  /\ units[1].max <= MaxPortable
  /\ \A i \in 2..Len(units) : LengthOK(units[i])

Restored(max, special, tokens) ==
  LET read[n \in 0..Len(tokens)] ==
        IF n = 0 THEN NewEncoder(max, special) ELSE AddToken(read[n - 1], tokens[n])
  IN  read[Len(tokens)]

ReadEncoder(units) ==
  [Restored(units[1].max, units[1].special, Tail(units)) EXCEPT !.frozen = TRUE]

(* bpe_encoder_load                                                        *)
Load ==
  /\ stage = "closed"
  /\ file # None
  /\ Readable(file)
  /\ encoder' = ReadEncoder(file)
  /\ stage' = "ready"
  /\ UNCHANGED <<chunks, working, file, chunk, original>>

VocabularyNext ==
  \/ ReadChunk \/ Learn \/ EndChunk \/ Freeze \/ FailTraining
  \/ Save \/ Close \/ Load

VocabularySpec == VocabularyInit /\ [][VocabularyNext]_vocabularyVars
-----------------------------------------------------------------------------
(* Properties.                                                             *)

(* Whatever was learned, of however many chunks, a text encoded and then   *)
(* decoded is the same text.                                               *)
DecodeInvertsEncode ==
  encoder # None => \A text \in Texts : Decode(encoder, Encode(encoder, text)) = text

(* While a chunk is trained on, it is cut up as encoding with the merges   *)
(* it gave would cut it.                                                   *)
EncodingFollowsTraining ==
  stage = "train" =>
    working = Segmented(chunk.text,
                SubSeq(encoder.learned, chunk.known + 1, Len(encoder.learned)))

(* test_tokenizer_serialization.c: what was trained can be written, what   *)
(* was written can be read, a vocabulary read from a file gives every text *)
(* the ids it had, and a file cut short is never read.                     *)
ReloadKeepsTokens ==
  stage = "ready" =>
    /\ VocabSize(encoder) = VocabSize(original)
    /\ \A text \in Texts : Encode(encoder, text) = Encode(original, text)
    /\ encoder.max <= MaxPortable =>
         Writable(encoder) /\ Readable(Units(encoder))
=============================================================================
