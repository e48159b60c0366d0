---------------------------- MODULE BundleFormat ----------------------------
(***************************************************************************)
(* The self-contained model bundle: what the two writers put into a file,  *)
(* and what the copying and the mapping loader accept, check by check.     *)
(* A file is a header (its fields and the checksum stored over them), a    *)
(* weight payload, a tokenizer payload, a footer and a size; legacy is the *)
(* model a file of an older release holds. A checksum is the data it was   *)
(* computed from: FNV-1a collisions are not modelled.                      *)
(***************************************************************************)
EXTENDS ModelLayout

CONSTANT NONE   (* no model, no edit, no error yet *)

(* A check, and checks in their order: the error is that of the first that *)
(* fails, and those behind it are not looked at.                           *)
Check(holds, error) == IF holds THEN "SUCCESS" ELSE error

first && later == IF first = "SUCCESS" THEN later ELSE first

HeaderSize(version) == <<152, 184, 192>>[version]

RecordSize == 32
FooterSize == 8

PolicyValid(policy) ==
  policy.bits \in 2..16 /\ policy.granularity \in {"tensor", "row", "column"}

NoPolicy == [bits |-> 0, granularity |-> "tensor", embeddings |-> FALSE,
             biases_and_norms |-> FALSE]

-----------------------------------------------------------------------------
(* What models and files are made of: integers are unsigned, and a         *)
(* serialized tokenizer has a header of 24 bytes.                          *)

IsShape(s) ==
  /\ s = [vocab |-> s.vocab, embedding |-> s.embedding, heads |-> s.heads,
          layers |-> s.layers, sequence |-> s.sequence, flags |-> s.flags]
  /\ Dimensions(s)

IsTokenizer(t) == t.bytes \in Nat /\ t.bytes >= 24

IsModel(m) ==
  /\ m = [shape |-> m.shape, values |-> m.values, provenance |-> m.provenance,
          window |-> m.window, tokenizer |-> m.tokenizer]
  /\ IsShape(m.shape) /\ m.window \in Nat /\ IsTokenizer(m.tokenizer)

IsHeader(h) ==
  /\ Dimensions(h)
  /\ h.version \in Nat /\ h.header_size \in Nat /\ h.total \in Nat /\ h.window \in Nat
  /\ h.weight_bytes \in Nat /\ h.tokenizer_bytes \in Nat
  /\ h.tensors \in Nat /\ h.values \in Nat /\ h.scales \in Nat

IsFile(f) ==
  /\ f = [fields |-> f.fields, sum |-> f.sum, weights |-> f.weights,
          tokenizer |-> f.tokenizer, footer |-> f.footer, legacy |-> f.legacy,
          size |-> f.size]
  /\ IsHeader(f.fields) /\ f.footer \in BOOLEAN /\ f.size \in Nat
  /\ f.legacy # NONE => IsModel(f.legacy) /\ ModelAccepts(f.legacy.shape)

-----------------------------------------------------------------------------
(* Writing. A model is [shape, values, provenance, window, tokenizer]; its *)
(* tokenizer [id, vocab, bytes, frozen].                                   *)

SaveError(model) ==
     Check(model.tokenizer.vocab = model.shape.vocab, "FORMAT_ERROR")
  && Check(model.tokenizer.frozen, "FORMAT_ERROR")
  && Check(BundleShapeValid(model.shape, ParamCount(model.shape)), "FORMAT_ERROR")
  && Check(model.window \in 1..model.shape.sequence, "FORMAT_ERROR")

Version(shape, numeric) ==
  IF shape.flags # {} THEN 3 ELSE IF numeric = "quantized" THEN 2 ELSE 1

(* The fields every version has; the policy fields stay zero without a     *)
(* quantized payload, and the flags are stored by version 3 only.          *)
Fields(model, numeric, policy, weights) ==
  LET s == model.shape
      quantized == numeric = "quantized"
      version == Version(s, numeric)
  IN  [magic |-> TRUE, version |-> version, marker |-> TRUE, numeric |-> numeric,
       header_size |-> HeaderSize(version),
       vocab |-> s.vocab, embedding |-> s.embedding, heads |-> s.heads,
       layers |-> s.layers, sequence |-> s.sequence, total |-> ParamCount(s),
       window |-> model.window, provenance |-> model.provenance,
       weight_bytes |-> weights.bytes, tokenizer_bytes |-> model.tokenizer.bytes,
       weight_sum |-> weights, tokenizer_sum |-> model.tokenizer,
       policy |-> policy,
       tensors |-> IF quantized THEN Len(Tensors(s)) ELSE 0,
       values |-> IF quantized THEN QuantizedValues(s, policy) ELSE 0,
       scales |-> IF quantized THEN ScalesStored(s, policy) ELSE 0,
       flags |-> s.flags, reserved |-> 0]

FloatPayload(model) ==
  [bytes |-> 4 * ParamCount(model.shape), shape |-> model.shape, policy |-> NoPolicy,
   unpackable |-> TRUE, values |-> model.values]

(* One record, scales and codes or raw values per tensor of the shape. The *)
(* model itself keeps its float weights.                                   *)
QuantizedPayload(model, policy) ==
  [bytes |-> QuantizedBytes(model.shape, policy),
   shape |-> model.shape, policy |-> policy,
   unpackable |-> TRUE, values |-> Append(model.values, policy)]

File(fields, weights, tokenizer) ==
  [fields |-> fields, sum |-> fields, weights |-> weights, tokenizer |-> tokenizer,
   footer |-> TRUE, legacy |-> NONE,
   size |-> fields.header_size + weights.bytes + tokenizer.bytes + FooterSize]

(* model_bundle_save                                                       *)
FloatFile(model) ==
  LET weights == FloatPayload(model)
  IN  File(Fields(model, "float32", NoPolicy, weights), weights, model.tokenizer)

(* model_bundle_save_quantized                                             *)
QuantizedFile(model, policy) ==
  LET weights == QuantizedPayload(model, policy)
  IN  File(Fields(model, "quantized", policy, weights), weights, model.tokenizer)

(* model_save, of an older release: its first bytes are not the magic.     *)
LegacyFile(model) ==
  [FloatFile(model) EXCEPT !.fields.magic = FALSE, !.legacy = model]

-----------------------------------------------------------------------------
(* Reading.                                                                *)

IsV3(h) == h.version = 3 /\ h.header_size = 192

IsFloat(h) ==
  h.numeric = "float32" /\ (IsV3(h) \/ (h.version = 1 /\ h.header_size = 152))

IsQuantized(h) ==
  h.numeric = "quantized" /\ (IsV3(h) \/ (h.version = 2 /\ h.header_size = 184))

ClaimedShape(h) ==
  [vocab |-> h.vocab, embedding |-> h.embedding, heads |-> h.heads,
   layers |-> h.layers, sequence |-> h.sequence,
   flags |-> IF IsV3(h) THEN h.flags ELSE {}]

(* Mutant: the stored checksum is not compared.                            *)
HeaderIntact_Unchecked(f) == TRUE

HeaderIntact(f) == f.sum = f.fields

(* The dimensions, sizes and flags both loaders require of a header.       *)
ClaimsValid(h) ==
  /\ IsV3(h) => (h.flags # {} /\ h.reserved = 0)
  /\ BundleShapeValid(ClaimedShape(h), h.total)
  /\ h.tokenizer_bytes >= 24
  /\ h.window \in 1..h.sequence
  /\ IsFloat(h) => h.weight_bytes = h.total * 4
  /\ (IsV3(h) /\ IsFloat(h)) =>
       (h.policy = NoPolicy /\ h.tensors = 0 /\ h.values = 0 /\ h.scales = 0)

QuantizationClaimsValid(h) ==
  /\ PolicyValid(h.policy)
  /\ h.tensors # 0
  /\ h.values <= h.total

SizeMatches(f) ==
  f.size = f.fields.header_size + f.fields.weight_bytes
             + f.fields.tokenizer_bytes + FooterSize

(* A section's checksum is taken over as many bytes as the header claims.  *)
WeightsIntact(f) ==
  f.fields.weight_bytes = f.weights.bytes /\ f.fields.weight_sum = f.weights

TokenizerIntact(f) ==
  f.fields.tokenizer_bytes = f.tokenizer.bytes /\ f.fields.tokenizer_sum = f.tokenizer

(* The payload read with the header's policy: every tensor's record is the *)
(* one expected there, its codes decode, the totals agree and nothing is   *)
(* left over.                                                              *)
PayloadParses(f) ==
  LET h == f.fields
      s == ClaimedShape(h)
      ts == Tensors(s)
  IN  IF IsFloat(h) THEN h.weight_bytes = 4 * ParamCount(s)
      ELSE /\ h.tensors = Len(ts)
           /\ Records(f.weights.shape, f.weights.policy) = Records(s, h.policy)
           /\ \A i \in DOMAIN ts :
                TensorBytes(ts[i], h.policy) = TensorBytes(ts[i], f.weights.policy)
           /\ f.weights.unpackable
           /\ h.values = QuantizedValues(s, h.policy)
           /\ h.scales = ScalesStored(s, h.policy)
           /\ h.weight_bytes = QuantizedBytes(s, h.policy)

(* model_bundle_load; memory |-> FALSE when an allocation fails.           *)
CopyError(f, memory) ==
  LET h == f.fields
  IN     Check(f.size >= 8 /\ h.magic, "NOT_BUNDLE")
      && Check(f.size >= 24, "FORMAT_ERROR")
      && Check(IsFloat(h) \/ IsQuantized(h), "UNSUPPORTED")
      && Check(f.size >= h.header_size, "FORMAT_ERROR")
      && Check(HeaderIntact(f), "CHECKSUM_ERROR")
      && Check(h.marker, "UNSUPPORTED")
      && Check(ClaimsValid(h), "FORMAT_ERROR")
      && Check(IsQuantized(h) => QuantizationClaimsValid(h), "FORMAT_ERROR")
      && Check(SizeMatches(f), "FORMAT_ERROR")
      && Check(WeightsIntact(f), "CHECKSUM_ERROR")
      && Check(memory, "ALLOCATION_FAILURE")
      && Check(ModelAccepts(ClaimedShape(h)), "FORMAT_ERROR")
      && Check(PayloadParses(f), "FORMAT_ERROR")
      && Check(f.footer, "FORMAT_ERROR")
      && Check(TokenizerIntact(f), "CHECKSUM_ERROR")
      && Check(f.tokenizer.vocab = h.vocab, "FORMAT_ERROR")

(* model_bundle_load_mmap up to the construction of the model.             *)
MapError(f) ==
  LET h == f.fields
  IN     Check(f.size >= 8, "NOT_BUNDLE")
      && Check(h.magic, "NOT_BUNDLE")
      && Check(f.size >= 160, "FORMAT_ERROR")
      && Check(IsFloat(h), "UNSUPPORTED")
      && Check(h.marker, "UNSUPPORTED")
      && Check(f.size >= h.header_size + 8, "FORMAT_ERROR")
      && Check(HeaderIntact(f), "CHECKSUM_ERROR")
      && Check(ClaimsValid(h), "FORMAT_ERROR")
      && Check(SizeMatches(f), "FORMAT_ERROR")
      && Check(WeightsIntact(f) /\ TokenizerIntact(f), "CHECKSUM_ERROR")
      && Check(f.footer, "FORMAT_ERROR")
      && Check(f.tokenizer.vocab = h.vocab, "FORMAT_ERROR")

(* The model a loader returns.                                             *)
LoadedModel(f) ==
  [shape |-> ClaimedShape(f.fields), values |-> f.weights.values,
   provenance |-> f.fields.provenance, window |-> f.fields.window,
   tokenizer |-> f.tokenizer]

MapSucceeds(f) ==
  MapError(f) = "SUCCESS" /\ ModelAccepts(ClaimedShape(f.fields))

-----------------------------------------------------------------------------
(* Properties of a file.                                                   *)

(* The mapping loader accepts exactly the float32 files the copying loader *)
(* accepts, though it makes the same checks in another order and place.    *)
LoadersAgreeOn(f) ==
  MapSucceeds(f) <=> (CopyError(f, TRUE) = "SUCCESS" /\ IsFloat(f.fields))

(* A file a loader accepts has every parameter of the model it claims, no  *)
(* more and no less, whatever its header says and whoever sealed it: no    *)
(* read past the payload and no parameter left at its initial value.       *)
ClaimsFitPayload(f) ==
  CopyError(f, TRUE) = "SUCCESS" =>
    /\ f.fields.total = ParamCount(ClaimedShape(f.fields))
    /\ f.weights.bytes =
         IF IsFloat(f.fields) THEN 4 * f.fields.total
         ELSE QuantizedBytes(ClaimedShape(f.fields), f.fields.policy)
    /\ f.tokenizer.vocab = f.fields.vocab
    /\ ModelAccepts(ClaimedShape(f.fields))
=============================================================================
