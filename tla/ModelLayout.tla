---------------------------- MODULE ModelLayout ----------------------------
(***************************************************************************)
(* The flat parameter buffer of a model, which the source describes four   *)
(* times: model_new counts it, layout_layer carves it into views,          *)
(* model_param_tensors lists its tensors and bundle_shape_valid counts it  *)
(* again before a bundle is accepted. Next to it, which tensors a          *)
(* quantization policy stores as packed codes, and how large that is.      *)
(* A shape is [vocab, embedding, heads, layers, sequence, flags], its      *)
(* flags a set of architecture choices.                                    *)
(***************************************************************************)
EXTENDS Sums, Sequences

CONSTANT SizeMax   (* SIZE_MAX and UINT64_MAX, scaled down with the shapes. *)

ASSUME ModelLayoutAssumption == SizeMax \in Nat \ {0}

Flags == {"TIED", "ROPE", "RMSNORM", "GELU", "SWIGLU"}

(* A shape's dimensions are natural numbers.                               *)
Dimensions(s) ==
  /\ s.vocab \in Nat /\ s.embedding \in Nat /\ s.heads \in Nat
  /\ s.layers \in Nat /\ s.sequence \in Nat

(* A checked multiplication or addition that does not overflow.            *)
Fits(n) == n <= SizeMax

When(condition, items) == IF condition THEN items ELSE << >>

-----------------------------------------------------------------------------
(* model_new: the count, what it refuses, and the views.                   *)

FlagsCompatible(flags) == ~({"GELU", "SWIGLU"} \subseteq flags)

(* Mutant: the second beta vector of a layer is not counted.               *)
LayerLinearFactor_OneBeta(flags) ==
  (IF "RMSNORM" \in flags THEN 7 ELSE 8) + (IF "SWIGLU" \in flags THEN 4 ELSE 0)

LayerSquareFactor(flags) == IF "SWIGLU" \in flags THEN 16 ELSE 12

LayerLinearFactor(flags) ==
  (IF "RMSNORM" \in flags THEN 7 ELSE 9) + (IF "SWIGLU" \in flags THEN 4 ELSE 0)

LayerCount(s) ==
  s.embedding * s.embedding * LayerSquareFactor(s.flags)
    + s.embedding * LayerLinearFactor(s.flags)

GlobalCount(s) ==
  s.vocab * s.embedding * (IF "TIED" \in s.flags THEN 1 ELSE 2) + s.vocab

(* total_param_count as model_new computes it.                             *)
ParamCount(s) == GlobalCount(s) + s.layers * LayerCount(s)

(* Every size the activation caches and scratch buffers are allocated by.  *)
BufferSizes(s) ==
  {s.sequence * s.embedding * 4, s.heads * s.sequence * s.sequence,
   s.sequence * s.vocab}

(* The shapes model_new accepts when no allocation fails. Each product fits*)
(* because the largest one does; sizes are in floats of 4 bytes.           *)
ModelAccepts(s) ==
  /\ s.vocab > 0 /\ s.embedding > 0 /\ s.heads > 0
  /\ s.layers > 0 /\ s.sequence > 0
  /\ s.embedding % s.heads = 0
  /\ s.flags \subseteq Flags
  /\ FlagsCompatible(s.flags)
  /\ "ROPE" \in s.flags => (s.embedding \div s.heads) % 2 = 0
  /\ Fits(ParamCount(s) * 4)
  /\ \A size \in BufferSizes(s) : Fits(size * 4)

View(name, size) == [name |-> name, size |-> size]

(* layout_layer: the views of one layer in the order it carves them.       *)
LayoutLayer(s) ==
  LET e == s.embedding
      f == 4 * e
      norm(gamma, beta) ==
        <<View(gamma, e)>> \o When("RMSNORM" \notin s.flags, <<View(beta, e)>>)
  IN  <<View("W_q", e * e), View("W_k", e * e), View("W_v", e * e), View("W_o", e * e)>>
        \o norm("ln_gamma_attn", "ln_beta_attn")
        \o <<View("W_ff1", e * f), View("b_ff1", f)>>
        \o When("SWIGLU" \in s.flags, <<View("W_ff_gate", e * f), View("b_ff_gate", f)>>)
        \o <<View("W_ff2", f * e), View("b_ff2", e)>>
        \o norm("ln_gamma_ffn", "ln_beta_ffn")

LayoutGlobals(s) ==
  <<View("token_embeddings", s.vocab * s.embedding)>>
    \o When("TIED" \notin s.flags,
            <<View("output_projection", s.embedding * s.vocab)>>)
    \o <<View("output_bias", s.vocab)>>

-----------------------------------------------------------------------------
(* model_param_tensors.                                                    *)

Tensor(name, rows, cols, kind) ==
  [name |-> name, rows |-> rows, cols |-> cols, kind |-> kind]

GlobalTensors(s) ==
  <<Tensor("token_embeddings", s.vocab, s.embedding, "embedding")>>
    \o When("TIED" \notin s.flags,
            <<Tensor("output_projection", s.embedding, s.vocab, "projection")>>)
    \o <<Tensor("output_bias", 1, s.vocab, "bias")>>

LayerTensors(s) ==
  LET e == s.embedding
      f == 4 * e
      square(name) == Tensor(name, e, e, "projection")
      norm(gamma, beta) ==
        <<Tensor(gamma, 1, e, "norm")>>
          \o When("RMSNORM" \notin s.flags, <<Tensor(beta, 1, e, "norm")>>)
  IN  <<square("W_q"), square("W_k"), square("W_v"), square("W_o")>>
        \o norm("ln_gamma_attn", "ln_beta_attn")
        \o <<Tensor("W_ff1", e, f, "projection"), Tensor("b_ff1", 1, f, "bias")>>
        \o When("SWIGLU" \in s.flags,
                <<Tensor("W_ff_gate", e, f, "projection"),
                  Tensor("b_ff_gate", 1, f, "bias")>>)
        \o <<Tensor("W_ff2", f, e, "projection"), Tensor("b_ff2", 1, e, "bias")>>
        \o norm("ln_gamma_ffn", "ln_beta_ffn")

(* The inventory of the whole model: the globals, then every layer.        *)
Tensors(s) ==
  LET globals == GlobalTensors(s)
      layer == LayerTensors(s)
      n == Len(globals)
  IN  [i \in 1..(n + s.layers * Len(layer)) |->
         IF i <= n THEN globals[i] ELSE layer[((i - n - 1) % Len(layer)) + 1]]

(* The views of the whole model, likewise.                                 *)
Views(s) ==
  LET globals == LayoutGlobals(s)
      layer == LayoutLayer(s)
      n == Len(globals)
  IN  [i \in 1..(n + s.layers * Len(layer)) |->
         IF i <= n THEN globals[i] ELSE layer[((i - n - 1) % Len(layer)) + 1]]

Values(t) == t.rows * t.cols

-----------------------------------------------------------------------------
(* bundle_shape_valid.                                                     *)

(* Mutant: the attention cache is bounded by the embedding only.           *)
BundleShapeValid_NoTotal(s, total) ==
  /\ s.flags \subseteq Flags
  /\ FlagsCompatible(s.flags)
  /\ s.vocab > 0 /\ s.embedding > 0 /\ s.heads > 0
  /\ s.layers > 0 /\ s.sequence > 0
  /\ s.embedding % s.heads = 0
  /\ s.heads * s.sequence * s.sequence <= 64 * total

(* The dimensions and the count a bundle header claims.                    *)
BundleShapeValid(s, total) ==
  LET square == IF "SWIGLU" \in s.flags THEN 16 ELSE 12
      linear == (IF "RMSNORM" \in s.flags THEN 7 ELSE 9)
                  + (IF "SWIGLU" \in s.flags THEN 4 ELSE 0)
      global == s.vocab * s.embedding * (IF "TIED" \in s.flags THEN 1 ELSE 2) + s.vocab
      layer == square * s.embedding * s.embedding + linear * s.embedding
      attention_cache == s.heads * s.sequence * s.sequence
  IN  /\ s.flags \subseteq Flags
      /\ FlagsCompatible(s.flags)
      /\ s.vocab > 0 /\ s.embedding > 0 /\ s.heads > 0
      /\ s.layers > 0 /\ s.sequence > 0
      /\ s.embedding % s.heads = 0
      /\ Fits(global + s.layers * layer)
      /\ total = global + s.layers * layer
      /\ Fits(attention_cache)
      /\ Fits(total * 64)
      /\ attention_cache <= total * 64

-----------------------------------------------------------------------------
(* What a quantization policy makes of the inventory. A policy is          *)
(* [bits, granularity, embeddings, biases_and_norms].                      *)

(* model_quantize_includes, for bits in 2..16.                             *)
QuantizeIncludes(policy, kind) ==
  \/ kind = "projection"
  \/ kind = "embedding" /\ policy.embeddings
  \/ kind \in {"bias", "norm"} /\ policy.biases_and_norms

ScaleCount(rows, cols, granularity) ==
  CASE granularity = "tensor" -> 1
    [] granularity = "row" -> rows
    [] granularity = "column" -> cols

PackedSize(count, bits) == (count * bits + 7) \div 8

(* The 32-byte record that precedes every tensor of a quantized payload.   *)
Record(t, policy) ==
  [kind |-> t.kind, rows |-> t.rows, cols |-> t.cols,
   storage |-> IF QuantizeIncludes(policy, t.kind) THEN "quantized" ELSE "float"]

Records(s, policy) == [i \in DOMAIN Tensors(s) |-> Record(Tensors(s)[i], policy)]

TensorBytes(t, policy) ==
  IF QuantizeIncludes(policy, t.kind)
  THEN 4 * ScaleCount(t.rows, t.cols, policy.granularity)
         + PackedSize(Values(t), policy.bits)
  ELSE 4 * Values(t)

(* weight_bytes of a quantized bundle.                                     *)
QuantizedBytes(s, policy) ==
  LET ts == Tensors(s)
  IN  SumOf([i \in DOMAIN ts |-> 32 + TensorBytes(ts[i], policy)], Len(ts))

(* values_quantized and scales_stored.                                     *)
QuantizedValues(s, policy) ==
  LET ts == Tensors(s)
      value(t) == IF QuantizeIncludes(policy, t.kind) THEN Values(t) ELSE 0
  IN  SumOf([i \in DOMAIN ts |-> value(ts[i])], Len(ts))

ScalesStored(s, policy) ==
  LET ts == Tensors(s)
      scales(t) == IF QuantizeIncludes(policy, t.kind)
                   THEN ScaleCount(t.rows, t.cols, policy.granularity) ELSE 0
  IN  SumOf([i \in DOMAIN ts |-> scales(ts[i])], Len(ts))

-----------------------------------------------------------------------------
(* Properties of a shape.                                                  *)

(* The views and the listed tensors are the same pieces in the same order, *)
(* so they start at the same offsets, and they fill the buffer exactly:    *)
(* a gap would leave parameters that are saved but never trained, an       *)
(* overlap two tensors that train each other.                              *)
DescriptionsAgree(s) ==
  LET ts == Tensors(s)
      vs == Views(s)
  IN  /\ Len(ts) = Len(vs)
      /\ \A i \in DOMAIN ts : ts[i].name = vs[i].name /\ Values(ts[i]) = vs[i].size
      /\ SumOf([i \in DOMAIN vs |-> vs[i].size], Len(vs)) = ParamCount(s)

(* bundle_shape_valid accepts the count of a model_new model and no other, *)
(* and whatever it accepts is not refused for its size later.              *)
CountIsPinned(s, total) ==
  BundleShapeValid(s, total) => total = ParamCount(s)
=============================================================================
