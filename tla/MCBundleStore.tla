--------------------------- MODULE MCBundleStore ---------------------------
(* Small instances of BundleStore for TLC.                                 *)
EXTENDS BundleStore, TLC

CONSTANTS a, b

MCProcs == {a, b}
Symmetry == Permutations(MCProcs)

Tokenizer(vocab) == [id |-> "tok", vocab |-> vocab, bytes |-> 25, frozen |-> TRUE]

Shape(flags, sequence) ==
  [vocab |-> 3, embedding |-> 2, heads |-> 1, layers |-> 1,
   sequence |-> sequence, flags |-> flags]

Trained(shape) ==
  [shape |-> shape, values |-> <<[op |-> "init"]>>, provenance |-> "run",
   window |-> 2, tokenizer |-> Tokenizer(shape.vocab)]

(* A model with every kind of flag that changes the layout.                *)
MCModels == {Trained(Shape({"TIED", "RMSNORM", "SWIGLU"}, 4))}

MCPolicies ==
  {[bits |-> 3, granularity |-> "column", embeddings |-> TRUE,
    biases_and_norms |-> FALSE]}

(* The path may hold an older bundle of either kind, whose header is of    *)
(* the first, the second or the third version, or a legacy model.          *)
OlderFlat == [Trained(Shape({}, 4)) EXCEPT !.provenance = "older"]
MCOldModels ==
  {[Trained(Shape({"ROPE"}, 4)) EXCEPT !.provenance = "older"], OlderFlat}
MCOldPolicies ==
  {[bits |-> 4, granularity |-> "row", embeddings |-> FALSE, biases_and_norms |-> TRUE]}
MCLegacyModels == {OlderFlat}

MCSidecar == Tokenizer(3)

(* One field of the header changed; versions 1 and 2 have no later fields.  *)
CommonEdits(h) ==
  {[h EXCEPT !.version = v] : v \in 1..4}
    \cup {[h EXCEPT !.numeric = n] : n \in {"float32", "quantized", "unknown"}}
    \cup {[h EXCEPT !.header_size = n] : n \in {152, 184, 192, 200}}
    \cup {[h EXCEPT !.magic = FALSE], [h EXCEPT !.marker = FALSE],
          [h EXCEPT !.vocab = @ + 1],
          [h EXCEPT !.layers = 0], [h EXCEPT !.layers = 2],
          [h EXCEPT !.total = @ + 1], [h EXCEPT !.total = 0],
          [h EXCEPT !.window = 0], [h EXCEPT !.window = 5],
          [h EXCEPT !.provenance = "edited"],
          [h EXCEPT !.weight_bytes = @ + 4], [h EXCEPT !.weight_bytes = @ - 4],
          [h EXCEPT !.tokenizer_bytes = 23], [h EXCEPT !.tokenizer_bytes = @ + 1],
          [h EXCEPT !.weight_sum.values = << >>],
          [h EXCEPT !.tokenizer_sum.id = "other"]}
    \cup {[h EXCEPT !.embedding = n] : n \in 0..1}
    \cup {[h EXCEPT !.heads = n] : n \in {0, 2, 3}}
    \cup {[h EXCEPT !.sequence = n] : n \in {0, 1, 5, 1000}}

PolicyEdits(h) ==
  {[h EXCEPT !.policy.bits = n] : n \in {1, 2, 5}}
    \cup {[h EXCEPT !.policy.granularity = g] :
            g \in {"tensor", "row", "column", "unknown"}}
    \cup {[h EXCEPT !.policy.embeddings = ~@],
          [h EXCEPT !.tensors = 0], [h EXCEPT !.tensors = @ + 1],
          [h EXCEPT !.values = @ + 1], [h EXCEPT !.scales = @ + 1]}

FlagEdits(h) ==
  {[h EXCEPT !.reserved = 1]}
    \cup {[h EXCEPT !.flags = s] :
            s \in {{}, {"TIED"}, {"ROPE"}, {"GELU"}, {"GELU", "SWIGLU"},
                   {"RMSNORM"}, {"UNKNOWN"}}}

FieldEdits(f) ==
  LET h == f.fields
  IN  (CommonEdits(h) \cup (IF h.version >= 2 THEN PolicyEdits(h) ELSE {})
         \cup (IF h.version = 3 THEN FlagEdits(h) ELSE {})) \ {h}

SectionEdits(f) ==
  {[f EXCEPT !.weights.values = << >>], [f EXCEPT !.tokenizer.id = "other"],
   [f EXCEPT !.footer = FALSE], [f EXCEPT !.size = @ + 1], [f EXCEPT !.size = @ - 1],
   [f EXCEPT !.size = f.fields.header_size], [f EXCEPT !.size = 23],
   [f EXCEPT !.size = 7], [f EXCEPT !.sum.provenance = "damaged"]}

(* Two fields changed together so that the file's length still fits.       *)
ShiftedEdits(f) ==
  LET h == f.fields
  IN  {[h EXCEPT !.weight_bytes = @ + 1, !.tokenizer_bytes = @ - 1],
       [h EXCEPT !.embedding = 1, !.vocab = 2 * @],
       [h EXCEPT !.vocab = @ + 1, !.total = @ + (IF "TIED" \in h.flags THEN 3 ELSE 5)]}

MCEdits(f) ==
  {[f EXCEPT !.fields = h] : h \in FieldEdits(f)}
    \cup SectionEdits(f)
    \cup {[f EXCEPT !.fields = h, !.sum = h] : h \in FieldEdits(f) \cup ShiftedEdits(f)}
    \cup {[f EXCEPT !.tokenizer.vocab = @ + 1, !.fields.tokenizer_sum.vocab = @ + 1,
                    !.sum = [@ EXCEPT !.tokenizer_sum.vocab = @ + 1]],
          [f EXCEPT !.weights.unpackable = FALSE, !.fields.weight_sum.unpackable = FALSE,
                    !.sum = [@ EXCEPT !.weight_sum.unpackable = FALSE]]}
=============================================================================
