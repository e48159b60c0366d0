---------------------------- MODULE TrainingStep ----------------------------
(***************************************************************************)
(* The gradient of a training step: the forward pass of the layer stack    *)
(* with its attention and padding masks, the two losses, and the hand      *)
(* written backward pass through the head, the layers and the embeddings,  *)
(* with the scratch buffers it reuses, accumulated over a minibatch.       *)
(*                                                                         *)
(* A row of a buffer is one number modulo Modulo, and what a parameter or  *)
(* a cache holds is any number that depends on its name, its place and the *)
(* pass or the update that wrote it; heads and columns of a row are        *)
(* abstracted. The gradient a parameter should receive is computed the     *)
(* other way round, by pushing a tangent of that parameter forward through *)
(* the network, and the two must agree: reverse mode against forward mode. *)
(***************************************************************************)
EXTENDS Sums, Sequences, FiniteSets

CONSTANTS
  Nets,        (* [layers, flags, dropout]: the architectures. *)
  Windows,     (* [len, tokens, targets, padding, blocked]: inputs and masks. *)
  MaxLen,      (* max_seq_len: the rows of a buffer. *)
  VocabSize,   (* Token ids count from 1 here, from 0 in the code. *)
  Content,     (* What a parameter or a cache holds. *)
  Most,        (* Bound: the largest index of Content. *)
  Modulo,      (* Every number is taken modulo this one. *)
  MaxPasses,   (* Bound: forward passes of one behaviour. *)
  MaxSteps     (* Bound: optimizer steps of one behaviour. *)

Vocab == 1..VocabSize   (* Any other target is LM_HEAD_IGNORE_TARGET. *)
Positions == 1..MaxLen

Holders ==
  {"E", "W_out", "W_q", "W_k", "W_v", "W_o", "gamma_attn", "gamma_ffn", "W_ff1", "W_ff_gate",
   "W_ff2", "hidden", "x1", "Q", "K", "V", "concat", "probs", "ff_hidden", "slope", "silu",
   "gate", "xhat_attn", "xhat_ffn", "std_attn", "std_ffn", "mask_attn", "mask_ffn", "rope",
   "grad", "mean", "heap"}

IsNet(n) ==
  n.layers \in 1..(Most - 1) /\ n.flags \subseteq {"TIED", "RMSNORM", "SWIGLU", "GELU", "ROPE"}
    /\ n.dropout \in BOOLEAN

WindowType ==
  [len : Positions, tokens : Seq(Nat), targets : Seq(Nat), padding : SUBSET Positions,
   blocked : SUBSET (Positions \X Positions)]

ASSUME TrainingStepAssumption ==
  /\ Modulo \in Nat \ {0, 1}
  /\ {MaxLen, VocabSize, MaxPasses, MaxSteps} \subseteq 1..Most
  /\ Most \in Nat
  /\ \A n \in Nets : IsNet(n)
  /\ Windows \subseteq WindowType
  /\ Content \in [Holders \X (0..Most) \X (0..Most) \X (0..Most) \X (0..Most) -> Int]

VARIABLES
  net,      (* The architecture of this model. *)
  grads,    (* model->grads, one number per parameter. *)
  ws,       (* The backward scratch buffers, by row. *)
  pass,     (* The forward pass the activation caches hold. *)
  phase,    (* The stage that comes next, or "idle", "applied" or "failed". *)
  layer,    (* The layer the backward pass works on. *)
  seen,     (* The passes accumulated since the gradients were zeroed. *)
  passes,   (* Forward passes made. *)
  adam,     (* [moments, t]: adam_m and adam_v allocated, adam_t. *)
  steps     (* training_steps, also the version of the parameters. *)

stepRest == <<net, pass, seen, passes, adam, steps>>
stepVars == <<net, grads, ws, pass, phase, layer, seen, passes, adam, steps>>

Reduced(x) == x % Modulo

(* A function on 1..n as the sequence it is, its values computed once.     *)
Listed(f) == f \o << >>

-----------------------------------------------------------------------------
(* What one forward pass p leaves in the caches.                           *)

Uses(p, flag) == flag \in p.net.flags
RowsOf(p) == 1..p.window.len
Padded(p, i) == i \in p.window.padding
TokenAt(p, i) == IF p.window.tokens[i] \in Vocab THEN p.window.tokens[i] ELSE 1

Weight(p, name, l) == Content[<<name, l, 0, 0, p.steps>>]
Cached(p, name, l, i) == Content[<<name, l, i, 0, p.draw>>]

(* The sums over the rows of a pass, and over the vocabulary.              *)
RowSum(p, f) == SumOf(f, p.window.len)
VocabSum(f) == SumOf(f, VocabSize)

(* prepare_attention_mask: causal, both ends real, not masked out.         *)
Allowed(p, i, j) ==
  j <= i /\ ~Padded(p, i) /\ ~Padded(p, j) /\ <<i, j>> \notin p.window.blocked

(* zero_padded_rows.                                                       *)
CachedOrZero(p, name, l, i) == IF Padded(p, i) THEN 0 ELSE Cached(p, name, l, i)

(* A fully masked row has no probabilities, and so a zero context.         *)
Probs(p, l, i, j) == IF Allowed(p, i, j) THEN Content[<<"probs", l, i, j, p.draw>>] ELSE 0
Concat(p, l, i) ==
  IF \E j \in RowsOf(p) : Allowed(p, i, j) THEN Cached(p, "concat", l, i) ELSE 0

(* dropout_forward: the kept rows are scaled, a rate of zero keeps all.    *)
Dropout(p, name, l, i) == IF p.net.dropout THEN Cached(p, name, l, i) ELSE 1

(* rope_rotate, forward and inverse, are each other's adjoint.             *)
Rotation(p, i) == IF Uses(p, "ROPE") THEN Content[<<"rope", 0, i, 0, 0>>] ELSE 1

(* The two norms of a layer: the names of their parameters and caches.     *)
AttnNames == [gamma |-> "gamma_attn", beta |-> "beta_attn", xhat |-> "xhat_attn", std |-> "std_attn"]
FfnNames == [gamma |-> "gamma_ffn", beta |-> "beta_ffn", xhat |-> "xhat_ffn", std |-> "std_ffn"]

(* The derivative of a normalized row by its input, from xhat and std.     *)
NormSlope(p, names, l, i) ==
  Reduced(Weight(p, names.gamma, l) *
          (Cached(p, names.std, l, i)
             + (IF Uses(p, "RMSNORM") THEN 1 ELSE 2) * Cached(p, names.xhat, l, i)))

(* The slopes of the activation by its two inputs.                         *)
SlopeByInput(p, l, i) ==
  IF Uses(p, "SWIGLU") THEN Reduced(Cached(p, "gate", l, i) * Cached(p, "slope", l, i))
  ELSE IF Uses(p, "GELU") THEN Cached(p, "slope", l, i)
  ELSE Cached(p, "ff_hidden", l, i) + 1
SlopeByGate(p, l, i) == Cached(p, "silu", l, i)

Supervised(p, i) ==
  IF p.kind = "last" THEN i = p.window.len
  ELSE ~Padded(p, i) /\ p.window.targets[i] \in Vocab

(* dL/dlogits: softmax minus onehot over the number of supervised rows.    *)
GradLogits(p, i, v) == IF Supervised(p, i) THEN Cached(p, "grad", v, i) ELSE 0

HeadName(p) == IF Uses(p, "TIED") THEN "E" ELSE "W_out"

-----------------------------------------------------------------------------
(* The reference: the tangent of the loss along one parameter, which is a  *)
(* name with the layer or the token it belongs to.                         *)

LayerParams(n) ==
  {"W_q", "W_k", "W_v", "W_o", "gamma_attn", "gamma_ffn", "W_ff1", "b_ff1", "W_ff2", "b_ff2"}
    \cup (IF "RMSNORM" \in n.flags THEN {} ELSE {"beta_attn", "beta_ffn"})
    \cup (IF "SWIGLU" \in n.flags THEN {"W_ff_gate", "b_ff_gate"} ELSE {})

Params(n) ==
  (LayerParams(n) \X (1..n.layers)) \cup ({"E", "output_bias"} \X Vocab)
    \cup (IF "TIED" \in n.flags THEN {} ELSE {"W_out"} \X Vocab)

Along(param, name, l) == IF param = <<name, l>> THEN 1 ELSE 0

(* The tangent of a product with the weight called name, from that of its  *)
(* input, t.                                                               *)
Linear(p, param, name, l, t, input) ==
  Reduced(Weight(p, name, l) * t + Along(param, name, l) * input)

(* Of a product of the rows of one cache, for rows with tangents x.        *)
Projection(p, param, name, l, x, cache) ==
  Listed([i \in RowsOf(p) |-> Linear(p, param, name, l, x[i], CachedOrZero(p, cache, l, i))])

Rotated(p, f) == Listed([i \in RowsOf(p) |-> Reduced(Rotation(p, i) * f[i])])

ScoreTangent(p, l, q, k) ==
  Listed([i \in RowsOf(p) |-> Listed([j \in RowsOf(p) |->
    Reduced(q[i] * Cached(p, "K", l, j) + k[j] * Cached(p, "Q", l, i))])])

(* Softmax, then the product with the values.                              *)
ProbTangent(p, l, s, i, j) ==
  Reduced(Probs(p, l, i, j) *
          (s[i][j] - Reduced(RowSum(p, [n \in RowsOf(p) |-> Probs(p, l, i, n) * s[i][n]]))))
ContextTangent(p, l, s, v) ==
  Listed([i \in RowsOf(p) |-> Reduced(RowSum(p, [j \in RowsOf(p) |->
    ProbTangent(p, l, s, i, j) * Cached(p, "V", l, j) + Probs(p, l, i, j) * v[j]]))])

AttnOutTangent(p, param, l, c) ==
  Listed([i \in RowsOf(p) |-> Linear(p, param, "W_o", l, c[i], Concat(p, l, i))])

(* Dropout, the residual and the norm, at the end of each half.            *)
NormTangent(p, param, l, names, mask, out, x) ==
  Listed([i \in RowsOf(p) |->
    IF Padded(p, i) THEN 0
    ELSE Reduced(NormSlope(p, names, l, i) * Reduced(Dropout(p, mask, l, i) * out[i] + x[i])
                   + Along(param, names.gamma, l) * Cached(p, names.xhat, l, i)
                   + Along(param, names.beta, l))])

AttnTangent(p, param, l, x) ==
  LET q == Rotated(p, Projection(p, param, "W_q", l, x, "hidden"))
      k == Rotated(p, Projection(p, param, "W_k", l, x, "hidden"))
      v == Projection(p, param, "W_v", l, x, "hidden")
      c == ContextTangent(p, l, ScoreTangent(p, l, q, k), v)
  IN  NormTangent(p, param, l, AttnNames, "mask_attn", AttnOutTangent(p, param, l, c), x)

(* An input of the activation, with its bias; the activation; its output.  *)
InputTangent(p, param, l, weight, bias, x1) ==
  LET f == Projection(p, param, weight, l, x1, "x1")
  IN  Listed([i \in RowsOf(p) |-> f[i] + Along(param, bias, l)])
ActTangent(p, l, up, side) ==
  Listed([i \in RowsOf(p) |->
    Reduced(SlopeByInput(p, l, i) * up[i]
              + (IF Uses(p, "SWIGLU") THEN SlopeByGate(p, l, i) * side[i] ELSE 0))])
FfnOutTangent(p, param, l, a) ==
  Listed([i \in RowsOf(p) |->
    Linear(p, param, "W_ff2", l, a[i], Cached(p, "ff_hidden", l, i)) + Along(param, "b_ff2", l)])

FfnTangent(p, param, l, x1) ==
  LET up == InputTangent(p, param, l, "W_ff1", "b_ff1", x1)
      side == InputTangent(p, param, l, "W_ff_gate", "b_ff_gate", x1)
      a == ActTangent(p, l, up, side)
  IN  NormTangent(p, param, l, FfnNames, "mask_ffn", FfnOutTangent(p, param, l, a), x1)

LayerTangent(p, param, l, x) == FfnTangent(p, param, l, AttnTangent(p, param, l, x))

EmbeddingTangent(p, param) ==
  [i \in RowsOf(p) |-> IF Padded(p, i) THEN 0 ELSE Along(param, "E", TokenAt(p, i))]

(* The tangents of the rows each layer leaves, the embeddings' at 0.       *)
HiddenTangents(p, param) ==
  LET hidden[l \in 0..p.net.layers] ==
        IF l = 0 THEN EmbeddingTangent(p, param) ELSE LayerTangent(p, param, l, hidden[l - 1])
  IN  hidden

LogitTangent(p, param, top, i, v) ==
  Reduced(Weight(p, HeadName(p), v) * top[i]
            + Along(param, HeadName(p), v) * CachedOrZero(p, "hidden", p.net.layers + 1, i)
            + Along(param, "output_bias", v))

Tangent(p, param) ==
  LET top == HiddenTangents(p, param)[p.net.layers]
  IN  Reduced(RowSum(p, [i \in RowsOf(p) |-> Reduced(VocabSum([v \in Vocab |->
        GradLogits(p, i, v) * LogitTangent(p, param, top, i, v)]))]))

-----------------------------------------------------------------------------
(* The step as the code takes it.                                          *)

(* The buffers are malloc'ed and hold anything at first.                   *)
Heap == [i \in Positions |-> Content[<<"heap", 0, i, 0, 0>>]]

Scratch == [in |-> Heap, out |-> Heap, s2 |-> Heap, drop |-> Heap, x1 |-> Heap, hidden |-> Heap,
            gate |-> Heap, concat |-> Heap, scores |-> << >>, q |-> Heap, k |-> Heap, v |-> Heap]

NoGrads == [param \in Params(net) |-> 0]

StepInit ==
  /\ net \in Nets
  /\ grads = NoGrads
  /\ ws = Scratch
  /\ pass = << >>
  /\ phase = "idle" /\ layer = 0 /\ seen = << >> /\ passes = 0
  /\ adam = [moments |-> FALSE, t |-> 0]
  /\ steps = 0

(* The gradients g with term added to that of one parameter.               *)
Plus(g, param, term) == [g EXCEPT ![param] = Reduced(@ + term)]

(* Mutant: the buffer keeps what the last layer left there.                *)
Cleared_Never(p, buffer) == [i \in Positions |-> IF i \in RowsOf(p) THEN buffer[i] ELSE 0]

(* memset of the first rows of a buffer a kernel accumulates into.         *)
Cleared(p, buffer) == [i \in Positions |-> IF i \in RowsOf(p) THEN 0 ELSE buffer[i]]

(* A kernel that accumulates f[i] into the rows of this pass.              *)
Accumulate(p, buffer, f) ==
  [i \in Positions |-> IF i \in RowsOf(p) THEN Reduced(buffer[i] + f[i]) ELSE buffer[i]]

Written(p, buffer, f) == Accumulate(p, Cleared(p, buffer), f)

(* A copy over the rows of this pass.                                      *)
Copied(p, buffer, f) ==
  [i \in Positions |-> IF i \in RowsOf(p) THEN Reduced(f[i]) ELSE buffer[i]]

(* The forward pass: every row of this window in every cache is written.   *)
ForwardPass(kind, window) ==
  /\ phase = "idle" /\ passes < MaxPasses
  /\ pass' = [net |-> net, kind |-> kind, window |-> window, draw |-> passes, steps |-> steps]
  /\ passes' = passes + 1
  /\ phase' = "loss"
  /\ UNCHANGED <<net, grads, ws, layer, seen, adam, steps>>

(* model_accumulate_gradients_all_masked.                                  *)
AccumulateAll(w) == ForwardPass("all", w)

(* model_accumulate_gradients: no mask, one target that must be a token.   *)
AccumulateLast(w) ==
  /\ w.targets[w.len] \in Vocab
  /\ ForwardPass("last", [w EXCEPT !.padding = {}, !.blocked = {}])

(* lm_head_loss_and_grad_all_masked; no supervised row, no backward pass.  *)
Loss ==
  /\ phase = "loss"
  /\ IF \E i \in RowsOf(pass) : Supervised(pass, i)
     THEN phase' = "head" /\ seen' = seen
     ELSE phase' = "idle" /\ seen' = Append(seen, pass)
  /\ UNCHANGED <<net, grads, ws, pass, layer, passes, adam, steps>>

(* lm_head_backward_all and lm_head_project_backward, tied or not.         *)
HeadColumn(p, v) == RowSum(p, [i \in RowsOf(p) |->
  GradLogits(p, i, v) * CachedOrZero(p, "hidden", p.net.layers + 1, i)])
HeadBias(p, v) == RowSum(p, [i \in RowsOf(p) |-> GradLogits(p, i, v)])
HeadInput(p) == [i \in RowsOf(p) |->
  VocabSum([v \in Vocab |-> GradLogits(p, i, v) * Weight(p, HeadName(p), v)])]

HeadBackward ==
  /\ phase = "head"
  /\ grads' = [param \in Params(net) |->
       Reduced(grads[param] + (CASE param[1] = HeadName(pass) -> HeadColumn(pass, param[2])
                                 [] param[1] = "output_bias" -> HeadBias(pass, param[2])
                                 [] OTHER -> 0))]
  /\ ws' = [ws EXCEPT !.in = Written(pass, @, HeadInput(pass))]
  /\ layer' = net.layers
  /\ phase' = "ffn_norm"
  /\ UNCHANGED stepRest

(* The sum over the rows of what a layer was given times what came back.   *)
Dot(p, input, back) == RowSum(p, [i \in RowsOf(p) |-> input[i] * back[i]])

Ones == [i \in Positions |-> 1]
CacheRow(p, name, l) == [i \in RowsOf(p) |-> Cached(p, name, l, i)]
RealRow(p, name, l) == [i \in RowsOf(p) |-> CachedOrZero(p, name, l, i)]

Stage(from, to) == phase = from /\ phase' = to /\ UNCHANGED <<stepRest, layer>>

(* layer_norm_backward or rms_norm_backward: the gains' gradients, and the *)
(* gradient of the rows that were normalized.                              *)
NormGrads(p, g, l, names, in) ==
  LET gained == Plus(g, <<names.gamma, l>>, Dot(p, CacheRow(p, names.xhat, l), in))
  IN  IF Uses(p, "RMSNORM") THEN gained ELSE Plus(gained, <<names.beta, l>>, Dot(p, Ones, in))

NormInput(p, l, names, in) == [i \in RowsOf(p) |-> Reduced(NormSlope(p, names, l, i) * in[i])]
Dropped(p, l, mask, f) == [i \in RowsOf(p) |-> Dropout(p, mask, l, i) * f[i]]

RealRows(p, buffer) ==
  [i \in Positions |-> IF i \in RowsOf(p) /\ Padded(p, i) THEN 0 ELSE buffer[i]]

(* Padded rows stop at the top of a layer; the norm behind the feed forward*)
(* half, whose result is also what the residual carries.                   *)
FfnNorm ==
  LET in == RealRows(pass, ws.in)
      s2 == NormInput(pass, layer, FfnNames, in)
  IN  /\ Stage("ffn_norm", "ffn_out")
      /\ grads' = NormGrads(pass, grads, layer, FfnNames, in)
      /\ ws' = [ws EXCEPT !.in = in, !.s2 = Copied(pass, @, s2),
                          !.drop = Copied(pass, @, Dropped(pass, layer, "mask_ffn", s2))]

(* What one linear map hands back for what came back to it.                *)
Back(p, name, l, f) == [i \in RowsOf(p) |-> f[i] * Weight(p, name, l)]

(* The gradients of a linear map's bias and weight.                        *)
LinearGrads(p, g, l, bias, weight, input, f) ==
  Plus(Plus(g, <<bias, l>>, Dot(p, Ones, f)), <<weight, l>>, Dot(p, input, f))

(* b_ff2, W_ff2 and, over a cleared buffer, the activation's output.       *)
FfnOut ==
  /\ Stage("ffn_out", "ffn_act")
  /\ grads' = LinearGrads(pass, grads, layer, "b_ff2", "W_ff2",
                          CacheRow(pass, "ff_hidden", layer), ws.drop)
  /\ ws' = [ws EXCEPT !.hidden = Written(pass, @, Back(pass, "W_ff2", layer, ws.drop))]

(* The activation, in place; SwiGLU gives its gate a gradient of its own.  *)
ActBack(p, l, f) == [i \in RowsOf(p) |-> f[i] * SlopeByInput(p, l, i)]
GateBack(p, l, f) == [i \in RowsOf(p) |-> f[i] * SlopeByGate(p, l, i)]

FfnActivation ==
  /\ Stage("ffn_act", "ffn_in")
  /\ ws' = [ws EXCEPT !.hidden = Copied(pass, @, ActBack(pass, layer, ws.hidden)),
                      !.gate = IF Uses(pass, "SWIGLU")
                               THEN Copied(pass, @, GateBack(pass, layer, ws.hidden)) ELSE @]
  /\ UNCHANGED grads

FfnInput(p, l, hidden, gate, s2) ==
  [i \in RowsOf(p) |->
    hidden[i] * Weight(p, "W_ff1", l)
      + (IF Uses(p, "SWIGLU") THEN gate[i] * Weight(p, "W_ff_gate", l) ELSE 0) + s2[i]]

FfnIn ==
  LET input == RealRow(pass, "x1", layer)
      first == LinearGrads(pass, grads, layer, "b_ff1", "W_ff1", input, ws.hidden)
  IN  /\ Stage("ffn_in", "attn_norm")
      /\ grads' = IF Uses(pass, "SWIGLU")
                  THEN LinearGrads(pass, first, layer, "b_ff_gate", "W_ff_gate", input, ws.gate)
                  ELSE first
      /\ ws' = [ws EXCEPT !.x1 = Written(pass, @, FfnInput(pass, layer, ws.hidden, ws.gate, ws.s2))]

(* The norm behind attention; the residual goes straight to ws_dhidden_out.*)
AttnNorm ==
  LET s1 == NormInput(pass, layer, AttnNames, ws.x1)
  IN  /\ Stage("attn_norm", "attn_out")
      /\ grads' = NormGrads(pass, grads, layer, AttnNames, ws.x1)
      /\ ws' = [ws EXCEPT !.out = Copied(pass, @, s1),
                          !.drop = Copied(pass, @, Dropped(pass, layer, "mask_attn", s1))]

(* multihead_attention_backward: W_o and the heads' contexts.              *)
AttnOut ==
  /\ Stage("attn_out", "attn_probs")
  /\ grads' = Plus(grads, <<"W_o", layer>>,
                   Dot(pass, [i \in RowsOf(pass) |-> Concat(pass, layer, i)], ws.drop))
  /\ ws' = [ws EXCEPT !.concat = Written(pass, @, Back(pass, "W_o", layer, ws.drop))]

(* attention_head_backward, first half: dV, and softmax_backward by row.   *)
ProbBack(p, l, c, i, j) == Reduced(c[i] * Cached(p, "V", l, j))
ScoreBack(p, l, c, i, j) ==
  Reduced(Probs(p, l, i, j) *
          (ProbBack(p, l, c, i, j)
             - Reduced(RowSum(p, [n \in RowsOf(p) |-> Probs(p, l, i, n) * ProbBack(p, l, c, i, n)]))))
ValueBack(p, l, c) ==
  [j \in RowsOf(p) |-> RowSum(p, [i \in RowsOf(p) |-> Probs(p, l, i, j) * c[i]])]

AttnProbs ==
  /\ Stage("attn_probs", "attn_heads")
  /\ ws' = [ws EXCEPT
       !.v = Written(pass, @, ValueBack(pass, layer, ws.concat)),
       !.scores = [i \in RowsOf(pass) |-> [j \in RowsOf(pass) |->
                     ScoreBack(pass, layer, ws.concat, i, j)]]]
  /\ UNCHANGED grads

(* Second half: dQ and dK over cleared buffers, rotated back under RoPE.   *)
QueryBack(p, l, s) ==
  [i \in RowsOf(p) |-> RowSum(p, [j \in RowsOf(p) |-> s[i][j] * Cached(p, "K", l, j)])]
KeyBack(p, l, s) ==
  [j \in RowsOf(p) |-> RowSum(p, [i \in RowsOf(p) |-> s[i][j] * Cached(p, "Q", l, i)])]
RotatedBack(p, buffer) ==
  Copied(p, buffer, [i \in RowsOf(p) |-> buffer[i] * Rotation(p, i)])

AttnHeads ==
  /\ Stage("attn_heads", "attn_in")
  /\ ws' = [ws EXCEPT
       !.q = RotatedBack(pass, Written(pass, @, QueryBack(pass, layer, ws.scores))),
       !.k = RotatedBack(pass, Written(pass, @, KeyBack(pass, layer, ws.scores)))]
  /\ UNCHANGED grads

(* W_q, W_k and W_v, accumulated on the residual; the first layer scatters *)
(* into the embeddings, the others hand down to the layer below.           *)
AttnInput(p, l, q, k, v) ==
  [i \in RowsOf(p) |->
    q[i] * Weight(p, "W_q", l) + k[i] * Weight(p, "W_k", l) + v[i] * Weight(p, "W_v", l)]
Scattered(p, out, token) ==
  RowSum(p, [i \in RowsOf(p) |-> IF ~Padded(p, i) /\ TokenAt(p, i) = token THEN out[i] ELSE 0])

AttnIn ==
  LET input == RealRow(pass, "hidden", layer)
      g == Plus(Plus(Plus(grads, <<"W_q", layer>>, Dot(pass, input, ws.q)),
                     <<"W_k", layer>>, Dot(pass, input, ws.k)),
                <<"W_v", layer>>, Dot(pass, input, ws.v))
      out == Accumulate(pass, ws.out, AttnInput(pass, layer, ws.q, ws.k, ws.v))
  IN  /\ phase = "attn_in"
      /\ IF layer = 1
         THEN /\ grads' = [param \in Params(net) |->
                   IF param[1] = "E" THEN Reduced(g[param] + Scattered(pass, out, param[2]))
                   ELSE g[param]]
              /\ ws' = [ws EXCEPT !.out = out]
              /\ phase' = "idle" /\ layer' = 0 /\ seen' = Append(seen, pass)
         ELSE /\ grads' = g
              /\ ws' = [ws EXCEPT !.out = out, !.in = Copied(pass, @, out)]
              /\ phase' = "ffn_norm" /\ layer' = layer - 1 /\ UNCHANGED seen
      /\ UNCHANGED <<net, pass, passes, adam, steps>>

LayerBackward ==
  FfnNorm \/ FfnOut \/ FfnActivation \/ FfnIn
    \/ AttnNorm \/ AttnOut \/ AttnProbs \/ AttnHeads \/ AttnIn

(* model_zero_gradients, where a group begins.                             *)
Zero ==
  /\ phase = "applied" \/ (phase = "idle" /\ seen # << >>)
  /\ grads' = NoGrads /\ seen' = << >> /\ phase' = "idle"
  /\ UNCHANGED <<net, ws, pass, layer, passes, adam, steps>>

(* model_apply_accumulated_gradients and model_optimizer_step with AdamW:  *)
(* the moments are allocated at the first step, weight decay allocates at  *)
(* every step, and either may fail after the gradients were averaged.      *)
Apply(fault) ==
  /\ phase = "idle" /\ seen # << >> /\ steps < MaxSteps
  /\ fault = "moments" => ~adam.moments
  /\ grads' = [param \in Params(net) |->
                 Reduced(grads[param] * Content[<<"mean", 0, 0, 0, Len(seen)>>])]
  /\ adam' = IF fault = "moments" THEN adam ELSE [moments |-> TRUE, t |-> adam.t + 1]
  /\ IF fault = "none"
     THEN phase' = "applied" /\ steps' = steps + 1
     ELSE phase' = "failed" /\ steps' = steps
  /\ UNCHANGED <<net, ws, pass, layer, seen, passes>>

StepNext ==
  \/ \E w \in Windows : AccumulateAll(w) \/ AccumulateLast(w)
  \/ Loss \/ HeadBackward \/ LayerBackward
  \/ Zero
  \/ \E fault \in {"none", "moments", "decay"} : Apply(fault)

StepSpec == StepInit /\ [][StepNext]_stepVars

-----------------------------------------------------------------------------
(* What the windows of the group should have left in the gradient of one   *)
(* parameter.                                                              *)
Expected(group, param) ==
  Reduced(SumOf([n \in 1..Len(group) |-> Tangent(group[n], param)], Len(group)))

(* Between two windows of a group every parameter, shared ones included,   *)
(* holds exactly the sum of the derivatives of the losses of the windows   *)
(* so far: nothing stale from a scratch buffer, another layer or another   *)
(* window, nothing from padded, masked or unsupervised rows, and no path   *)
(* through a residual, a gate or an attention edge missed or taken twice   *)
(* (backward_layer_stack, multihead_attention_backward, lm_head.c).        *)
GradientMatchesTangent ==
  phase = "idle" => \A param \in Params(net) : grads[param] = Expected(seen, param)
=============================================================================
