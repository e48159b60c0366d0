----------------------------- MODULE BundleProofs -----------------------------
(***************************************************************************)
(* Proofs about ModelLayout, BundleFormat and BundleStore.                 *)
(***************************************************************************)
EXTENDS BundleStore, Parameters, Arithmetic, SequenceTheorems, TLAPS

-----------------------------------------------------------------------------
(* Lists of views and of tensors.                                          *)

Names ==
  {"token_embeddings", "output_projection", "output_bias", "W_q", "W_k", "W_v", "W_o",
   "ln_gamma_attn", "ln_beta_attn", "W_ff1", "b_ff1", "W_ff_gate", "b_ff_gate",
   "W_ff2", "b_ff2", "ln_gamma_ffn", "ln_beta_ffn"}
Kinds == {"embedding", "projection", "bias", "norm"}

PieceViews == [name : Names, size : Nat]
PieceTensors == [name : Names, rows : Nat, cols : Nat, kind : Kinds]

(* What a list of views takes.                                             *)
Total(vs) == SumOf([i \in DOMAIN vs |-> vs[i].size], Len(vs))

(* The total of two lists one behind the other.                            *)
LEMMA TotalConcat ==
  ASSUME NEW us \in Seq(PieceViews), NEW vs \in Seq(PieceViews)
  PROVE  Total(us \o vs) = Total(us) + Total(vs) /\ us \o vs \in Seq(PieceViews)
<1> DEFINE f == [i \in DOMAIN (us \o vs) |-> (us \o vs)[i].size]
           u == [i \in DOMAIN us |-> us[i].size]
           v == [i \in DOMAIN vs |-> vs[i].size]
<1>1. /\ Len(us) \in Nat /\ Len(vs) \in Nat
      /\ DOMAIN us = 1..Len(us) /\ DOMAIN vs = 1..Len(vs)
      /\ Len(us \o vs) = Len(us) + Len(vs)
      /\ DOMAIN (us \o vs) = 1..(Len(us) + Len(vs))
      /\ us \o vs \in Seq(PieceViews)
  OBVIOUS
<1>2. \A i \in 1..Len(us) : us[i] \in PieceViews /\ (us \o vs)[i] = us[i]
  OBVIOUS
<1>3. \A i \in 1..Len(vs) : vs[i] \in PieceViews /\ (us \o vs)[Len(us) + i] = vs[i]
  OBVIOUS
<1>4. \A i \in 1..Len(us) : us[i].size \in Nat
  BY <1>2 DEF PieceViews
<1>5. \A i \in 1..Len(vs) : vs[i].size \in Nat
  BY <1>3 DEF PieceViews
<1>6. \A i \in 1..Len(us) : i \in 1..(Len(us) + Len(vs))
  BY <1>1
<1>7. \A i \in 1..Len(vs) : Len(us) + i \in 1..(Len(us) + Len(vs))
  BY <1>1
<1>8. \A i \in 1..Len(us) : u[i] \in Nat /\ f[i] = u[i]
  BY <1>1, <1>2, <1>4, <1>6
<1>9. \A i \in 1..Len(vs) : v[i] \in Nat /\ f[Len(us) + i] = v[i]
  BY <1>1, <1>3, <1>5, <1>7
<1> HIDE DEF f, u, v
<1>10. SumOf(f, Len(us)) = SumOf(u, Len(us))
  BY <1>1, <1>8, SumEqual
<1>11. \A i \in 1..Len(us) : f[i] \in Nat
  BY <1>8
<1>12. SumOf(f, Len(us) + Len(vs)) = SumOf(f, Len(us)) + SumOf(v, Len(vs))
  BY <1>1, <1>9, <1>11, SumContinues
<1> QED  BY <1>1, <1>10, <1>12 DEF Total, f, u, v

(* Totals of short lists.                                                  *)
LEMMA TotalOfNone ==
  Total(<< >>) = 0
  BY SumOfSteps DEF Total

(* Of one view,                                                            *)
LEMMA TotalOfOne ==
  ASSUME NEW a \in PieceViews
  PROVE  Total(<<a>>) = a.size
<1> DEFINE f == [i \in DOMAIN <<a>> |-> <<a>>[i].size]
<1>1. Len(<<a>>) = 1 /\ f[1] = a.size /\ a.size \in Nat
  BY DEF PieceViews
<1> HIDE DEF f
<1>2. SumOf(f, 0 + 1) = SumOf(f, 0) + f[0 + 1] /\ SumOf(f, 0) = 0
  BY SumOfSteps, 0 \in Nat
<1> QED  BY <1>1, <1>2 DEF Total, f

(* of two,                                                                 *)
LEMMA TotalOfTwo ==
  ASSUME NEW a \in PieceViews, NEW b \in PieceViews
  PROVE  Total(<<a, b>>) = a.size + b.size
<1>1. <<a>> \in Seq(PieceViews) /\ <<b>> \in Seq(PieceViews)
  OBVIOUS
<1>2. <<a>> \o <<b>> = <<a, b>>
  <2>1. <<a>> \o <<b>> \in Seq(PieceViews) /\ <<a, b>> \in Seq(PieceViews)
    OBVIOUS
  <2>2. Len(<<a>> \o <<b>>) = 2 /\ Len(<<a, b>>) = 2
    OBVIOUS
  <2>3. \A i \in 1..2 : (<<a>> \o <<b>>)[i] = <<a, b>>[i]
    OBVIOUS
  <2> QED  BY <2>1, <2>2, <2>3, SeqEqual
<1>3. Total(<<a>> \o <<b>>) = Total(<<a>>) + Total(<<b>>)
  BY <1>1, TotalConcat
<1> QED  BY <1>2, <1>3, TotalOfOne

(* and of four.                                                            *)
LEMMA TotalOfFour ==
  ASSUME NEW a \in PieceViews, NEW b \in PieceViews, NEW c \in PieceViews, NEW d \in PieceViews
  PROVE  Total(<<a, b, c, d>>) = a.size + b.size + c.size + d.size
<1>1. <<a, b>> \in Seq(PieceViews) /\ <<c, d>> \in Seq(PieceViews)
  OBVIOUS
<1>2. <<a, b>> \o <<c, d>> = <<a, b, c, d>>
  <2>1. <<a, b>> \o <<c, d>> \in Seq(PieceViews) /\ <<a, b, c, d>> \in Seq(PieceViews)
    OBVIOUS
  <2>2. Len(<<a, b>> \o <<c, d>>) = 4 /\ Len(<<a, b, c, d>>) = 4
    OBVIOUS
  <2>3. \A i \in 1..4 : (<<a, b>> \o <<c, d>>)[i] = <<a, b, c, d>>[i]
    OBVIOUS
  <2> QED  BY <2>1, <2>2, <2>3, SeqEqual
<1>3. Total(<<a, b>> \o <<c, d>>) = Total(<<a, b>>) + Total(<<c, d>>)
  BY <1>1, TotalConcat
<1>4. Total(<<a, b>>) = a.size + b.size /\ Total(<<c, d>>) = c.size + d.size
  BY TotalOfTwo
<1>5. a.size \in Nat /\ b.size \in Nat /\ c.size \in Nat /\ d.size \in Nat
  BY DEF PieceViews
<1>6. Total(<<a, b, c, d>>) = (a.size + b.size) + (c.size + d.size)
  BY <1>2, <1>3, <1>4
<1> HIDE DEF Total
<1> QED  BY <1>5, <1>6

(* The tensors of one list are the views of the other.                     *)
Describes(ts, vs) ==
  /\ ts \in Seq(PieceTensors) /\ vs \in Seq(PieceViews) /\ Len(ts) = Len(vs)
  /\ \A i \in 1..Len(ts) : ts[i].name = vs[i].name /\ Values(ts[i]) = vs[i].size

Same(t, v) ==
  t \in PieceTensors /\ v \in PieceViews /\ t.name = v.name /\ Values(t) = v.size

(* Two lists that describe two lists of views describe their concatenation.*)
LEMMA DescribesConcat ==
  ASSUME NEW ts, NEW vs, Describes(ts, vs), NEW us, NEW ws, Describes(us, ws)
  PROVE  /\ Describes(ts \o us, vs \o ws)
         /\ Total(vs \o ws) = Total(vs) + Total(ws)
<1>1. /\ ts \in Seq(PieceTensors) /\ us \in Seq(PieceTensors) /\ vs \in Seq(PieceViews)
      /\ ws \in Seq(PieceViews) /\ Len(ts) = Len(vs) /\ Len(us) = Len(ws)
      /\ Len(ts) \in Nat /\ Len(us) \in Nat
  BY DEF Describes
<1>2. /\ ts \o us \in Seq(PieceTensors) /\ vs \o ws \in Seq(PieceViews)
      /\ Len(ts \o us) = Len(ts) + Len(us) /\ Len(vs \o ws) = Len(ts) + Len(us)
  BY <1>1
<1>3. ASSUME NEW i \in 1..(Len(ts) + Len(us))
      PROVE  (ts \o us)[i].name = (vs \o ws)[i].name /\ Values((ts \o us)[i]) = (vs \o ws)[i].size
  <2>1. CASE i <= Len(ts)
    <3>1. (ts \o us)[i] = ts[i] /\ (vs \o ws)[i] = vs[i] /\ i \in 1..Len(ts)
      BY <1>1, <2>1
    <3> QED  BY <3>1 DEF Describes
  <2>2. CASE i > Len(ts)
    <3>1. /\ (ts \o us)[i] = us[i - Len(ts)] /\ (vs \o ws)[i] = ws[i - Len(ts)]
          /\ i - Len(ts) \in 1..Len(us)
      BY <1>1, <2>2
    <3> QED  BY <3>1 DEF Describes
  <2> QED  BY <1>1, <2>1, <2>2
<1>4. Describes(ts \o us, vs \o ws)
  BY <1>2, <1>3 DEF Describes
<1> QED  BY <1>1, <1>4, TotalConcat

(* Short lists of tensors and views: none,                                 *)
LEMMA DescribesNone ==
  Describes(<< >>, << >>) /\ Total(<< >>) = 0
<1>1. Describes(<< >>, << >>)
  BY DEF Describes
<1> QED  BY <1>1, TotalOfNone

(* one,                                                                    *)
LEMMA DescribesOne ==
  ASSUME NEW a, NEW p, Same(a, p)
  PROVE  Describes(<<a>>, <<p>>) /\ Total(<<p>>) = p.size
<1>1. Describes(<<a>>, <<p>>)
  BY DEF Describes, Same
<1> QED  BY <1>1, TotalOfOne DEF Same

(* two                                                                     *)
LEMMA DescribesTwo ==
  ASSUME NEW a, NEW b, NEW p, NEW q, Same(a, p), Same(b, q)
  PROVE  Describes(<<a, b>>, <<p, q>>) /\ Total(<<p, q>>) = p.size + q.size
<1>1. Describes(<<a, b>>, <<p, q>>)
  BY DEF Describes, Same
<1> QED  BY <1>1, TotalOfTwo DEF Same

(* and four.                                                               *)
LEMMA DescribesFour ==
  ASSUME NEW a, NEW b, NEW c, NEW d, NEW p, NEW q, NEW r, NEW t,
         Same(a, p), Same(b, q), Same(c, r), Same(d, t)
  PROVE  /\ Describes(<<a, b, c, d>>, <<p, q, r, t>>)
         /\ Total(<<p, q, r, t>>) = p.size + q.size + r.size + t.size
<1>1. Describes(<<a, b, c, d>>, <<p, q, r, t>>)
  BY DEF Describes, Same
<1> QED  BY <1>1, TotalOfFour DEF Same

(* A tensor of rows and columns is a view of their product,                *)
LEMMA MatrixIsView ==
  ASSUME NEW name \in Names, NEW kind \in Kinds, NEW rows \in Nat, NEW cols \in Nat,
         NEW size \in Nat, size = rows * cols
  PROVE  Same(Tensor(name, rows, cols, kind), View(name, size)) /\ View(name, size).size = size
<1>2. View(name, size) \in PieceViews
  BY DEF View, PieceViews
<1>3. Tensor(name, rows, cols, kind) \in PieceTensors
  BY DEF Tensor, PieceTensors
<1> QED  BY <1>2, <1>3 DEF Same, View, Tensor, Values

(* and a vector a view of its length.                                      *)
LEMMA VectorIsView ==
  ASSUME NEW name \in Names, NEW kind \in Kinds, NEW size \in Nat
  PROVE  Same(Tensor(name, 1, size, kind), View(name, size)) /\ View(name, size).size = size
  BY MatrixIsView, 1 * size = size

-----------------------------------------------------------------------------
(* The layout of a model.                                                  *)

(* The tensors in front of the layers: the inventory lists the views, and  *)
(* they add up to GlobalCount, tied or not.                                *)
LEMMA GlobalsDescribed ==
  ASSUME NEW s, Dimensions(s)
  PROVE  /\ Describes(GlobalTensors(s), LayoutGlobals(s))
         /\ Total(LayoutGlobals(s)) = GlobalCount(s)
<1>1. PICK v \in Nat, e \in Nat, n \in Nat :
        v = s.vocab /\ e = s.embedding /\ n = v * e /\ n = e * v
  BY DEF Dimensions
<1> DEFINE tok == <<Tensor("token_embeddings", v, e, "embedding")>>
           tokV == <<View("token_embeddings", n)>>
           proj == <<Tensor("output_projection", e, v, "projection")>>
           projV == <<View("output_projection", n)>>
           untied == When("TIED" \notin s.flags, proj)
           untiedV == When("TIED" \notin s.flags, projV)
           bias == <<Tensor("output_bias", 1, v, "bias")>>
           biasV == <<View("output_bias", v)>>
<1>2. GlobalTensors(s) = tok \o untied \o bias /\ LayoutGlobals(s) = tokV \o untiedV \o biasV
  BY <1>1 DEF GlobalTensors, LayoutGlobals
<1>3. Describes(tok, tokV) /\ Total(tokV) = n
  <2>1. "token_embeddings" \in Names /\ "embedding" \in Kinds
    BY DEF Names, Kinds
  <2>2. Same(Tensor("token_embeddings", v, e, "embedding"), View("token_embeddings", n))
        /\ View("token_embeddings", n).size = n
    BY <1>1, <2>1 DEF Same, View, Tensor, PieceViews, PieceTensors, Values
  <2> QED  BY <2>2, DescribesOne
<1>4. Describes(bias, biasV) /\ Total(biasV) = v
  BY <1>1, VectorIsView, DescribesOne DEF Names, Kinds
<1>5. Describes(proj, projV) /\ Total(projV) = n
  <2>1. "output_projection" \in Names /\ "projection" \in Kinds
    BY DEF Names, Kinds
  <2>2. Same(Tensor("output_projection", e, v, "projection"), View("output_projection", n))
        /\ View("output_projection", n).size = n
    BY <1>1, <2>1 DEF Same, View, Tensor, PieceViews, PieceTensors, Values
  <2> QED  BY <2>2, DescribesOne
<1> HIDE DEF tok, tokV, proj, projV, bias, biasV
<1>6. Describes(untied, untiedV) /\ Total(untiedV) = IF "TIED" \in s.flags THEN 0 ELSE n
  BY <1>5, DescribesNone DEF When
<1> HIDE DEF untied, untiedV
<1>7. Describes(tok \o untied, tokV \o untiedV)
      /\ Total(tokV \o untiedV) = Total(tokV) + Total(untiedV)
  BY <1>3, <1>6, DescribesConcat
<1>8. Describes(tok \o untied \o bias, tokV \o untiedV \o biasV)
      /\ Total(tokV \o untiedV \o biasV) = Total(tokV \o untiedV) + Total(biasV)
  BY <1>4, <1>7, DescribesConcat
<1>9. GlobalCount(s) = n * (IF "TIED" \in s.flags THEN 1 ELSE 2) + v
  BY <1>1 DEF GlobalCount
<1> QED  BY <1>2, <1>3, <1>4, <1>6, <1>7, <1>8, <1>9

(* A layer: the inventory lists the views layout_layer carves, and they add*)
(* up to LayerCount, whatever the flags are.                               *)
LEMMA LayerDescribed ==
  ASSUME NEW s, Dimensions(s)
  PROVE  /\ Describes(LayerTensors(s), LayoutLayer(s))
         /\ Total(LayoutLayer(s)) = LayerCount(s)
         /\ Len(LayerTensors(s)) > 0
<1>1. PICK e \in Nat, f \in Nat, n \in Nat, m \in Nat :
        /\ e = s.embedding /\ f = 4 * e /\ n = e * e
        /\ m = 4 * n /\ m = e * f /\ m = f * e
  <2>1. s.embedding \in Nat
    BY DEF Dimensions
  <2>2. \A x \in Nat : /\ 4 * x \in Nat /\ x * x \in Nat
                       /\ 4 * (x * x) = x * (4 * x) /\ 4 * (x * x) = (4 * x) * x
    OBVIOUS
  <2> QED  BY <2>1, <2>2
<1> DEFINE square(name) == Tensor(name, e, e, "projection")
           attn == <<square("W_q"), square("W_k"), square("W_v"), square("W_o")>>
           attnV == <<View("W_q", n), View("W_k", n), View("W_v", n), View("W_o", n)>>
           gammaA == <<Tensor("ln_gamma_attn", 1, e, "norm")>>
           gammaAV == <<View("ln_gamma_attn", e)>>
           betaA == <<Tensor("ln_beta_attn", 1, e, "norm")>>
           betaAV == <<View("ln_beta_attn", e)>>
           up == <<Tensor("W_ff1", e, f, "projection"), Tensor("b_ff1", 1, f, "bias")>>
           upV == <<View("W_ff1", m), View("b_ff1", f)>>
           gate == <<Tensor("W_ff_gate", e, f, "projection"), Tensor("b_ff_gate", 1, f, "bias")>>
           gateV == <<View("W_ff_gate", m), View("b_ff_gate", f)>>
           down == <<Tensor("W_ff2", f, e, "projection"), Tensor("b_ff2", 1, e, "bias")>>
           downV == <<View("W_ff2", m), View("b_ff2", e)>>
           gammaF == <<Tensor("ln_gamma_ffn", 1, e, "norm")>>
           gammaFV == <<View("ln_gamma_ffn", e)>>
           betaF == <<Tensor("ln_beta_ffn", 1, e, "norm")>>
           betaFV == <<View("ln_beta_ffn", e)>>
           beta1 == When("RMSNORM" \notin s.flags, betaA)
           beta1V == When("RMSNORM" \notin s.flags, betaAV)
           beta2 == When("RMSNORM" \notin s.flags, betaF)
           beta2V == When("RMSNORM" \notin s.flags, betaFV)
           gated == When("SWIGLU" \in s.flags, gate)
           gatedV == When("SWIGLU" \in s.flags, gateV)
<1>2. LayerTensors(s) = attn \o (gammaA \o beta1) \o up \o gated \o down \o (gammaF \o beta2)
  BY <1>1 DEF LayerTensors
<1>3. LayoutLayer(s) = attnV \o (gammaAV \o beta1V) \o upV \o gatedV \o downV \o (gammaFV \o beta2V)
  BY <1>1 DEF LayoutLayer
<1>4. Describes(attn, attnV) /\ Total(attnV) = n + n + n + n
  <2>1. ASSUME NEW name \in {"W_q", "W_k", "W_v", "W_o"}
        PROVE  Same(square(name), View(name, n)) /\ View(name, n).size = n
    BY <1>1 DEF Same, View, Tensor, PieceViews, PieceTensors, Values, Names, Kinds
  <2> HIDE DEF square
  <2>2. /\ Same(square("W_q"), View("W_q", n)) /\ Same(square("W_k"), View("W_k", n))
        /\ Same(square("W_v"), View("W_v", n)) /\ Same(square("W_o"), View("W_o", n))
        /\ View("W_q", n).size = n /\ View("W_k", n).size = n
        /\ View("W_v", n).size = n /\ View("W_o", n).size = n
    BY <2>1
  <2> QED  BY <2>2, DescribesFour
<1>5. /\ Describes(gammaA, gammaAV) /\ Total(gammaAV) = e
      /\ Describes(betaA, betaAV) /\ Total(betaAV) = e
      /\ Describes(gammaF, gammaFV) /\ Total(gammaFV) = e
      /\ Describes(betaF, betaFV) /\ Total(betaFV) = e
  <2>1. ASSUME NEW name \in {"ln_gamma_attn", "ln_beta_attn", "ln_gamma_ffn", "ln_beta_ffn"}
        PROVE  /\ Describes(<<Tensor(name, 1, e, "norm")>>, <<View(name, e)>>)
               /\ Total(<<View(name, e)>>) = e
    <3>1. Same(Tensor(name, 1, e, "norm"), View(name, e)) /\ View(name, e).size = e
      BY <1>1 DEF Same, View, Tensor, PieceViews, PieceTensors, Values, Names, Kinds
    <3> QED  BY <3>1, DescribesOne
  <2> QED  BY <2>1
<1>6. /\ Describes(up, upV) /\ Total(upV) = m + f
      /\ Describes(gate, gateV) /\ Total(gateV) = m + f
  <2>1. ASSUME NEW w \in {"W_ff1", "W_ff_gate"}, NEW b \in {"b_ff1", "b_ff_gate"}
        PROVE  /\ Describes(<<Tensor(w, e, f, "projection"), Tensor(b, 1, f, "bias")>>,
                            <<View(w, m), View(b, f)>>)
               /\ Total(<<View(w, m), View(b, f)>>) = m + f
    <3>1. Same(Tensor(w, e, f, "projection"), View(w, m)) /\ View(w, m).size = m
      BY <1>1 DEF Same, View, Tensor, PieceViews, PieceTensors, Values, Names, Kinds
    <3>2. Same(Tensor(b, 1, f, "bias"), View(b, f)) /\ View(b, f).size = f
      BY <1>1 DEF Same, View, Tensor, PieceViews, PieceTensors, Values, Names, Kinds
    <3> QED  BY <3>1, <3>2, DescribesTwo
  <2> QED  BY <2>1
<1>7. Describes(down, downV) /\ Total(downV) = m + e
  <2>1. Same(Tensor("W_ff2", f, e, "projection"), View("W_ff2", m)) /\ View("W_ff2", m).size = m
    BY <1>1 DEF Same, View, Tensor, PieceViews, PieceTensors, Values, Names, Kinds
  <2>2. Same(Tensor("b_ff2", 1, e, "bias"), View("b_ff2", e)) /\ View("b_ff2", e).size = e
    BY <1>1 DEF Same, View, Tensor, PieceViews, PieceTensors, Values, Names, Kinds
  <2> QED  BY <2>1, <2>2, DescribesTwo
<1>8. Len(attn) = 4
  OBVIOUS
<1> HIDE DEF attn, attnV, gammaA, gammaAV, betaA, betaAV, up, upV, gate, gateV, down, downV,
             gammaF, gammaFV, betaF, betaFV
<1>9. /\ Describes(beta1, beta1V) /\ Total(beta1V) = IF "RMSNORM" \in s.flags THEN 0 ELSE e
      /\ Describes(beta2, beta2V) /\ Total(beta2V) = IF "RMSNORM" \in s.flags THEN 0 ELSE e
  BY <1>5, DescribesNone DEF When
<1>10. Describes(gated, gatedV) /\ Total(gatedV) = IF "SWIGLU" \in s.flags THEN m + f ELSE 0
  BY <1>6, DescribesNone DEF When
<1> HIDE DEF beta1, beta1V, beta2, beta2V, gated, gatedV
<1> DEFINE norm1 == gammaA \o beta1
           norm1V == gammaAV \o beta1V
           norm2 == gammaF \o beta2
           norm2V == gammaFV \o beta2V
<1>11. Describes(norm1, norm1V) /\ Total(norm1V) = Total(gammaAV) + Total(beta1V)
  BY <1>5, <1>9, DescribesConcat
<1>12. Describes(norm2, norm2V) /\ Total(norm2V) = Total(gammaFV) + Total(beta2V)
  BY <1>5, <1>9, DescribesConcat
<1>13. LayerTensors(s) = attn \o norm1 \o up \o gated \o down \o norm2
       /\ LayoutLayer(s) = attnV \o norm1V \o upV \o gatedV \o downV \o norm2V
  BY <1>2, <1>3
<1> HIDE DEF norm1, norm1V, norm2, norm2V
<1>14. Describes(attn \o norm1, attnV \o norm1V)
       /\ Total(attnV \o norm1V) = Total(attnV) + Total(norm1V)
  BY <1>4, <1>11, DescribesConcat
<1>15. Describes(attn \o norm1 \o up, attnV \o norm1V \o upV)
       /\ Total(attnV \o norm1V \o upV) = Total(attnV \o norm1V) + Total(upV)
  BY <1>6, <1>14, DescribesConcat
<1>16. Describes(attn \o norm1 \o up \o gated, attnV \o norm1V \o upV \o gatedV)
       /\ Total(attnV \o norm1V \o upV \o gatedV) = Total(attnV \o norm1V \o upV) + Total(gatedV)
  BY <1>10, <1>15, DescribesConcat
<1>17. Describes(attn \o norm1 \o up \o gated \o down, attnV \o norm1V \o upV \o gatedV \o downV)
       /\ Total(attnV \o norm1V \o upV \o gatedV \o downV)
            = Total(attnV \o norm1V \o upV \o gatedV) + Total(downV)
  BY <1>7, <1>16, DescribesConcat
<1>18. Describes(LayerTensors(s), LayoutLayer(s))
       /\ Total(LayoutLayer(s))
            = Total(attnV \o norm1V \o upV \o gatedV \o downV) + Total(norm2V)
  BY <1>12, <1>13, <1>17, DescribesConcat
<1>19. LayerCount(s) = n * LayerSquareFactor(s.flags) + e * LayerLinearFactor(s.flags)
  BY <1>1 DEF LayerCount
<1>20. Total(LayoutLayer(s)) = LayerCount(s)
  <2> DEFINE rms == IF "RMSNORM" \in s.flags THEN 0 ELSE e
             swi == IF "SWIGLU" \in s.flags THEN m + f ELSE 0
  <2>1. Total(LayoutLayer(s)) =
          ((((((n + n + n + n) + (e + rms)) + (m + f)) + swi) + (m + e)) + (e + rms))
    BY <1>4, <1>5, <1>6, <1>7, <1>9, <1>10, <1>11, <1>12, <1>14, <1>15, <1>16, <1>17, <1>18
  <2>2. f = 4 * e /\ m = 4 * n
    BY <1>1
  <2>3. CASE "SWIGLU" \in s.flags
    <3>1. LayerSquareFactor(s.flags) = 16
      BY <2>3 DEF LayerSquareFactor
    <3>2. LayerLinearFactor(s.flags) = IF "RMSNORM" \in s.flags THEN 11 ELSE 13
      BY <2>3 DEF LayerLinearFactor
    <3> QED  BY <1>19, <2>1, <2>2, <2>3, <3>1, <3>2
  <2>4. CASE "SWIGLU" \notin s.flags
    <3>1. LayerSquareFactor(s.flags) = 12
      BY <2>4 DEF LayerSquareFactor
    <3>2. LayerLinearFactor(s.flags) = IF "RMSNORM" \in s.flags THEN 7 ELSE 9
      BY <2>4 DEF LayerLinearFactor
    <3> QED  BY <1>19, <2>1, <2>2, <2>4, <3>1, <3>2
  <2> QED  BY <2>3, <2>4
<1>21. Len(LayerTensors(s)) > 0
  <2>1. /\ attn \in Seq(PieceTensors) /\ norm1 \in Seq(PieceTensors) /\ up \in Seq(PieceTensors)
        /\ gated \in Seq(PieceTensors) /\ down \in Seq(PieceTensors) /\ norm2 \in Seq(PieceTensors)
    BY <1>4, <1>6, <1>7, <1>10, <1>11, <1>12 DEF Describes
  <2>2. Len(attn \o norm1) >= 4 /\ attn \o norm1 \in Seq(PieceTensors)
    <3>1. Len(attn \o norm1) = Len(attn) + Len(norm1) /\ attn \o norm1 \in Seq(PieceTensors)
      BY <2>1
    <3>2. Len(norm1) \in Nat
      BY <2>1
    <3> QED  BY <1>8, <3>1, <3>2
  <2>3. Len(attn \o norm1 \o up) >= 4 /\ attn \o norm1 \o up \in Seq(PieceTensors)
    BY <2>1, <2>2
  <2>4. /\ Len(attn \o norm1 \o up \o gated) >= 4
        /\ attn \o norm1 \o up \o gated \in Seq(PieceTensors)
    BY <2>1, <2>3
  <2>5. Len(attn \o norm1 \o up \o gated \o down) >= 4
        /\ attn \o norm1 \o up \o gated \o down \in Seq(PieceTensors)
    BY <2>1, <2>4
  <2> QED  BY <1>13, <2>1, <2>5
<1> QED  BY <1>18, <1>20, <1>21

(* The whole model: globals, then every layer; the total is the globals and*)
(* as many layers as there are.                                            *)
LEMMA InventoryDescribed ==
  ASSUME NEW s, Dimensions(s)
  PROVE  /\ Describes(Tensors(s), Views(s)) /\ Total(Views(s)) = ParamCount(s)
         /\ s.layers > 0 => Len(Tensors(s)) > 0
<1> DEFINE gt == GlobalTensors(s)
           gv == LayoutGlobals(s)
           lt == LayerTensors(s)
           lv == LayoutLayer(s)
           n == Len(gt)
           k == Len(lt)
           layers == s.layers
           all == n + layers * k
<1>1. /\ Describes(gt, gv) /\ Total(gv) = GlobalCount(s)
      /\ Describes(lt, lv) /\ Total(lv) = LayerCount(s) /\ k > 0
  BY GlobalsDescribed, LayerDescribed
<1>2. /\ gt \in Seq(PieceTensors) /\ gv \in Seq(PieceViews) /\ n = Len(gv)
      /\ lt \in Seq(PieceTensors) /\ lv \in Seq(PieceViews) /\ k = Len(lv)
      /\ \A i \in 1..n : gt[i].name = gv[i].name /\ Values(gt[i]) = gv[i].size
      /\ \A i \in 1..k : lt[i].name = lv[i].name /\ Values(lt[i]) = lv[i].size
  BY <1>1 DEF Describes
<1>3. n \in Nat /\ k \in Nat \ {0} /\ layers \in Nat
  BY <1>1, <1>2 DEF Dimensions
<1>4. Tensors(s) = [i \in 1..all |-> IF i <= n THEN gt[i] ELSE lt[((i - n - 1) % k) + 1]]
  BY DEF Tensors
<1>5. Views(s) = [i \in 1..all |-> IF i <= n THEN gv[i] ELSE lv[((i - n - 1) % k) + 1]]
  BY <1>2 DEF Views
<1>6. \A i \in 1..n : gt[i] \in PieceTensors /\ gv[i] \in PieceViews
  BY <1>2
<1>7. \A i \in 1..k : lt[i] \in PieceTensors /\ lv[i] \in PieceViews
  BY <1>2
<1> HIDE DEF gt, gv, lt, lv, n, k, layers
<1>8. all \in Nat
  BY <1>3
<1>9. ASSUME NEW i \in 1..all, ~(i <= n)
      PROVE  ((i - n - 1) % k) + 1 \in 1..k
  <2>1. i - n - 1 \in Nat
    BY <1>3, <1>8, <1>9
  <2>2. (i - n - 1) % k \in 0..k - 1
    BY <1>3, <2>1, DivMod
  <2> QED  BY <1>3, <2>2
<1>10. ASSUME NEW i \in 1..all
       PROVE  /\ Tensors(s)[i] \in PieceTensors /\ Views(s)[i] \in PieceViews
              /\ Tensors(s)[i].name = Views(s)[i].name
              /\ Values(Tensors(s)[i]) = Views(s)[i].size
  <2>1. CASE i <= n
    <3>1. Tensors(s)[i] = gt[i] /\ Views(s)[i] = gv[i] /\ i \in 1..n
      BY <1>3, <1>4, <1>5, <1>8, <2>1
    <3> QED  BY <1>2, <1>6, <3>1
  <2>2. CASE ~(i <= n)
    <3>1. PICK j \in 1..k : j = ((i - n - 1) % k) + 1
      BY <1>9, <2>2
    <3>2. Tensors(s)[i] = lt[j] /\ Views(s)[i] = lv[j]
      BY <1>4, <1>5, <2>2, <3>1
    <3> QED  BY <1>2, <1>7, <3>2
  <2> QED  BY <2>1, <2>2
<1>11. Tensors(s) \in Seq(PieceTensors) /\ Len(Tensors(s)) = all
  <2>1. Tensors(s) \in [1..all -> PieceTensors]
    BY <1>4, <1>10
  <2> QED  BY <1>8, <2>1
<1>12. Views(s) \in Seq(PieceViews) /\ Len(Views(s)) = all
  <2>1. Views(s) \in [1..all -> PieceViews]
    BY <1>5, <1>10
  <2> QED  BY <1>8, <2>1
<1>13. Describes(Tensors(s), Views(s))
  BY <1>10, <1>11, <1>12 DEF Describes
<1> DEFINE f == [i \in DOMAIN Views(s) |-> Views(s)[i].size]
           g == [i \in DOMAIN gv |-> gv[i].size]
           l == [i \in DOMAIN lv |-> lv[i].size]
<1>14. \A i \in 1..n : g[i] \in Nat /\ g[i] = gv[i].size
  BY <1>2, <1>6 DEF PieceViews
<1>15. \A i \in 1..k : l[i] \in Nat /\ l[i] = lv[i].size
  BY <1>2, <1>7 DEF PieceViews
<1>16. \A i \in 1..all : f[i] \in Nat /\ f[i] = Views(s)[i].size
  <2>1. DOMAIN Views(s) = 1..all
    BY <1>12
  <2> QED  BY <2>1, <1>10 DEF PieceViews
<1>17. /\ Total(Views(s)) = SumOf(f, all)
       /\ Total(gv) = SumOf(g, n)
       /\ Total(lv) = SumOf(l, k)
  BY <1>2, <1>12 DEF Total
<1> HIDE DEF f, g, l
<1>18. SumOf(g, n) \in Nat /\ SumOf(l, k) \in Nat
  BY <1>3, <1>14, <1>15, SumInNat
<1> DEFINE P(c) == SumOf(f, n + c * k) = SumOf(g, n) + c * SumOf(l, k)
           wrong == {c \in 0..layers : ~P(c)}
<1>19. wrong = {}
  <2> SUFFICES ASSUME wrong # {} PROVE FALSE
    OBVIOUS
  <2>0. wrong \subseteq Nat
    BY <1>3
  <2>1. PICK c \in wrong : \A i \in wrong : c <= i
    BY <2>0, LeastExists
  <2>2. P(0)
    <3>1. \A i \in 1..n : g[i] \in Nat /\ f[i] = g[i]
      <4>1. ASSUME NEW i \in 1..n
            PROVE  i \in 1..all /\ Views(s)[i] = gv[i]
        <5>1. layers * k \in Nat
          BY <1>3
        <5>2. i \in 1..all
          BY <1>3, <5>1
        <5> QED  BY <1>5, <5>2
      <4> QED  BY <4>1, <1>14, <1>16
    <3>2. SumOf(f, n) = SumOf(g, n)
      BY <1>3, <3>1, SumEqual
    <3>3. n + 0 * k = n /\ 0 * SumOf(l, k) = 0
      BY <1>3, <1>18
    <3> QED  BY <1>18, <3>2, <3>3
  <2>3. c \in 1..layers /\ c - 1 \in 0..layers
    BY <1>3, <2>1, <2>2
  <2>4. P(c - 1)
    BY <2>1, <2>3
  <2> DEFINE m == n + (c - 1) * k
  <2>5. m \in Nat /\ m + k = n + c * k /\ (c - 1) * k \in Nat /\ c * k = (c - 1) * k + k
    <3>1. c - 1 \in Nat
      BY <2>3
    <3>2. (c - 1) * k \in Nat
      BY <1>3, <3>1
    <3>3. c * k = (c - 1) * k + k
      BY <1>3, <3>1
    <3> QED  BY <1>3, <3>2, <3>3
  <2>6. m + k <= all
    <3>1. PICK d \in Nat : layers = c + d
      BY <1>3, <2>3
    <3>2. layers * k = c * k + d * k /\ d * k \in Nat
      BY <1>3, <2>3, <3>1
    <3>3. c * k \in Nat
      BY <1>3, <2>5
    <3> QED  BY <1>3, <2>5, <3>2, <3>3
  <2>7. ASSUME NEW i \in 1..k
        PROVE  l[i] \in Nat /\ f[m + i] = l[i]
    <3>1. m + i \in 1..all /\ ~(m + i <= n)
      BY <1>3, <1>8, <2>5, <2>6
    <3>2. ((m + i) - n - 1) % k = i - 1
      <4>1. (m + i) - n - 1 = k * (c - 1) + (i - 1)
        <5>1. PICK x \in Nat : x = (c - 1) * k
          BY <2>5
        <5>2. x = k * (c - 1)
          BY <1>3, <2>3, <5>1
        <5>3. ((n + x) + i) - n - 1 = x + (i - 1)
          BY <1>3
        <5>4. m = n + x
          BY <5>1
        <5> HIDE DEF m
        <5> QED  BY <5>2, <5>3, <5>4
      <4>2. c - 1 \in Nat /\ i - 1 \in 0..k - 1
        BY <1>3, <2>3
      <4> QED  BY <1>3, <4>1, <4>2, ModUnique
    <3>3. Views(s)[m + i] = lv[i]
      <4>1. Views(s)[m + i] = lv[(((m + i) - n - 1) % k) + 1]
        BY <1>5, <3>1
      <4>2. (i - 1) + 1 = i
        BY <1>3
      <4> QED  BY <4>1, <4>2, <3>2
    <3> QED  BY <1>15, <1>16, <3>1, <3>3
  <2>8. \A i \in 1..m : f[i] \in Nat
    BY <1>3, <1>8, <1>16, <2>5, <2>6
  <2>9. SumOf(f, m + k) = SumOf(f, m) + SumOf(l, k)
    BY <1>3, <2>5, <2>7, <2>8, SumContinues
  <2>10. c * SumOf(l, k) = (c - 1) * SumOf(l, k) + SumOf(l, k)
    BY <1>18, <2>3
  <2>11. (c - 1) * SumOf(l, k) \in Nat
    BY <1>18, <2>3
  <2>12. SumOf(f, n + c * k) = SumOf(g, n) + c * SumOf(l, k)
    BY <1>18, <2>4, <2>5, <2>9, <2>10, <2>11
  <2> QED  BY <2>1, <2>12
<1>20. P(layers)
  BY <1>3, <1>19
<1>21. Total(Views(s)) = GlobalCount(s) + layers * LayerCount(s)
  BY <1>1, <1>17, <1>20
<1>22. layers > 0 => all > 0
  <2>1. \A x, y \in Nat : x > 0 /\ y > 0 => x * y > 0
    OBVIOUS
  <2>2. layers > 0 => layers * k > 0
    BY <1>3, <2>1
  <2> QED  BY <1>3, <2>2
<1> QED  BY <1>11, <1>13, <1>21, <1>22 DEF ParamCount, layers

(* The four descriptions of the parameter buffer agree for every shape.    *)
THEOREM ShapesAgree ==
  ASSUME NEW s, Dimensions(s)
  PROVE  DescriptionsAgree(s)
<1>1. Describes(Tensors(s), Views(s)) /\ Total(Views(s)) = ParamCount(s)
  BY InventoryDescribed
<1>2. /\ Len(Tensors(s)) = Len(Views(s)) /\ DOMAIN Tensors(s) = 1..Len(Tensors(s))
      /\ \A i \in 1..Len(Tensors(s)) :
           Tensors(s)[i].name = Views(s)[i].name /\ Values(Tensors(s)[i]) = Views(s)[i].size
  BY <1>1 DEF Describes
<1> QED  BY <1>1, <1>2 DEF DescriptionsAgree, Total

(* A tensor's dimensions are natural numbers,                              *)
LEMMA ValuesInNat ==
  ASSUME NEW t \in PieceTensors
  PROVE  t.rows \in Nat /\ t.cols \in Nat /\ Values(t) \in Nat
<1>1. t.rows \in Nat /\ t.cols \in Nat
  BY DEF PieceTensors
<1> QED  BY <1>1 DEF Values

(* and the inventory is a sequence of such tensors.                        *)
LEMMA TensorsAreTyped ==
  ASSUME NEW s, Dimensions(s)
  PROVE  /\ Len(Tensors(s)) \in Nat /\ DOMAIN Tensors(s) = 1..Len(Tensors(s))
         /\ \A i \in 1..Len(Tensors(s)) : Tensors(s)[i] \in PieceTensors
<1>1. Tensors(s) \in Seq(PieceTensors)
  BY InventoryDescribed DEF Describes
<1> QED  BY <1>1

(* A policy quantizes at most every parameter.                             *)
LEMMA QuantizedValuesBounded ==
  ASSUME NEW s, Dimensions(s), NEW policy
  PROVE  QuantizedValues(s, policy) \in Nat /\ QuantizedValues(s, policy) <= ParamCount(s)
<1> DEFINE ts == Tensors(s)
           vs == Views(s)
           n == Len(ts)
           value(t) == IF QuantizeIncludes(policy, t.kind) THEN Values(t) ELSE 0
           f == [i \in DOMAIN ts |-> value(ts[i])]
           g == [i \in DOMAIN vs |-> vs[i].size]
<1>1. Describes(ts, vs) /\ Total(vs) = ParamCount(s)
  BY InventoryDescribed
<1>2. n \in Nat /\ DOMAIN ts = 1..n /\ DOMAIN vs = 1..n /\ Len(vs) = n
      /\ \A i \in 1..n : Values(ts[i]) = vs[i].size
  BY <1>1 DEF Describes
<1>3. ASSUME NEW i \in 1..n
      PROVE  f[i] \in Nat /\ g[i] \in Nat /\ f[i] <= g[i]
  <2>1. Values(ts[i]) \in Nat
    BY TensorsAreTyped, ValuesInNat
  <2>2. g[i] = Values(ts[i]) /\ f[i] = value(ts[i])
    BY <1>2
  <2>3. value(ts[i]) = 0 \/ value(ts[i]) = Values(ts[i])
    OBVIOUS
  <2> QED  BY <2>1, <2>2, <2>3
<1>4. QuantizedValues(s, policy) = SumOf(f, n)
  BY DEF QuantizedValues
<1>5. ParamCount(s) = SumOf(g, n)
  BY <1>1, <1>2 DEF Total
<1> HIDE DEF f, g, n
<1> QED  BY <1>2, <1>3, <1>4, <1>5, SumMonotonic

(* A quantized payload has a size.                                         *)
LEMMA QuantizedBytesInNat ==
  ASSUME NEW s, Dimensions(s), NEW policy, PolicyValid(policy)
  PROVE  QuantizedBytes(s, policy) \in Nat
<1> DEFINE ts == Tensors(s)
           n == Len(ts)
           f == [i \in DOMAIN ts |-> 32 + TensorBytes(ts[i], policy)]
<1>1. n \in Nat /\ DOMAIN ts = 1..n
  BY TensorsAreTyped
<1>2. policy.bits \in 2..16 /\ policy.granularity \in {"tensor", "row", "column"}
  BY DEF PolicyValid
<1>3. ASSUME NEW i \in 1..n
      PROVE  TensorBytes(ts[i], policy) \in Nat
  <2>1. PICK t \in PieceTensors : t = ts[i]
    BY TensorsAreTyped
  <2>2. t.rows \in Nat /\ t.cols \in Nat /\ Values(t) \in Nat
    BY ValuesInNat
  <2>3. ScaleCount(t.rows, t.cols, policy.granularity) \in Nat
    BY <1>2, <2>2 DEF ScaleCount
  <2>4. PackedSize(Values(t), policy.bits) \in Nat
    <3>1. policy.bits \in Nat
      BY <1>2
    <3>2. ASSUME NEW b \in Nat, NEW v \in Nat
          PROVE  (v * b + 7) \div 8 \in Nat
      <4>1. v * b \in Nat
        OBVIOUS
      <4>2. v * b + 7 \in Nat
        BY <4>1
      <4> QED  BY <4>2, DivMod, 8 \in Nat \ {0}
    <3> QED  BY <2>2, <3>1, <3>2 DEF PackedSize
  <2>5. TensorBytes(t, policy) \in Nat
    BY <2>2, <2>3, <2>4 DEF TensorBytes
  <2> QED  BY <2>1, <2>5
<1>4. \A i \in 1..n : f[i] \in Nat
  BY <1>1, <1>3
<1>5. QuantizedBytes(s, policy) = SumOf(f, n)
  BY DEF QuantizedBytes
<1> HIDE DEF f, n
<1> QED  BY <1>1, <1>4, <1>5, SumInNat

-----------------------------------------------------------------------------
(* The checks of the writers and the loaders.                              *)

(* What the copying loader requires of a file.                             *)
CopyAccepts(f) ==
  /\ f.size >= 8 /\ f.fields.magic
  /\ f.size >= 24
  /\ IsFloat(f.fields) \/ IsQuantized(f.fields)
  /\ f.size >= f.fields.header_size
  /\ HeaderIntact(f)
  /\ f.fields.marker
  /\ ClaimsValid(f.fields)
  /\ IsQuantized(f.fields) => QuantizationClaimsValid(f.fields)
  /\ SizeMatches(f)
  /\ WeightsIntact(f)
  /\ ModelAccepts(ClaimedShape(f.fields))
  /\ PayloadParses(f)
  /\ f.footer
  /\ TokenizerIntact(f)
  /\ f.tokenizer.vocab = f.fields.vocab

(* And the mapping loader.                                                 *)
MapAccepts(f) ==
  /\ f.size >= 8
  /\ f.fields.magic
  /\ f.size >= 160
  /\ IsFloat(f.fields)
  /\ f.fields.marker
  /\ f.size >= f.fields.header_size + 8
  /\ HeaderIntact(f)
  /\ ClaimsValid(f.fields)
  /\ SizeMatches(f)
  /\ WeightsIntact(f) /\ TokenizerIntact(f)
  /\ f.footer
  /\ f.tokenizer.vocab = f.fields.vocab

(* A chain of checks succeeds when each of them does.                      *)
LEMMA ChainSucceeds ==
  ASSUME NEW first, NEW later
  PROVE  (first && later) = "SUCCESS" <=> first = "SUCCESS" /\ later = "SUCCESS"
  BY DEF &&

(* The copying loader succeeds exactly when every check holds. *)
LEMMA CopySucceeds ==
  ASSUME NEW f
  PROVE  CopyError(f, TRUE) = "SUCCESS" <=> CopyAccepts(f)
<1> DEFINE h == f.fields
           c1 == Check(f.size >= 8 /\ h.magic, "NOT_BUNDLE")
           c2 == Check(f.size >= 24, "FORMAT_ERROR")
           c3 == Check(IsFloat(h) \/ IsQuantized(h), "UNSUPPORTED")
           c4 == Check(f.size >= h.header_size, "FORMAT_ERROR")
           c5 == Check(HeaderIntact(f), "CHECKSUM_ERROR")
           c6 == Check(h.marker, "UNSUPPORTED")
           c7 == Check(ClaimsValid(h), "FORMAT_ERROR")
           c8 == Check(IsQuantized(h) => QuantizationClaimsValid(h), "FORMAT_ERROR")
           c9 == Check(SizeMatches(f), "FORMAT_ERROR")
           c10 == Check(WeightsIntact(f), "CHECKSUM_ERROR")
           c11 == Check(TRUE, "ALLOCATION_FAILURE")
           c12 == Check(ModelAccepts(ClaimedShape(h)), "FORMAT_ERROR")
           c13 == Check(PayloadParses(f), "FORMAT_ERROR")
           c14 == Check(f.footer, "FORMAT_ERROR")
           c15 == Check(TokenizerIntact(f), "CHECKSUM_ERROR")
           c16 == Check(f.tokenizer.vocab = h.vocab, "FORMAT_ERROR")
<1>1. (c1 = "SUCCESS") <=> (f.size >= 8 /\ h.magic)  BY DEF Check
<1>2. (c2 = "SUCCESS") <=> (f.size >= 24)  BY DEF Check
<1>3. (c3 = "SUCCESS") <=> (IsFloat(h) \/ IsQuantized(h))  BY DEF Check
<1>4. (c4 = "SUCCESS") <=> (f.size >= h.header_size)  BY DEF Check
<1>5. (c5 = "SUCCESS") <=> (HeaderIntact(f))  BY DEF Check
<1>6. (c6 = "SUCCESS") <=> (h.marker)  BY DEF Check
<1>7. (c7 = "SUCCESS") <=> (ClaimsValid(h))  BY DEF Check
<1>8. (c8 = "SUCCESS") <=> (IsQuantized(h) => QuantizationClaimsValid(h))  BY DEF Check
<1>9. (c9 = "SUCCESS") <=> (SizeMatches(f))  BY DEF Check
<1>10. (c10 = "SUCCESS") <=> (WeightsIntact(f))  BY DEF Check
<1>11. (c11 = "SUCCESS") <=> (TRUE)  BY DEF Check
<1>12. (c12 = "SUCCESS") <=> (ModelAccepts(ClaimedShape(h)))  BY DEF Check
<1>13. (c13 = "SUCCESS") <=> (PayloadParses(f))  BY DEF Check
<1>14. (c14 = "SUCCESS") <=> (f.footer)  BY DEF Check
<1>15. (c15 = "SUCCESS") <=> (TokenizerIntact(f))  BY DEF Check
<1>16. (c16 = "SUCCESS") <=> (f.tokenizer.vocab = h.vocab)  BY DEF Check
<1> DEFINE half == c1 && c2 && c3 && c4 && c5 && c6 && c7 && c8
<1>17. CopyError(f, TRUE) = half && c9 && c10 && c11 && c12 && c13 && c14 && c15 && c16
  BY DEF CopyError
<1> HIDE DEF c1, c2, c3, c4, c5, c6, c7, c8, c9, c10, c11, c12, c13, c14, c15, c16
<1>18. half = "SUCCESS" <=>
         /\ c1 = "SUCCESS" /\ c2 = "SUCCESS" /\ c3 = "SUCCESS" /\ c4 = "SUCCESS"
         /\ c5 = "SUCCESS" /\ c6 = "SUCCESS" /\ c7 = "SUCCESS" /\ c8 = "SUCCESS"
  BY ChainSucceeds
<1> HIDE DEF half
<1>19. CopyError(f, TRUE) = "SUCCESS" <=>
         /\ half = "SUCCESS"
         /\ c9 = "SUCCESS" /\ c10 = "SUCCESS" /\ c11 = "SUCCESS" /\ c12 = "SUCCESS"
         /\ c13 = "SUCCESS" /\ c14 = "SUCCESS" /\ c15 = "SUCCESS" /\ c16 = "SUCCESS"
  <2>1. (half && c9 && c10 && c11 && c12 && c13 && c14 && c15 && c16) = "SUCCESS" <=>
          /\ half = "SUCCESS"
          /\ c9 = "SUCCESS" /\ c10 = "SUCCESS" /\ c11 = "SUCCESS" /\ c12 = "SUCCESS"
          /\ c13 = "SUCCESS" /\ c14 = "SUCCESS" /\ c15 = "SUCCESS" /\ c16 = "SUCCESS"
    BY ChainSucceeds
  <2> QED  BY <1>17, <2>1
<1> QED
  BY <1>1, <1>2, <1>3, <1>4, <1>5, <1>6, <1>7, <1>8, <1>9, <1>10, <1>11, <1>12,
     <1>13, <1>14, <1>15, <1>16, <1>18, <1>19 DEF CopyAccepts

(* And the mapping loader does when its own checks hold.                   *)
LEMMA MapErrorSucceeds ==
  ASSUME NEW f
  PROVE  MapError(f) = "SUCCESS" <=> MapAccepts(f)
<1> DEFINE h == f.fields
           c1 == Check(f.size >= 8, "NOT_BUNDLE")
           c2 == Check(h.magic, "NOT_BUNDLE")
           c3 == Check(f.size >= 160, "FORMAT_ERROR")
           c4 == Check(IsFloat(h), "UNSUPPORTED")
           c5 == Check(h.marker, "UNSUPPORTED")
           c6 == Check(f.size >= h.header_size + 8, "FORMAT_ERROR")
           c7 == Check(HeaderIntact(f), "CHECKSUM_ERROR")
           c8 == Check(ClaimsValid(h), "FORMAT_ERROR")
           c9 == Check(SizeMatches(f), "FORMAT_ERROR")
           c10 == Check(WeightsIntact(f) /\ TokenizerIntact(f), "CHECKSUM_ERROR")
           c11 == Check(f.footer, "FORMAT_ERROR")
           c12 == Check(f.tokenizer.vocab = h.vocab, "FORMAT_ERROR")
<1>1. (c1 = "SUCCESS") <=> (f.size >= 8)  BY DEF Check
<1>2. (c2 = "SUCCESS") <=> (h.magic)  BY DEF Check
<1>3. (c3 = "SUCCESS") <=> (f.size >= 160)  BY DEF Check
<1>4. (c4 = "SUCCESS") <=> (IsFloat(h))  BY DEF Check
<1>5. (c5 = "SUCCESS") <=> (h.marker)  BY DEF Check
<1>6. (c6 = "SUCCESS") <=> (f.size >= h.header_size + 8)  BY DEF Check
<1>7. (c7 = "SUCCESS") <=> (HeaderIntact(f))  BY DEF Check
<1>8. (c8 = "SUCCESS") <=> (ClaimsValid(h))  BY DEF Check
<1>9. (c9 = "SUCCESS") <=> (SizeMatches(f))  BY DEF Check
<1>10. (c10 = "SUCCESS") <=> (WeightsIntact(f) /\ TokenizerIntact(f))  BY DEF Check
<1>11. (c11 = "SUCCESS") <=> (f.footer)  BY DEF Check
<1>12. (c12 = "SUCCESS") <=> (f.tokenizer.vocab = h.vocab)  BY DEF Check
<1>13. MapError(f) = c1 && c2 && c3 && c4 && c5 && c6 && c7 && c8 && 
           c9 && c10 && c11 && c12
  BY DEF MapError
<1> HIDE DEF c1, c2, c3, c4, c5, c6, c7, c8, c9, c10, c11, c12
<1>14. MapError(f) = "SUCCESS" <=>
         /\ c1 = "SUCCESS" /\ c2 = "SUCCESS" /\ c3 = "SUCCESS" /\ c4 = "SUCCESS"
         /\ c5 = "SUCCESS" /\ c6 = "SUCCESS" /\ c7 = "SUCCESS" /\ c8 = "SUCCESS"
         /\ c9 = "SUCCESS" /\ c10 = "SUCCESS" /\ c11 = "SUCCESS" /\ c12 = "SUCCESS"
  BY <1>13, ChainSucceeds
<1> QED
  BY <1>1, <1>2, <1>3, <1>4, <1>5, <1>6, <1>7, <1>8, <1>9, <1>10, <1>11, <1>12,
     <1>14 DEF MapAccepts

(* What a writer asks of a model.                                          *)
LEMMA SaveSucceeds ==
  ASSUME NEW model
  PROVE  SaveError(model) = "SUCCESS" <=>
           /\ model.tokenizer.vocab = model.shape.vocab
           /\ model.tokenizer.frozen
           /\ BundleShapeValid(model.shape, ParamCount(model.shape))
           /\ model.window \in 1..model.shape.sequence
  BY DEF SaveError, &&, Check

(* Reordering a product does not change it.                                *)
LEMMA Commutes ==
  ASSUME NEW a \in Int, NEW b \in Int, NEW c \in Int
  PROVE  /\ a * b \in Int
         /\ a * b = b * a
         /\ a * b * c = c * a * b
  OBVIOUS

(* bundle_shape_valid counts a model's parameters as model_new does.       *)
LEMMA CountPinned ==
  ASSUME NEW s, NEW total, Dimensions(s), BundleShapeValid(s, total)
  PROVE  total = ParamCount(s) /\ total \in Nat
<1> DEFINE square == IF "SWIGLU" \in s.flags THEN 16 ELSE 12
           linear == (IF "RMSNORM" \in s.flags THEN 7 ELSE 9)
                       + (IF "SWIGLU" \in s.flags THEN 4 ELSE 0)
           tables == IF "TIED" \in s.flags THEN 1 ELSE 2
           global == s.vocab * s.embedding * tables + s.vocab
           layer == square * s.embedding * s.embedding + linear * s.embedding
<1>1. square \in Nat /\ linear \in Nat /\ tables \in Nat
  OBVIOUS
<1>2. total = global + s.layers * layer
  BY DEF BundleShapeValid
<1>3. GlobalCount(s) = global
  BY DEF GlobalCount
<1>4. LayerCount(s) = s.embedding * s.embedding * square + s.embedding * linear
  BY DEF LayerCount, LayerSquareFactor, LayerLinearFactor
<1> HIDE DEF square, linear, tables
<1>5. LayerCount(s) = layer /\ layer \in Nat
  <2>1. s.embedding \in Nat
    BY DEF Dimensions
  <2>2. s.embedding * s.embedding * square = square * s.embedding * s.embedding
    BY <2>1, <1>1, Commutes
  <2>3. s.embedding * linear = linear * s.embedding
    BY <2>1, <1>1, Commutes
  <2> QED  BY <2>1, <2>2, <2>3, <1>1, <1>4
<1>6. global \in Nat
  BY <1>1 DEF Dimensions
<1>7. s.layers * layer \in Nat
  BY <1>5 DEF Dimensions
<1> HIDE DEF global, layer
<1> QED  BY <1>2, <1>3, <1>5, <1>6, <1>7 DEF ParamCount

(* The count bundle_shape_valid accepts for a shape is the one model_new    *)
(* allocates: a header cannot claim another.                               *)
THEOREM CountsAgree ==
  ASSUME NEW s, NEW total, Dimensions(s)
  PROVE  CountIsPinned(s, total)
  BY CountPinned DEF CountIsPinned

(* Whatever file both are given, the loaders agree on it and its claims    *)
(* fit: the copying loader's later checks follow from those the mapping    *)
(* loader makes before.                                                    *)
LEMMA LoadersAgreeOnTyped ==
  ASSUME NEW f, IsHeader(f.fields), f.size \in Nat
  PROVE  LoadersAgreeOn(f) /\ ClaimsFitPayload(f)
<1> DEFINE h == f.fields
           s == ClaimedShape(h)
<1>1. Dimensions(s)
  BY DEF Dimensions, IsHeader, ClaimedShape
<1>2. ClaimsValid(h) => BundleShapeValid(s, h.total)
  BY DEF ClaimsValid
<1>3. ClaimsValid(h) => h.total = ParamCount(s)
  BY <1>1, <1>2, CountPinned
<1>4. IsFloat(h) => ~IsQuantized(h) /\ h.header_size \in {152, 192}
  BY DEF IsFloat, IsQuantized, IsV3
<1>5. ClaimsValid(h) /\ IsFloat(h) => h.weight_bytes = h.total * 4
  BY DEF ClaimsValid
<1>6. ClaimsValid(h) => h.tokenizer_bytes >= 24
  BY DEF ClaimsValid
<1>7. /\ h.total \in Nat /\ h.header_size \in Nat
      /\ h.weight_bytes \in Nat /\ h.tokenizer_bytes \in Nat
  BY DEF IsHeader
<1>8. IsFloat(h) => (PayloadParses(f) <=> h.weight_bytes = 4 * ParamCount(s))
  BY DEF PayloadParses
<1>9. SizeMatches(f) <=> f.size = h.header_size + h.weight_bytes + h.tokenizer_bytes + 8
  BY DEF SizeMatches, FooterSize
<1>10. ASSUME MapSucceeds(f)
       PROVE  CopyError(f, TRUE) = "SUCCESS" /\ IsFloat(h)
  <2>1. MapAccepts(f) /\ ModelAccepts(s)
    BY <1>10, MapErrorSucceeds DEF MapSucceeds
  <2>2. IsFloat(h) /\ ClaimsValid(h)
    BY <2>1 DEF MapAccepts
  <2>3. PayloadParses(f)
    BY <2>2, <1>3, <1>5, <1>7, <1>8
  <2>4. f.size >= 24 /\ f.size >= h.header_size
    <3>1. f.size >= 160 /\ f.size >= h.header_size + 8
      BY <2>1 DEF MapAccepts
    <3> QED  BY <3>1, <1>7
  <2>5. CopyAccepts(f)
    BY <2>1, <2>2, <2>3, <2>4, <1>4 DEF MapAccepts, CopyAccepts
  <2> QED  BY <2>2, <2>5, CopySucceeds
<1>11. ASSUME CopyError(f, TRUE) = "SUCCESS", IsFloat(h)
       PROVE  MapSucceeds(f)
  <2>1. CopyAccepts(f)
    BY <1>11, CopySucceeds
  <2>2. f.size >= 160 /\ f.size >= h.header_size + 8
    <3>1. ClaimsValid(h) /\ SizeMatches(f)
      BY <2>1 DEF CopyAccepts
    <3> QED  BY <3>1, <1>4, <1>6, <1>7, <1>9, <1>11
  <2>3. MapAccepts(f)
    BY <2>1, <2>2, <1>11 DEF MapAccepts, CopyAccepts
  <2>4. ModelAccepts(s)
    BY <2>1 DEF CopyAccepts
  <2> QED  BY <2>3, <2>4, MapErrorSucceeds DEF MapSucceeds
<1>12. LoadersAgreeOn(f)
  BY <1>10, <1>11 DEF LoadersAgreeOn
<1>13. ASSUME CopyError(f, TRUE) = "SUCCESS"
       PROVE  /\ h.total = ParamCount(s)
              /\ f.weights.bytes = IF IsFloat(h) THEN 4 * h.total ELSE QuantizedBytes(s, h.policy)
              /\ f.tokenizer.vocab = h.vocab
              /\ ModelAccepts(s)
  <2>1. CopyAccepts(f)
    BY <1>13, CopySucceeds
  <2>2. ClaimsValid(h) /\ PayloadParses(f) /\ ModelAccepts(s) /\ f.tokenizer.vocab = h.vocab
    BY <2>1 DEF CopyAccepts
  <2>3. f.weights.bytes = h.weight_bytes
    BY <2>1 DEF CopyAccepts, WeightsIntact
  <2>4. IsFloat(h) => h.weight_bytes = 4 * h.total
    BY <2>2, <1>5, <1>7
  <2>5. ~IsFloat(h) => h.weight_bytes = QuantizedBytes(s, h.policy)
    BY <2>2 DEF PayloadParses
  <2> QED  BY <2>2, <2>3, <2>4, <2>5, <1>3
<1>14. ClaimsFitPayload(f)
  BY <1>13 DEF ClaimsFitPayload
<1> QED  BY <1>12, <1>14

-----------------------------------------------------------------------------
(* What a save writes loads as the model it was made of.                   *)

(* A model a process can have, and a save does not refuse.                 *)
Savable(m) == IsModel(m) /\ ModelAccepts(m.shape) /\ SaveError(m) = "SUCCESS"

SavedFloat(f, source) == \E m : Savable(m) /\ f = FloatFile(m) /\ source = m

SavedQuantized(f, source) ==
  \E m, policy : /\ Savable(m) /\ PolicyValid(policy)
                 /\ f = QuantizedFile(m, policy) /\ source = QuantizedSource(m, policy)

Saved(f, source) == SavedFloat(f, source) \/ SavedQuantized(f, source)

(* The fields of a header, and how they are read back.                     *)
LEMMA HeaderReadBack ==
  ASSUME NEW m, Savable(m), NEW numeric \in {"float32", "quantized"}, NEW policy, NEW weights
  PROVE  LET h == Fields(m, numeric, policy, weights)
         IN  /\ ClaimedShape(h) = m.shape
             /\ numeric = "float32" => IsFloat(h) /\ ~IsQuantized(h)
             /\ numeric = "quantized" => IsQuantized(h) /\ ~IsFloat(h)
             /\ h.header_size \in {152, 184, 192} /\ h.version \in 1..3
             /\ IsV3(h) <=> m.shape.flags # {}
<1> DEFINE h == Fields(m, numeric, policy, weights)
           s == m.shape
<1>1. /\ h.version = Version(s, numeric) /\ h.header_size = HeaderSize(Version(s, numeric))
      /\ h.numeric = numeric /\ h.flags = s.flags
      /\ h.vocab = s.vocab /\ h.embedding = s.embedding /\ h.heads = s.heads
      /\ h.layers = s.layers /\ h.sequence = s.sequence
  BY DEF Fields
<1>2. s = [vocab |-> s.vocab, embedding |-> s.embedding, heads |-> s.heads,
           layers |-> s.layers, sequence |-> s.sequence, flags |-> s.flags]
  BY DEF Savable, IsModel, IsShape
<1> HIDE DEF h
<1>3. HeaderSize(1) = 152 /\ HeaderSize(2) = 184 /\ HeaderSize(3) = 192
  BY DEF HeaderSize
<1>4. \/ s.flags # {} /\ h.version = 3 /\ h.header_size = 192
      \/ s.flags = {} /\ numeric = "quantized" /\ h.version = 2 /\ h.header_size = 184
      \/ s.flags = {} /\ numeric = "float32" /\ h.version = 1 /\ h.header_size = 152
  BY <1>1, <1>3 DEF Version
<1>5. IsV3(h) <=> s.flags # {}
  BY <1>4 DEF IsV3
<1>6. ClaimedShape(h) = [vocab |-> s.vocab, embedding |-> s.embedding, heads |-> s.heads,
                         layers |-> s.layers, sequence |-> s.sequence, flags |-> s.flags]
  BY <1>1, <1>5 DEF ClaimedShape
<1>7. numeric = "float32" => IsFloat(h) /\ ~IsQuantized(h)
  BY <1>1, <1>4, <1>5 DEF IsFloat, IsQuantized
<1>8. numeric = "quantized" => IsQuantized(h) /\ ~IsFloat(h)
  BY <1>1, <1>4, <1>5 DEF IsFloat, IsQuantized
<1> QED  BY <1>2, <1>4, <1>5, <1>6, <1>7, <1>8 DEF h

(* What any save writes before the payload is looked at.                   *)
LEMMA SavedHeader ==
  ASSUME NEW m, Savable(m), NEW numeric \in {"float32", "quantized"}, NEW policy,
         NEW weights, weights.bytes \in Nat,
         NEW h, h = Fields(m, numeric, policy, weights),
         NEW f, f = File(h, weights, m.tokenizer)
  PROVE  /\ f.size \in Nat /\ f.size >= 160 /\ f.size >= h.header_size
         /\ h.magic /\ h.marker /\ f.footer
         /\ f.footer \in BOOLEAN /\ f.legacy = NONE
         /\ f.fields = h /\ f.weights = weights /\ f.tokenizer = m.tokenizer
         /\ HeaderIntact(f) /\ SizeMatches(f) /\ WeightsIntact(f) /\ TokenizerIntact(f)
         /\ BundleShapeValid(ClaimedShape(h), h.total)
         /\ h.tokenizer_bytes >= 24 /\ h.window \in 1..h.sequence
         /\ ModelAccepts(ClaimedShape(h))
         /\ f.tokenizer.vocab = h.vocab
         /\ IsV3(h) => h.flags # {} /\ h.reserved = 0
         /\ Dimensions(h)
         /\ h.version \in Nat /\ h.header_size \in Nat /\ h.total \in Nat
         /\ h.window \in Nat /\ h.weight_bytes \in Nat /\ h.tokenizer_bytes \in Nat
<1> DEFINE s == m.shape
           tokens == m.tokenizer.bytes
<1>1. /\ Dimensions(s) /\ m.window \in Nat /\ tokens \in Nat /\ tokens >= 24
  BY DEF Savable, IsModel, IsShape, IsTokenizer
<1>2. /\ m.tokenizer.vocab = s.vocab /\ BundleShapeValid(s, ParamCount(s))
      /\ m.window \in 1..s.sequence /\ ModelAccepts(s)
  BY SaveSucceeds DEF Savable
<1>3. ParamCount(s) \in Nat
  BY <1>1, <1>2, CountPinned
<1>4. /\ h.magic = TRUE /\ h.marker = TRUE
      /\ h.vocab = s.vocab /\ h.embedding = s.embedding /\ h.heads = s.heads
      /\ h.layers = s.layers /\ h.sequence = s.sequence /\ h.total = ParamCount(s)
      /\ h.window = m.window /\ h.weight_bytes = weights.bytes /\ h.tokenizer_bytes = tokens
      /\ h.weight_sum = weights /\ h.tokenizer_sum = m.tokenizer
      /\ h.flags = s.flags /\ h.reserved = 0
  BY DEF Fields
<1>5. /\ ClaimedShape(h) = s /\ h.header_size \in {152, 184, 192} /\ h.version \in 1..3
      /\ IsV3(h) <=> s.flags # {}
  BY HeaderReadBack
<1>6. /\ f.fields = h /\ f.sum = h /\ f.weights = weights /\ f.tokenizer = m.tokenizer
      /\ f.footer = TRUE /\ f.legacy = NONE
      /\ f.size = h.header_size + weights.bytes + tokens + 8
  BY DEF File, FooterSize
<1> HIDE DEF tokens
<1>7. f.size \in Nat /\ f.size >= 160 /\ f.size >= h.header_size
  BY <1>1, <1>5, <1>6
<1>8. HeaderIntact(f) /\ SizeMatches(f) /\ WeightsIntact(f) /\ TokenizerIntact(f)
  BY <1>4, <1>6 DEF HeaderIntact, SizeMatches, WeightsIntact, TokenizerIntact, FooterSize, tokens
<1>9. Dimensions(h)
  BY <1>1, <1>4 DEF Dimensions
<1>10. /\ h.tokenizer_bytes >= 24 /\ h.window \in 1..h.sequence
       /\ BundleShapeValid(ClaimedShape(h), h.total) /\ ModelAccepts(ClaimedShape(h))
       /\ f.tokenizer.vocab = h.vocab
  BY <1>1, <1>2, <1>4, <1>5, <1>6
<1>11. /\ h.version \in Nat /\ h.header_size \in Nat /\ h.total \in Nat
       /\ h.window \in Nat /\ h.weight_bytes \in Nat /\ h.tokenizer_bytes \in Nat
  BY <1>1, <1>3, <1>4, <1>5
<1>12. h.magic /\ h.marker /\ f.footer /\ f.footer \in BOOLEAN
  BY <1>4, <1>6
<1>13. IsV3(h) => h.flags # {} /\ h.reserved = 0
  BY <1>4, <1>5
<1> QED  BY <1>6, <1>7, <1>8, <1>9, <1>10, <1>11, <1>12, <1>13

(* What a saved file is to a loader.                                       *)
Loads(f, source) ==
  /\ IsFile(f) /\ f.legacy = NONE
  /\ CopyAccepts(f) /\ LoadedModel(f) = source
  /\ HeaderIntact(f) /\ f.footer = TRUE

(* The scales a policy stores are a natural number.                        *)
LEMMA ScalesInNat ==
  ASSUME NEW s, Dimensions(s), NEW policy, PolicyValid(policy)
  PROVE  ScalesStored(s, policy) \in Nat
<1> DEFINE ts == Tensors(s)
           n == Len(ts)
           scales(t) == IF QuantizeIncludes(policy, t.kind)
                        THEN ScaleCount(t.rows, t.cols, policy.granularity) ELSE 0
           f == [i \in DOMAIN ts |-> scales(ts[i])]
<1>1. n \in Nat /\ DOMAIN ts = 1..n
  BY TensorsAreTyped
<1>2. policy.granularity \in {"tensor", "row", "column"}
  BY DEF PolicyValid
<1>3. ASSUME NEW i \in 1..n
      PROVE  f[i] \in Nat
  <2>1. PICK t \in PieceTensors : t = ts[i]
    BY TensorsAreTyped
  <2>2. t.rows \in Nat /\ t.cols \in Nat
    BY ValuesInNat
  <2>3. ScaleCount(t.rows, t.cols, policy.granularity) \in Nat
    BY <1>2, <2>2 DEF ScaleCount
  <2>4. scales(t) \in Nat
    BY <2>3
  <2>5. f[i] = scales(ts[i])
    BY <1>1
  <2> QED  BY <2>1, <2>4, <2>5
<1>4. ScalesStored(s, policy) = SumOf(f, n)
  BY DEF ScalesStored
<1> HIDE DEF f, n
<1> QED  BY <1>1, <1>3, <1>4, SumInNat

(* A float bundle loads as the model it was saved from.                    *)
LEMMA SavedFloatLoads ==
  ASSUME NEW m, Savable(m)
  PROVE  Loads(FloatFile(m), m)
<1> DEFINE s == m.shape
           w == FloatPayload(m)
           h == Fields(m, "float32", NoPolicy, w)
           f == File(h, w, m.tokenizer)
<1>1. Dimensions(s) /\ BundleShapeValid(s, ParamCount(s))
  BY SaveSucceeds DEF Savable, IsModel, IsShape
<1>2. ParamCount(s) \in Nat
  BY <1>1, CountPinned
<1>3. w.bytes = 4 * ParamCount(s) /\ w.values = m.values
  BY DEF FloatPayload
<1>4. w.bytes \in Nat
  BY <1>2, <1>3
<1>5. FloatFile(m) = f
  BY DEF FloatFile
<1>6. /\ h.policy = NoPolicy /\ h.tensors = 0 /\ h.values = 0 /\ h.scales = 0
      /\ h.total = ParamCount(s) /\ h.weight_bytes = w.bytes
      /\ h.provenance = m.provenance /\ h.window = m.window
  BY DEF Fields
<1>7. IsFloat(h) /\ ~IsQuantized(h) /\ ClaimedShape(h) = s
  BY HeaderReadBack
<1>8. f = [fields |-> h, sum |-> h, weights |-> w, tokenizer |-> m.tokenizer,
           footer |-> TRUE, legacy |-> NONE, size |-> f.size]
  BY DEF File
<1> HIDE DEF w
<1>9. PICK hh, ff : hh = h /\ ff = f
  OBVIOUS
<1> HIDE DEF h, f
<1>10. /\ ff.size \in Nat /\ ff.size >= 160 /\ ff.size >= hh.header_size
       /\ hh.magic /\ hh.marker /\ ff.footer
       /\ ff.legacy = NONE
       /\ ff.fields = hh /\ ff.weights = w /\ ff.tokenizer = m.tokenizer
       /\ HeaderIntact(ff) /\ SizeMatches(ff) /\ WeightsIntact(ff) /\ TokenizerIntact(ff)
       /\ BundleShapeValid(ClaimedShape(hh), hh.total)
       /\ hh.tokenizer_bytes >= 24 /\ hh.window \in 1..hh.sequence
       /\ ModelAccepts(ClaimedShape(hh))
       /\ ff.tokenizer.vocab = hh.vocab
       /\ IsV3(hh) => hh.flags # {} /\ hh.reserved = 0
       /\ Dimensions(hh)
       /\ hh.version \in Nat /\ hh.header_size \in Nat /\ hh.total \in Nat
       /\ hh.window \in Nat /\ hh.weight_bytes \in Nat /\ hh.tokenizer_bytes \in Nat
  BY <1>4, <1>9, SavedHeader DEF h, f
<1>11. ClaimsValid(hh)
  <2>1. hh.weight_bytes = hh.total * 4
    BY <1>2, <1>3, <1>6, <1>9
  <2>2. hh.policy = NoPolicy /\ hh.tensors = 0 /\ hh.values = 0 /\ hh.scales = 0
    BY <1>6, <1>9
  <2> QED  BY <1>10, <2>1, <2>2 DEF ClaimsValid
<1>12. PayloadParses(ff)
  BY <1>3, <1>6, <1>7, <1>9, <1>10 DEF PayloadParses
<1>13. ff.size >= 8 /\ ff.size >= 24
  BY <1>10
<1>14. CopyAccepts(ff)
  BY <1>7, <1>9, <1>10, <1>11, <1>12, <1>13 DEF CopyAccepts
<1>15. IsHeader(hh)
  BY <1>6, <1>9, <1>10 DEF IsHeader
<1>16. ff.footer = TRUE
  BY <1>8, <1>9
<1>17. IsFile(ff)
  <2>1. ff.sum = hh
    BY <1>8, <1>9
  <2>2. ff = [fields |-> ff.fields, sum |-> ff.sum, weights |-> ff.weights,
              tokenizer |-> ff.tokenizer, footer |-> ff.footer, legacy |-> ff.legacy,
              size |-> ff.size]
    BY <1>8, <1>9, <1>10, <1>16, <2>1
  <2> QED  BY <1>10, <1>15, <1>16, <2>2 DEF IsFile
<1>18. LoadedModel(ff) = m
  <2>1. m = [shape |-> m.shape, values |-> m.values, provenance |-> m.provenance,
             window |-> m.window, tokenizer |-> m.tokenizer]
    BY DEF Savable, IsModel
  <2>2. LoadedModel(ff) = [shape |-> s, values |-> m.values, provenance |-> m.provenance,
                           window |-> m.window, tokenizer |-> m.tokenizer]
    BY <1>3, <1>6, <1>7, <1>9, <1>10 DEF LoadedModel
  <2> QED  BY <2>1, <2>2
<1> QED  BY <1>5, <1>9, <1>10, <1>14, <1>16, <1>17, <1>18 DEF Loads

(* A model's record with other values.                                     *)
LEMMA SourceOfModel ==
  ASSUME NEW m,
         m = [shape |-> m.shape, values |-> m.values, provenance |-> m.provenance,
              window |-> m.window, tokenizer |-> m.tokenizer],
         NEW values
  PROVE  Source(m, values) =
           [shape |-> m.shape, values |-> values, provenance |-> m.provenance,
            window |-> m.window, tokenizer |-> m.tokenizer]
<1>1. ASSUME NEW a, NEW b, NEW c, NEW d, NEW e
      PROVE  [[shape |-> a, values |-> b, provenance |-> c, window |-> d, tokenizer |-> e]
                EXCEPT !.values = values]
             = [shape |-> a, values |-> values, provenance |-> c, window |-> d, tokenizer |-> e]
  OBVIOUS
<1>2. Source(m, values) =
        [[shape |-> m.shape, values |-> m.values, provenance |-> m.provenance,
          window |-> m.window, tokenizer |-> m.tokenizer] EXCEPT !.values = values]
  BY Zenon DEF Source
<1> QED  BY <1>1, <1>2, Zenon

(* A quantized bundle loads as the model it was made from, its values      *)
(* followed by the policy.                                                 *)
LEMMA SavedQuantizedLoads ==
  ASSUME NEW m, Savable(m), NEW policy, PolicyValid(policy)
  PROVE  Loads(QuantizedFile(m, policy), QuantizedSource(m, policy))
<1> DEFINE s == m.shape
           w == QuantizedPayload(m, policy)
           h == Fields(m, "quantized", policy, w)
           f == File(h, w, m.tokenizer)
<1>1. Dimensions(s) /\ BundleShapeValid(s, ParamCount(s))
  BY SaveSucceeds DEF Savable, IsModel, IsShape
<1>2. ParamCount(s) \in Nat
  BY <1>1, CountPinned
<1>3. /\ w.bytes = QuantizedBytes(s, policy) /\ w.shape = s /\ w.policy = policy
      /\ w.unpackable = TRUE /\ w.values = Append(m.values, policy)
  BY DEF QuantizedPayload
<1>4. w.bytes \in Nat
  BY <1>1, <1>3, QuantizedBytesInNat
<1>5. QuantizedFile(m, policy) = f
  BY DEF QuantizedFile
<1>6. /\ h.policy = policy /\ h.tensors = Len(Tensors(s))
      /\ h.values = QuantizedValues(s, policy) /\ h.scales = ScalesStored(s, policy)
      /\ h.total = ParamCount(s) /\ h.weight_bytes = w.bytes
      /\ h.provenance = m.provenance /\ h.window = m.window
  BY DEF Fields
<1>7. IsQuantized(h) /\ ~IsFloat(h) /\ ClaimedShape(h) = s
  BY HeaderReadBack
<1>8. f = [fields |-> h, sum |-> h, weights |-> w, tokenizer |-> m.tokenizer,
           footer |-> TRUE, legacy |-> NONE, size |-> f.size]
  BY DEF File
<1> HIDE DEF w
<1>9. PICK hh, ff : hh = h /\ ff = f
  OBVIOUS
<1> HIDE DEF h, f
<1>10. /\ ff.size \in Nat /\ ff.size >= 160 /\ ff.size >= hh.header_size
       /\ hh.magic /\ hh.marker /\ ff.footer
       /\ ff.legacy = NONE
       /\ ff.fields = hh /\ ff.weights = w /\ ff.tokenizer = m.tokenizer
       /\ HeaderIntact(ff) /\ SizeMatches(ff) /\ WeightsIntact(ff) /\ TokenizerIntact(ff)
       /\ BundleShapeValid(ClaimedShape(hh), hh.total)
       /\ hh.tokenizer_bytes >= 24 /\ hh.window \in 1..hh.sequence
       /\ ModelAccepts(ClaimedShape(hh))
       /\ ff.tokenizer.vocab = hh.vocab
       /\ IsV3(hh) => hh.flags # {} /\ hh.reserved = 0
       /\ Dimensions(hh)
       /\ hh.version \in Nat /\ hh.header_size \in Nat /\ hh.total \in Nat
       /\ hh.window \in Nat /\ hh.weight_bytes \in Nat /\ hh.tokenizer_bytes \in Nat
  BY <1>4, <1>9, SavedHeader DEF h, f
<1>11. ClaimsValid(hh)
  BY <1>7, <1>9, <1>10 DEF ClaimsValid
<1>12. PayloadParses(ff)
  BY <1>3, <1>6, <1>7, <1>9, <1>10 DEF PayloadParses
<1>21. /\ QuantizedValues(s, policy) \in Nat /\ QuantizedValues(s, policy) <= ParamCount(s)
       /\ ScalesStored(s, policy) \in Nat /\ Len(Tensors(s)) \in Nat /\ Len(Tensors(s)) > 0
  <2>1. s.layers > 0
    BY <1>1 DEF BundleShapeValid
  <2> QED  BY <1>1, <2>1, QuantizedValuesBounded, ScalesInNat, TensorsAreTyped, InventoryDescribed
<1>22. QuantizationClaimsValid(hh)
  <2>1. hh.tensors # 0 /\ hh.values <= hh.total /\ hh.policy = policy
    BY <1>6, <1>9, <1>21
  <2> QED  BY <2>1 DEF QuantizationClaimsValid
<1>13. ff.size >= 8 /\ ff.size >= 24
  BY <1>10
<1>14. CopyAccepts(ff)
  BY <1>7, <1>9, <1>10, <1>11, <1>12, <1>13, <1>22 DEF CopyAccepts
<1>15. IsHeader(hh)
  BY <1>6, <1>9, <1>10, <1>21 DEF IsHeader
<1>16. ff.footer = TRUE
  BY <1>8, <1>9
<1>17. IsFile(ff)
  <2>1. ff.sum = hh
    BY <1>8, <1>9
  <2>2. ff = [fields |-> ff.fields, sum |-> ff.sum, weights |-> ff.weights,
              tokenizer |-> ff.tokenizer, footer |-> ff.footer, legacy |-> ff.legacy,
              size |-> ff.size]
    BY <1>8, <1>9, <1>10, <1>16, <2>1
  <2> QED  BY <1>10, <1>15, <1>16, <2>2 DEF IsFile
<1>18. LoadedModel(ff) = QuantizedSource(m, policy)
  <2>1. m = [shape |-> m.shape, values |-> m.values, provenance |-> m.provenance,
             window |-> m.window, tokenizer |-> m.tokenizer]
    BY DEF Savable, IsModel
  <2>2. QuantizedSource(m, policy) =
          [shape |-> m.shape, values |-> Append(m.values, policy),
           provenance |-> m.provenance, window |-> m.window, tokenizer |-> m.tokenizer]
    BY <2>1, SourceOfModel DEF QuantizedSource
  <2>3. LoadedModel(ff) = [shape |-> s, values |-> Append(m.values, policy),
                           provenance |-> m.provenance, window |-> m.window,
                           tokenizer |-> m.tokenizer]
    BY <1>3, <1>6, <1>7, <1>9, <1>10 DEF LoadedModel
  <2> QED  BY <2>2, <2>3
<1> QED  BY <1>5, <1>9, <1>10, <1>14, <1>16, <1>17, <1>18 DEF Loads

(* Whatever a save wrote, whole, is accepted and loads as its source.      *)
LEMMA SavedLoads ==
  ASSUME NEW f, NEW source, Saved(f, source)
  PROVE  Loads(f, source)
  BY SavedFloatLoads, SavedQuantizedLoads DEF Saved, SavedFloat, SavedQuantized

(* A bundle with one part changed is refused by both loaders.              *)
LEMMA DamageRefused ==
  ASSUME NEW f, NEW source, Saved(f, source), NEW g, IsFile(g), Damaged(f, g)
  PROVE  CopyError(g, TRUE) # "SUCCESS" /\ ~MapSucceeds(g)
<1>1. Loads(f, source)
  BY SavedLoads
<1>2. /\ f.sum = f.fields /\ f.fields.weight_sum = f.weights
      /\ f.fields.tokenizer_sum = f.tokenizer /\ f.footer = TRUE
      /\ f.size = f.fields.header_size + f.fields.weight_bytes
                    + f.fields.tokenizer_bytes + FooterSize
  BY <1>1 DEF Loads, CopyAccepts, HeaderIntact, WeightsIntact, TokenizerIntact, SizeMatches
<1>3. \/ g.fields # f.fields /\ g.sum = f.sum
      \/ g.sum # f.sum /\ g.fields = f.fields
      \/ g.weights # f.weights /\ g.fields = f.fields
      \/ g.tokenizer # f.tokenizer /\ g.fields = f.fields
      \/ g.footer # f.footer
      \/ g.size # f.size /\ g.fields = f.fields
  <2>1. PICK part \in {"fields", "sum", "weights", "tokenizer", "footer", "size"} :
          /\ g[part] # f[part]
          /\ \A other \in {"fields", "sum", "weights", "tokenizer", "footer", "size"} \ {part} :
               g[other] = f[other]
    BY DEF Damaged
  <2> QED  BY <2>1
<1>4. \/ ~HeaderIntact(g) \/ ~WeightsIntact(g) \/ ~TokenizerIntact(g)
      \/ ~SizeMatches(g) \/ g.footer = FALSE
  <2>1. CASE g.fields # f.fields /\ g.sum = f.sum
    BY <1>2, <2>1 DEF HeaderIntact
  <2>2. CASE g.sum # f.sum /\ g.fields = f.fields
    BY <1>2, <2>2 DEF HeaderIntact
  <2>3. CASE g.weights # f.weights /\ g.fields = f.fields
    BY <1>2, <2>3 DEF WeightsIntact
  <2>4. CASE g.tokenizer # f.tokenizer /\ g.fields = f.fields
    BY <1>2, <2>4 DEF TokenizerIntact
  <2>5. CASE g.footer # f.footer
    BY <1>2, <2>5 DEF IsFile
  <2>6. CASE g.size # f.size /\ g.fields = f.fields
    BY <1>2, <2>6 DEF SizeMatches
  <2> QED  BY <1>3, <2>1, <2>2, <2>3, <2>4, <2>5, <2>6
<1>5. ~CopyAccepts(g)
  BY <1>4 DEF CopyAccepts
<1>6. ~MapAccepts(g)
  BY <1>4 DEF MapAccepts
<1> QED  BY <1>5, <1>6, CopySucceeds, MapErrorSucceeds DEF MapSucceeds

-----------------------------------------------------------------------------
(* Sequences of files.                                                     *)

IsSequence(s) == \E S : s \in Seq(S)

(* What appending does to a sequence of anything.                          *)
LEMMA Appended ==
  ASSUME NEW s, IsSequence(s), NEW x
  PROVE  /\ IsSequence(Append(s, x)) /\ Len(s) \in Nat
         /\ Len(Append(s, x)) = Len(s) + 1
         /\ DOMAIN s = 1..Len(s) /\ DOMAIN Append(s, x) = 1..(Len(s) + 1)
         /\ Append(s, x)[Len(s) + 1] = x
         /\ \A i \in 1..Len(s) : Append(s, x)[i] = s[i]
<1>1. PICK S : s \in Seq(S)
  BY DEF IsSequence
<1> DEFINE T == S \cup {x}
<1>2. s \in Seq(T) /\ x \in T
  BY <1>1
<1> HIDE DEF T
<1>3. Append(s, x) \in Seq(T)
  BY <1>2
<1>4. Len(s) \in Nat /\ Len(Append(s, x)) = Len(s) + 1 /\ DOMAIN s = 1..Len(s)
      /\ DOMAIN Append(s, x) = 1..(Len(s) + 1)
  BY <1>2, <1>3
<1>5. Append(s, x)[Len(s) + 1] = x /\ \A i \in 1..Len(s) : Append(s, x)[i] = s[i]
  BY <1>2
<1> QED  BY <1>3, <1>4, <1>5 DEF IsSequence

(* A count of parameters is a natural number.                              *)
LEMMA ParamCountInNat ==
  ASSUME NEW s, Dimensions(s)
  PROVE  ParamCount(s) \in Nat
<1>1. PICK v \in Nat, e \in Nat, l \in Nat : v = s.vocab /\ e = s.embedding /\ l = s.layers
  BY DEF Dimensions
<1>2. PICK square \in Nat : square = LayerSquareFactor(s.flags)
  BY DEF LayerSquareFactor
<1>3. PICK linear \in Nat : linear = LayerLinearFactor(s.flags)
  BY DEF LayerLinearFactor
<1>4. v * e \in Nat /\ e * e \in Nat /\ e * linear \in Nat
  OBVIOUS
<1>5. (e * e) * square \in Nat
  BY <1>4
<1>6. LayerCount(s) = e * e * square + e * linear
  BY <1>1, <1>2, <1>3 DEF LayerCount
<1>7. LayerCount(s) \in Nat
  BY <1>4, <1>5, <1>6
<1>8. PICK p \in Nat : p = v * e
  BY <1>4
<1>9. GlobalCount(s) = p * (IF "TIED" \in s.flags THEN 1 ELSE 2) + v
  BY <1>1, <1>8 DEF GlobalCount
<1>10. GlobalCount(s) \in Nat
  BY <1>9
<1>11. PICK layer \in Nat : layer = LayerCount(s)
  BY <1>7
<1>12. l * layer \in Nat
  OBVIOUS
<1> QED  BY <1>1, <1>10, <1>11, <1>12 DEF ParamCount

(* What a loader returns is a model a process can have.                    *)
LEMMA LoadedIsModel ==
  ASSUME NEW f, IsFile(f), CopyError(f, TRUE) = "SUCCESS"
  PROVE  IsModel(LoadedModel(f)) /\ ModelAccepts(LoadedModel(f).shape)
<1> DEFINE h == f.fields
           m == LoadedModel(f)
           s == ClaimedShape(h)
<1>1. IsHeader(h)
  BY DEF IsFile
<1>2. /\ ModelAccepts(s) /\ TokenizerIntact(f) /\ h.tokenizer_bytes >= 24
  BY CopySucceeds DEF CopyAccepts, ClaimsValid
<1>3. m = [shape |-> s, values |-> f.weights.values, provenance |-> h.provenance,
           window |-> h.window, tokenizer |-> f.tokenizer]
  BY DEF LoadedModel
<1>4. s = [vocab |-> h.vocab, embedding |-> h.embedding, heads |-> h.heads,
           layers |-> h.layers, sequence |-> h.sequence,
           flags |-> IF IsV3(h) THEN h.flags ELSE {}]
  BY DEF ClaimedShape
<1>5. IsShape(s)
  <2>1. PICK flags : s = [vocab |-> h.vocab, embedding |-> h.embedding, heads |-> h.heads,
                          layers |-> h.layers, sequence |-> h.sequence, flags |-> flags]
    BY <1>4
  <2>2. Dimensions(h)
    BY <1>1 DEF IsHeader
  <2> HIDE DEF s
  <2> QED  BY <2>1, <2>2 DEF IsShape, Dimensions
<1>6. IsTokenizer(f.tokenizer)
  BY <1>1, <1>2 DEF IsTokenizer, TokenizerIntact, IsHeader
<1>7. h.window \in Nat
  BY <1>1 DEF IsHeader
<1> HIDE DEF m, s, h
<1>8. m.shape = s /\ IsModel(m)
  BY <1>3, <1>5, <1>6, <1>7 DEF IsModel
<1> QED  BY <1>2, <1>8 DEF m

(* And what the mapping loader accepts the copying loader accepts.         *)
LEMMA MappedIsModel ==
  ASSUME NEW f, IsFile(f), MapError(f) = "SUCCESS", ModelAccepts(ClaimedShape(f.fields))
  PROVE  IsModel(LoadedModel(f)) /\ ModelAccepts(LoadedModel(f).shape)
<1>1. LoadersAgreeOn(f)
  BY LoadersAgreeOnTyped DEF IsFile
<1>2. CopyError(f, TRUE) = "SUCCESS"
  BY <1>1 DEF LoadersAgreeOn, MapSucceeds
<1> QED  BY <1>2, LoadedIsModel

(* A model whose tokenizer is replaced.                                    *)
LEMMA WithTokenizer ==
  ASSUME NEW m, IsModel(m), NEW t, IsTokenizer(t)
  PROVE  IsModel([m EXCEPT !.tokenizer = t]) /\ [m EXCEPT !.tokenizer = t].shape = m.shape
<1>1. ASSUME NEW a, NEW b, NEW c, NEW d, NEW e
      PROVE  [[shape |-> a, values |-> b, provenance |-> c, window |-> d, tokenizer |-> e]
                EXCEPT !.tokenizer = t]
             = [shape |-> a, values |-> b, provenance |-> c, window |-> d, tokenizer |-> t]
  OBVIOUS
<1>2. m = [shape |-> m.shape, values |-> m.values, provenance |-> m.provenance,
           window |-> m.window, tokenizer |-> m.tokenizer]
  BY DEF IsModel
<1>3. [m EXCEPT !.tokenizer = t] =
        [[shape |-> m.shape, values |-> m.values, provenance |-> m.provenance,
          window |-> m.window, tokenizer |-> m.tokenizer] EXCEPT !.tokenizer = t]
  BY <1>2, Zenon
<1>4. PICK n : n = [m EXCEPT !.tokenizer = t]
  OBVIOUS
<1>5. n = [shape |-> m.shape, values |-> m.values, provenance |-> m.provenance,
           window |-> m.window, tokenizer |-> t]
  BY <1>1, <1>3, <1>4, Zenon
<1>6. IsShape(m.shape) /\ m.window \in Nat
  BY DEF IsModel
<1>7. IsModel(n) /\ n.shape = m.shape
  BY <1>5, <1>6 DEF IsModel
<1> QED  BY <1>4, <1>7, Zenon

(* A model whose weights change in place.                                  *)
LEMMA WithValues ==
  ASSUME NEW m, IsModel(m), NEW values
  PROVE  IsModel(Source(m, values)) /\ Source(m, values).shape = m.shape
<1>1. PICK n : n = Source(m, values)
  OBVIOUS
<1>2. n = [shape |-> m.shape, values |-> values, provenance |-> m.provenance,
           window |-> m.window, tokenizer |-> m.tokenizer]
  BY <1>1, SourceOfModel DEF IsModel
<1>3. IsShape(m.shape) /\ m.window \in Nat /\ IsTokenizer(m.tokenizer)
  BY DEF IsModel
<1>4. IsModel(n) /\ n.shape = m.shape
  BY <1>2, <1>3 DEF IsModel
<1> QED  BY <1>1, <1>4, Zenon

(* Two fields of a file record replaced.                                   *)
LEMMA LegacyFields ==
  ASSUME NEW a, NEW b, NEW c, NEW d, NEW e, NEW m, NEW t
  PROVE  [[fields |-> a, sum |-> a, weights |-> b, tokenizer |-> c, footer |-> t,
           legacy |-> d, size |-> e] EXCEPT !.fields.magic = FALSE, !.legacy = m]
         = [fields |-> [a EXCEPT !.magic = FALSE], sum |-> a, weights |-> b,
            tokenizer |-> c, footer |-> t, legacy |-> m, size |-> e]
<1>1. PICK g : g = [a EXCEPT !.magic = FALSE]
  OBVIOUS
<1>2. PICK r : r = [fields |-> a, sum |-> a, weights |-> b, tokenizer |-> c,
                    footer |-> t, legacy |-> d, size |-> e]
  OBVIOUS
<1>3. r.fields = a
  BY <1>2
<1>4. PICK q : q = [r EXCEPT !.fields = g]
  OBVIOUS
<1>5. q = [fields |-> g, sum |-> a, weights |-> b, tokenizer |-> c,
           footer |-> t, legacy |-> d, size |-> e]
  BY <1>2, <1>4
<1>6. ASSUME NEW x
      PROVE  [[fields |-> x, sum |-> a, weights |-> b, tokenizer |-> c, footer |-> t,
               legacy |-> d, size |-> e] EXCEPT !.legacy = m]
             = [fields |-> x, sum |-> a, weights |-> b, tokenizer |-> c, footer |-> t,
                legacy |-> m, size |-> e]
  OBVIOUS
<1>7. q = [r EXCEPT !.fields = [r.fields EXCEPT !.magic = FALSE]]
  BY <1>1, <1>3, <1>4, Zenon
<1>8. q = [r EXCEPT !.fields.magic = FALSE]
  BY <1>7, Zenon
<1>9. [r EXCEPT !.fields.magic = FALSE, !.legacy = m] = [q EXCEPT !.legacy = m]
  BY <1>8, Zenon
<1> QED  BY <1>1, <1>2, <1>5, <1>6, <1>9, Zenon

(* A file of an older release is a file.                                   *)
LEMMA LegacyIsFile ==
  ASSUME NEW m, IsModel(m), ModelAccepts(m.shape)
  PROVE  IsFile(LegacyFile(m)) /\ LegacyFile(m).legacy = m
<1> DEFINE s == m.shape
           w == FloatPayload(m)
           h == Fields(m, "float32", NoPolicy, w)
           g == [h EXCEPT !.magic = FALSE]
           size == h.header_size + w.bytes + m.tokenizer.bytes + FooterSize
<1>1. Dimensions(s) /\ m.window \in Nat /\ m.tokenizer.bytes \in Nat
  BY DEF IsModel, IsShape, IsTokenizer
<1>2. ParamCount(s) \in Nat
  BY <1>1, ParamCountInNat
<1>3. w.bytes = 4 * ParamCount(s)
  BY DEF FloatPayload
<1>4. w.bytes \in Nat
  BY <1>2, <1>3
<1>5. h.version \in 1..3 /\ h.version = Version(s, "float32")
      /\ h.header_size = HeaderSize(Version(s, "float32"))
  BY DEF Fields, Version
<1>6. HeaderSize(1) = 152 /\ HeaderSize(2) = 184 /\ HeaderSize(3) = 192
  BY DEF HeaderSize
<1>7. h.header_size \in Nat /\ h.version \in Nat
  BY <1>5, <1>6
<1>8. /\ g.vocab = s.vocab /\ g.embedding = s.embedding /\ g.heads = s.heads
      /\ g.layers = s.layers /\ g.sequence = s.sequence
      /\ g.version = h.version /\ g.header_size = h.header_size
      /\ g.total = ParamCount(s) /\ g.window = m.window /\ g.weight_bytes = w.bytes
      /\ g.tokenizer_bytes = m.tokenizer.bytes
      /\ g.tensors = 0 /\ g.values = 0 /\ g.scales = 0
  BY DEF Fields
<1>9. LegacyFile(m) = [fields |-> g, sum |-> h, weights |-> w, tokenizer |-> m.tokenizer,
                       footer |-> TRUE, legacy |-> m, size |-> size]
  <2>1. PICK t : t = TRUE
    OBVIOUS
  <2>2. LegacyFile(m) =
          [[fields |-> h, sum |-> h, weights |-> w, tokenizer |-> m.tokenizer, footer |-> t,
            legacy |-> NONE, size |-> size] EXCEPT !.fields.magic = FALSE, !.legacy = m]
    BY <2>1, Zenon DEF LegacyFile, FloatFile, File
  <2> HIDE DEF h, w, size
  <2>3. LegacyFile(m) = [fields |-> [h EXCEPT !.magic = FALSE], sum |-> h, weights |-> w,
                         tokenizer |-> m.tokenizer, footer |-> t, legacy |-> m,
                         size |-> size]
    BY <2>2, LegacyFields, Zenon
  <2> QED  BY <2>1, <2>3, Zenon DEF g
<1>10. size \in Nat
  BY <1>1, <1>4, <1>7 DEF FooterSize
<1> HIDE DEF g, h, w, size
<1>11. IsHeader(g)
  BY <1>1, <1>2, <1>4, <1>7, <1>8 DEF IsHeader, Dimensions
<1>12. PICK f : f = LegacyFile(m)
  OBVIOUS
<1>13. f.fields = g /\ f.sum = h /\ f.weights = w /\ f.tokenizer = m.tokenizer
       /\ f.footer = TRUE /\ f.legacy = m /\ f.size = size
  BY <1>9, <1>12
<1>14. f = [fields |-> f.fields, sum |-> f.sum, weights |-> f.weights,
            tokenizer |-> f.tokenizer, footer |-> f.footer, legacy |-> f.legacy,
            size |-> f.size]
  BY <1>9, <1>12, <1>13
<1>15. IsFile(f)
  BY <1>10, <1>11, <1>13, <1>14 DEF IsFile
<1> QED  BY <1>12, <1>13, <1>15, Zenon

-----------------------------------------------------------------------------
(* The files of a store, what the path may name and the models of the      *)
(* processes: the inductive invariant, in parts.                           *)

(* A file that is neither edited nor of an older release is what some save *)
(* wrote for its source.                                                   *)
IsInode(inode) ==
  /\ inode = [file |-> inode.file, source |-> inode.source, written |-> inode.written,
              synced |-> inode.synced, edit |-> inode.edit]
  /\ inode.written \in Nat /\ inode.synced \in BOOLEAN
  /\ IsFile(inode.file)
  /\ (inode.edit = NONE /\ inode.file.legacy = NONE) => Saved(inode.file, inode.source)
  /\ inode.edit = "damaged" =>
       CopyError(inode.file, TRUE) # "SUCCESS" /\ ~MapSucceeds(inode.file)

Whole(inode) == inode.written >= Sections(inode.file)

FilesInv(files) == IsSequence(files) /\ \A i \in DOMAIN files : IsInode(files[i])

(* The path, now or after a power loss, names a whole, synced file or none.*)
PathInv(files, name, names) ==
  /\ name \in names /\ names \subseteq 0..Len(files)
  /\ \A i \in names : i # 0 => Whole(files[i]) /\ files[i].synced

(* A live model is one a save or a loader can work on; a mapped one has the*)
(* weights of its file.                                                    *)
IsHandle(handle, files) ==
  handle # NONE =>
    /\ handle = [model |-> handle.model, read_only |-> handle.read_only,
                 file |-> handle.file]
    /\ handle.read_only \in BOOLEAN
    /\ IsModel(handle.model) /\ ModelAccepts(handle.model.shape)
    /\ handle.read_only =>
         /\ handle.file \in DOMAIN files
         /\ files[handle.file].file.weights.values = handle.model.values

StoreInv ==
  /\ FilesInv(inodes)
  /\ PathInv(inodes, path, recent)
  /\ temp \in [Procs -> 0..Len(inodes)]
  /\ DOMAIN live = Procs /\ \A p \in Procs : IsHandle(live[p], inodes)

(* A file of which another part is written or synced.                      *)
LEMMA InodeWritten ==
  ASSUME NEW inode, IsInode(inode), NEW n \in Nat, NEW new, new = [inode EXCEPT !.written = n]
  PROVE  /\ IsInode(new) /\ new.file = inode.file /\ new.written = n
         /\ new.synced = inode.synced
<1>1. ASSUME NEW a, NEW b, NEW c, NEW d, NEW e
      PROVE  [[file |-> a, source |-> b, written |-> c, synced |-> d, edit |-> e]
                EXCEPT !.written = n]
             = [file |-> a, source |-> b, written |-> n, synced |-> d, edit |-> e]
  OBVIOUS
<1>2. inode = [file |-> inode.file, source |-> inode.source, written |-> inode.written,
              synced |-> inode.synced, edit |-> inode.edit]
  BY DEF IsInode
<1>3. new = [[file |-> inode.file, source |-> inode.source, written |-> inode.written,
              synced |-> inode.synced, edit |-> inode.edit] EXCEPT !.written = n]
  BY <1>2, Zenon
<1>4. new = [file |-> inode.file, source |-> inode.source, written |-> n,
             synced |-> inode.synced, edit |-> inode.edit]
  BY <1>1, <1>3, Zenon
<1>5. /\ new.file = inode.file /\ new.written = n /\ new.synced = inode.synced
      /\ new.source = inode.source /\ new.edit = inode.edit
  BY <1>4
<1>6. new = [file |-> new.file, source |-> new.source, written |-> new.written,
             synced |-> new.synced, edit |-> new.edit]
  BY <1>4, <1>5, Zenon
<1> QED  BY <1>5, <1>6 DEF IsInode

(* And one that is synced.                                                 *)
LEMMA InodeSynced ==
  ASSUME NEW inode, IsInode(inode), NEW new, new = [inode EXCEPT !.synced = TRUE]
  PROVE  /\ IsInode(new) /\ new.file = inode.file /\ new.written = inode.written
         /\ new.synced = TRUE
<1>1. PICK t : t = TRUE
  OBVIOUS
<1>2. ASSUME NEW a, NEW b, NEW c, NEW d, NEW e, NEW f
      PROVE  [[file |-> a, source |-> b, written |-> c, synced |-> d, edit |-> e]
                EXCEPT !.synced = f]
             = [file |-> a, source |-> b, written |-> c, synced |-> f, edit |-> e]
  OBVIOUS
<1>3. inode = [file |-> inode.file, source |-> inode.source, written |-> inode.written,
              synced |-> inode.synced, edit |-> inode.edit]
  BY DEF IsInode
<1>4. new = [[file |-> inode.file, source |-> inode.source, written |-> inode.written,
              synced |-> inode.synced, edit |-> inode.edit] EXCEPT !.synced = t]
  BY <1>1, <1>3, Zenon
<1>5. new = [file |-> inode.file, source |-> inode.source, written |-> inode.written,
             synced |-> t, edit |-> inode.edit]
  BY <1>2, <1>4, Zenon
<1>6. /\ new.file = inode.file /\ new.written = inode.written /\ new.synced = t
      /\ new.source = inode.source /\ new.edit = inode.edit
  BY ONLY <1>5
<1>7. new = [file |-> new.file, source |-> new.source, written |-> new.written,
             synced |-> new.synced, edit |-> new.edit]
  BY <1>5, <1>6, Zenon
<1>8. new.synced = TRUE
  BY <1>1, <1>6
<1> QED  BY <1>6, <1>7, <1>8 DEF IsInode

(* A new temporary file.                                                   *)
LEMMA InodeCreated ==
  ASSUME NEW file, NEW source, IsFile(file), file.legacy # NONE \/ Saved(file, source),
         NEW new, new = Inode(file, source)
  PROVE  /\ IsInode(new) /\ new.file = file /\ new.written = 0
<1>1. new = [file |-> file, source |-> source, written |-> 0, synced |-> FALSE, edit |-> NONE]
  BY DEF Inode
<1>2. PICK f : f = FALSE
  OBVIOUS
<1>3. new = [file |-> file, source |-> source, written |-> 0, synced |-> f, edit |-> NONE]
  BY <1>1, <1>2, Zenon
<1>4. /\ new.file = file /\ new.written = 0 /\ new.synced = f
      /\ new.source = source /\ new.edit = NONE
  BY <1>3
<1>5. new = [file |-> new.file, source |-> new.source, written |-> new.written,
             synced |-> new.synced, edit |-> new.edit]
  BY <1>3, <1>4, Zenon
<1>6. NONE # "damaged"
  BY BundleStoreAssumption, Zenon
<1>7. new.synced \in BOOLEAN
  BY <1>2, <1>4
<1>8. new.file.legacy # NONE \/ Saved(new.file, new.source)
  BY <1>4, Zenon
<1>9. IsFile(new.file) /\ new.written \in Nat
  BY <1>4
<1>10. new.edit # "damaged"
  BY <1>4, <1>6
<1> QED  BY <1>4, <1>5, <1>7, <1>8, <1>9, <1>10 DEF IsInode

(* A file that is there from the start.                                    *)
LEMMA InodeSettled ==
  ASSUME NEW file, NEW source, IsFile(file), file.legacy # NONE \/ Saved(file, source),
         NEW new, new = Settled(file, source)
  PROVE  IsInode(new) /\ Whole(new) /\ new.synced
<1>1. PICK a, b : a = Inode(file, source) /\ b = [a EXCEPT !.written = Sections(file)]
  OBVIOUS
<1>2. Sections(file) \in {4, 5}
  BY DEF Sections
<1>3. IsInode(a) /\ a.file = file
  BY <1>1, InodeCreated
<1>4. PICK n \in Nat : n = Sections(file)
  BY <1>2
<1>5. IsInode(b) /\ b.file = file /\ b.written = Sections(file)
  BY <1>1, <1>3, <1>4, InodeWritten
<1>6. new = [[a EXCEPT !.written = Sections(file)] EXCEPT !.synced = TRUE]
  BY <1>1, Zenon DEF Settled
<1>7. new = [b EXCEPT !.synced = TRUE]
  BY <1>1, <1>6, Zenon
<1>8. IsInode(new) /\ new.file = b.file /\ new.written = b.written /\ new.synced = TRUE
  BY <1>5, <1>7, InodeSynced
<1> QED  BY <1>2, <1>5, <1>8 DEF Whole

(* A copy of a saved file whose content was edited.                        *)
LEMMA InodeEdited ==
  ASSUME NEW inode, IsInode(inode), inode.edit = NONE, inode.file.legacy = NONE,
         inode.synced, NEW file, IsFile(file),
         NEW new, new = [inode EXCEPT !.file = file, !.written = Sections(file),
                                      !.edit = IF Damaged(inode.file, file)
                                               THEN "damaged" ELSE "edited"]
  PROVE  IsInode(new) /\ Whole(new) /\ new.synced
<1>1. PICK n, edit : n = Sections(file)
                     /\ edit = IF Damaged(inode.file, file) THEN "damaged" ELSE "edited"
  OBVIOUS
<1>2. ASSUME NEW a, NEW b, NEW c, NEW d, NEW e
      PROVE  [[file |-> a, source |-> b, written |-> c, synced |-> d, edit |-> e]
                EXCEPT !.file = file]
             = [file |-> file, source |-> b, written |-> c, synced |-> d, edit |-> e]
  OBVIOUS
<1>3. ASSUME NEW a, NEW b, NEW c, NEW d, NEW e
      PROVE  [[file |-> a, source |-> b, written |-> c, synced |-> d, edit |-> e]
                EXCEPT !.written = n]
             = [file |-> a, source |-> b, written |-> n, synced |-> d, edit |-> e]
  OBVIOUS
<1>4. ASSUME NEW a, NEW b, NEW c, NEW d, NEW e
      PROVE  [[file |-> a, source |-> b, written |-> c, synced |-> d, edit |-> e]
                EXCEPT !.edit = edit]
             = [file |-> a, source |-> b, written |-> c, synced |-> d, edit |-> edit]
  OBVIOUS
<1>5. inode = [file |-> inode.file, source |-> inode.source, written |-> inode.written,
              synced |-> inode.synced, edit |-> inode.edit]
  BY DEF IsInode
<1>6. PICK x, y : x = [inode EXCEPT !.file = file] /\ y = [x EXCEPT !.written = n]
  OBVIOUS
<1>7. x = [file |-> file, source |-> inode.source, written |-> inode.written,
           synced |-> inode.synced, edit |-> inode.edit]
  BY <1>2, <1>5, <1>6, Zenon
<1>8. y = [file |-> file, source |-> inode.source, written |-> n,
           synced |-> inode.synced, edit |-> inode.edit]
  BY <1>3, <1>6, <1>7, Zenon
<1>9. new = [y EXCEPT !.edit = edit]
  BY <1>1, <1>6, Zenon
<1>10. new = [file |-> file, source |-> inode.source, written |-> n,
              synced |-> inode.synced, edit |-> edit]
  BY <1>4, <1>8, <1>9, Zenon
<1>11. /\ new.file = file /\ new.written = n /\ new.synced = inode.synced
       /\ new.source = inode.source /\ new.edit = edit
  BY ONLY <1>10
<1>12. new = [file |-> new.file, source |-> new.source, written |-> new.written,
              synced |-> new.synced, edit |-> new.edit]
  BY <1>10, <1>11, Zenon
<1>13. n \in Nat /\ n = Sections(file)
  BY <1>1 DEF Sections
<1>14. edit # NONE
  BY <1>1, BundleStoreAssumption
<1>15. edit = "damaged" => CopyError(file, TRUE) # "SUCCESS" /\ ~MapSucceeds(file)
  <2>1. Saved(inode.file, inode.source)
    BY DEF IsInode
  <2>2. edit = "damaged" => Damaged(inode.file, file)
    BY <1>1
  <2> QED  BY <2>1, <2>2, DamageRefused
<1>16. inode.synced \in BOOLEAN
  BY DEF IsInode
<1>17. Whole(new)
  BY <1>11, <1>13 DEF Whole
<1>18. IsInode(new)
  BY <1>11, <1>12, <1>13, <1>14, <1>15, <1>16 DEF IsInode
<1> QED  BY <1>11, <1>17, <1>18

(* A file added to the store.                                              *)
LEMMA FilesAppended ==
  ASSUME NEW files, FilesInv(files), NEW new, IsInode(new)
  PROVE  /\ FilesInv(Append(files, new))
         /\ Len(files) \in Nat /\ Len(Append(files, new)) = Len(files) + 1
         /\ Append(files, new)[Len(files) + 1] = new
         /\ \A name, names : PathInv(files, name, names) =>
              PathInv(Append(files, new), name, names)
         /\ \A handle : IsHandle(handle, files) => IsHandle(handle, Append(files, new))
<1> DEFINE more == Append(files, new)
<1>1. /\ IsSequence(more) /\ Len(files) \in Nat /\ Len(more) = Len(files) + 1
      /\ DOMAIN files = 1..Len(files) /\ DOMAIN more = 1..(Len(files) + 1)
      /\ more[Len(files) + 1] = new /\ \A i \in 1..Len(files) : more[i] = files[i]
  BY Appended DEF FilesInv
<1> HIDE DEF more
<1>2. ASSUME NEW i \in DOMAIN more
      PROVE  IsInode(more[i])
  <2>1. i = Len(files) + 1 \/ i \in 1..Len(files)
    BY <1>1
  <2> QED  BY <1>1, <2>1 DEF FilesInv
<1>3. FilesInv(more)
  BY <1>1, <1>2 DEF FilesInv
<1>4. ASSUME NEW name, NEW names, PathInv(files, name, names)
      PROVE  PathInv(more, name, names)
  <2>1. names \subseteq 0..Len(files) /\ names \subseteq 0..Len(more) /\ name \in names
    BY <1>1, <1>4 DEF PathInv
  <2>2. ASSUME NEW i \in names, i # 0
        PROVE  Whole(more[i]) /\ more[i].synced
    <3>1. i \in 1..Len(files)
      BY <1>1, <2>1, <2>2
    <3> QED  BY <1>1, <1>4, <2>2, <3>1 DEF PathInv
  <2> QED  BY <2>1, <2>2 DEF PathInv
<1>5. ASSUME NEW handle, IsHandle(handle, files)
      PROVE  IsHandle(handle, more)
  <2>1. \A i \in DOMAIN files : i \in DOMAIN more /\ more[i] = files[i]
    BY <1>1
  <2> QED  BY <1>5, <2>1 DEF IsHandle
<1> QED  BY <1>1, <1>3, <1>4, <1>5 DEF more

(* Files of which more or less is written, or that are synced.             *)
Rewritten(files, new) ==
  /\ IsSequence(new) /\ DOMAIN new = DOMAIN files /\ Len(new) = Len(files)
  /\ \A i \in DOMAIN files : IsInode(new[i]) /\ new[i].file = files[i].file

(* Handles keep their weights then.                                        *)
LEMMA FilesRewritten ==
  ASSUME NEW files, FilesInv(files), NEW new, Rewritten(files, new)
  PROVE  /\ FilesInv(new)
         /\ \A handle : IsHandle(handle, files) => IsHandle(handle, new)
<1>1. FilesInv(new)
  BY DEF Rewritten, FilesInv
<1>2. ASSUME NEW handle, IsHandle(handle, files)
      PROVE  IsHandle(handle, new)
  BY <1>2 DEF IsHandle, Rewritten
<1> QED  BY <1>1, <1>2

(* One of them replaced.                                                   *)
LEMMA Replaced ==
  ASSUME NEW files, FilesInv(files), NEW i \in DOMAIN files, NEW x, IsInode(x),
         x.file = files[i].file, NEW new, new = [files EXCEPT ![i] = x]
  PROVE  /\ Rewritten(files, new) /\ new[i] = x
         /\ \A j \in DOMAIN files : j # i => new[j] = files[j]
<1>1. PICK S : files \in Seq(S)
  BY DEF FilesInv, IsSequence
<1> DEFINE T == S \cup {x}
<1>2. files \in Seq(T) /\ x \in T
  BY <1>1
<1> HIDE DEF T
<1>3. new \in Seq(T) /\ Len(new) = Len(files) /\ DOMAIN new = DOMAIN files
      /\ new[i] = x /\ \A j \in DOMAIN files : j # i => new[j] = files[j]
  BY <1>2
<1> QED  BY <1>3 DEF Rewritten, IsSequence, FilesInv

(* What the path names is read whole.                                      *)
LEMMA ReadsWhole ==
  ASSUME StoreInv, path # 0
  PROVE  /\ path \in DOMAIN inodes /\ path \in recent
         /\ IsInode(inodes[path]) /\ inodes[path].synced
         /\ Reading = inodes[path].file /\ IsFile(Reading)
<1>1. PICK S : inodes \in Seq(S)
  BY DEF StoreInv, FilesInv, IsSequence
<1>2. path \in 0..Len(inodes) /\ path \in recent
  BY DEF StoreInv, PathInv
<1>3. path \in DOMAIN inodes
  BY <1>1, <1>2
<1>4. Whole(inodes[path]) /\ inodes[path].synced
  BY <1>2 DEF StoreInv, PathInv
<1>5. IsInode(inodes[path])
  BY <1>3 DEF StoreInv, FilesInv
<1>6. Reading = inodes[path].file
  BY <1>4 DEF Reading, Visible, Whole
<1>7. IsFile(Reading)
  BY <1>5, <1>6 DEF IsInode
<1> QED  BY <1>2, <1>3, <1>4, <1>5, <1>6, <1>7

(* A handle with a model of its own, or on a file.                         *)
LEMMA OwnedHandle ==
  ASSUME NEW model, IsModel(model), ModelAccepts(model.shape), NEW files
  PROVE  IsHandle(Owned(model), files)
  BY DEF Owned, IsHandle

(* And one that maps a file's.                                             *)
LEMMA MappedHandle ==
  ASSUME NEW model, IsModel(model), ModelAccepts(model.shape), NEW files,
         NEW i \in DOMAIN files, files[i].file.weights.values = model.values
  PROVE  IsHandle(Mapped(model, i), files)
  BY DEF Mapped, IsHandle

-----------------------------------------------------------------------------
(* The invariant holds.                                                    *)

(* An empty store, and a store of one file.                                *)
LEMMA NoFiles == FilesInv(<< >>) /\ Len(<< >>) = 0
<1>1. << >> \in Seq({}) /\ DOMAIN << >> = {} /\ Len(<< >>) = 0
  OBVIOUS
<1> QED  BY <1>1 DEF FilesInv, IsSequence

(* A store of one settled file, which the path names.                      *)
LEMMA OneFile ==
  ASSUME NEW new, IsInode(new), Whole(new), new.synced
  PROVE  FilesInv(<<new>>) /\ PathInv(<<new>>, 1, {1}) /\ Len(<<new>>) = 1
<1>1. <<new>> \in Seq({new}) /\ DOMAIN <<new>> = {1} /\ Len(<<new>>) = 1 /\ <<new>>[1] = new
  OBVIOUS
<1>2. FilesInv(<<new>>)
  BY <1>1 DEF FilesInv, IsSequence
<1> QED  BY <1>1, <1>2 DEF PathInv

(* Every start: no file, a bundle of either kind or a legacy model.        *)
LEMMA InitStore == Init => StoreInv
<1> SUFFICES ASSUME Init PROVE StoreInv
  OBVIOUS
<1>1. FilesInv(inodes) /\ PathInv(inodes, path, recent) /\ Len(inodes) \in Nat
  <2>1. path = Len(inodes) /\ recent = {path}
    BY DEF Init
  <2>2. CASE inodes = << >>
    <3>1. path = 0 /\ recent = {0} /\ Len(inodes) = 0
      BY <2>1, <2>2, NoFiles
    <3>2. FilesInv(inodes)
      BY <2>2, NoFiles
    <3> QED  BY <3>1, <3>2 DEF PathInv
  <2>3. ASSUME NEW new, IsInode(new), Whole(new), new.synced, inodes = <<new>>
        PROVE  FilesInv(inodes) /\ PathInv(inodes, path, recent) /\ Len(inodes) \in Nat
    BY <2>1, <2>3, OneFile
  <2>4. ASSUME NEW model \in OldModels, inodes = <<Settled(FloatFile(model), model)>>
        PROVE  FilesInv(inodes) /\ PathInv(inodes, path, recent) /\ Len(inodes) \in Nat
    <3>1. Savable(model)
      BY BundleStoreAssumption DEF Savable
    <3>2. Saved(FloatFile(model), model)
      BY <3>1 DEF Saved, SavedFloat
    <3>3. IsFile(FloatFile(model))
      BY <3>1, SavedFloatLoads DEF Loads
    <3> QED  BY <2>3, <2>4, <3>2, <3>3, InodeSettled
  <2>5. ASSUME NEW model \in OldModels, NEW policy \in OldPolicies,
               inodes = <<Settled(QuantizedFile(model, policy), QuantizedSource(model, policy))>>
        PROVE  FilesInv(inodes) /\ PathInv(inodes, path, recent) /\ Len(inodes) \in Nat
    <3>1. Savable(model) /\ PolicyValid(policy)
      BY BundleStoreAssumption DEF Savable
    <3>2. Saved(QuantizedFile(model, policy), QuantizedSource(model, policy))
      BY <3>1 DEF Saved, SavedQuantized
    <3>3. IsFile(QuantizedFile(model, policy))
      BY <3>1, SavedQuantizedLoads DEF Loads
    <3> QED  BY <2>3, <2>5, <3>2, <3>3, InodeSettled
  <2>6. ASSUME NEW model \in LegacyModels, inodes = <<Settled(LegacyFile(model), model)>>
        PROVE  FilesInv(inodes) /\ PathInv(inodes, path, recent) /\ Len(inodes) \in Nat
    <3>1. IsModel(model) /\ model # NONE /\ ModelAccepts(model.shape)
      BY BundleStoreAssumption
    <3>2. IsFile(LegacyFile(model)) /\ LegacyFile(model).legacy # NONE
      BY <3>1, LegacyIsFile
    <3> QED  BY <2>3, <2>6, <3>2, InodeSettled
  <2>7. \/ inodes = << >>
        \/ \E model \in OldModels : inodes = <<Settled(FloatFile(model), model)>>
        \/ \E model \in OldModels, policy \in OldPolicies :
             inodes = <<Settled(QuantizedFile(model, policy), QuantizedSource(model, policy))>>
        \/ \E model \in LegacyModels : inodes = <<Settled(LegacyFile(model), model)>>
    BY DEF Init
  <2> QED  BY <2>2, <2>4, <2>5, <2>6, <2>7
<1>2. temp = [p \in Procs |-> 0] /\ live = [p \in Procs |-> NONE]
  BY DEF Init
<1>3. temp \in [Procs -> 0..Len(inodes)]
  BY <1>1, <1>2
<1>4. DOMAIN live = Procs /\ \A p \in Procs : IsHandle(live[p], inodes)
  BY <1>2 DEF IsHandle
<1> QED  BY <1>1, <1>3, <1>4 DEF StoreInv

(* A step that only gives a process another model, and may drop its        *)
(* temporary file.                                                         *)
LEMMA HandleStep ==
  ASSUME StoreInv, NEW p \in Procs, NEW handle, IsHandle(handle, inodes),
         live' = [live EXCEPT ![p] = handle],
         temp' = temp \/ temp' = [temp EXCEPT ![p] = 0],
         UNCHANGED <<inodes, path, recent>>
  PROVE  StoreInv'
<1>1. Len(inodes) \in Nat
  <2>1. PICK S : inodes \in Seq(S)
    BY DEF StoreInv, FilesInv, IsSequence
  <2> QED  BY <2>1
<1>2. /\ temp \in [Procs -> 0..Len(inodes)]
      /\ DOMAIN live = Procs /\ \A q \in Procs : IsHandle(live[q], inodes)
      /\ FilesInv(inodes) /\ PathInv(inodes, path, recent)
  BY DEF StoreInv
<1>3. temp' \in [Procs -> 0..Len(inodes)]
  BY <1>1, <1>2
<1>4. DOMAIN live' = Procs /\ \A q \in Procs : live'[q] = IF q = p THEN handle ELSE live[q]
  BY <1>2
<1>5. \A q \in Procs : IsHandle(live'[q], inodes)
  BY <1>2, <1>4
<1>6. inodes' = inodes /\ path' = path /\ recent' = recent
  OBVIOUS
<1>7. FilesInv(inodes') /\ PathInv(inodes', path', recent')
  BY <1>2, <1>6
<1>8. temp' \in [Procs -> 0..Len(inodes')]
  BY <1>3, <1>6
<1>9. \A q \in Procs : IsHandle(live'[q], inodes')
  BY <1>5, <1>6
<1> QED  BY <1>4, <1>7, <1>8, <1>9 DEF StoreInv

(* A file number a process holds.                                          *)
LEMMA CurrentFile ==
  ASSUME StoreInv, NEW p \in Procs, ~Idle(p)
  PROVE  temp[p] \in DOMAIN inodes /\ IsInode(inodes[temp[p]]) /\ temp[p] \in 0..Len(inodes)
<1>1. PICK S : inodes \in Seq(S)
  BY DEF StoreInv, FilesInv, IsSequence
<1>2. temp[p] \in 0..Len(inodes) /\ temp[p] # 0
  BY DEF StoreInv, Idle
<1>3. temp[p] \in DOMAIN inodes
  BY <1>1, <1>2
<1> QED  BY <1>2, <1>3 DEF StoreInv, FilesInv

(* Training and quantizing in place change a model a process owns.         *)
LEMMA TrainKeeps ==
  ASSUME StoreInv, NEW p \in Procs, NEW tag, ChangeWeights(p, tag)
  PROVE  StoreInv'
<1> DEFINE old == live[p]
           new == Source(old.model, Append(old.model.values, tag))
<1>1. /\ IsHandle(old, inodes) /\ DOMAIN live = Procs
  BY DEF StoreInv
<1>2. /\ old # NONE /\ ~old.read_only
      /\ live' = [live EXCEPT ![p].model.values = Append(@, tag)]
      /\ UNCHANGED <<inodes, path, recent, temp>>
  BY DEF ChangeWeights, Writable
<1>3. live' = [live EXCEPT
                 ![p] = [live[p] EXCEPT !.model.values = Append(live[p].model.values, tag)]]
  BY <1>2, Zenon
<1>4. live' = [live EXCEPT ![p] = [old EXCEPT !.model = new]]
  BY <1>3, Zenon DEF Source
<1>5. /\ old = [model |-> old.model, read_only |-> old.read_only, file |-> old.file]
      /\ IsModel(old.model) /\ ModelAccepts(old.model.shape) /\ old.read_only = FALSE
  BY <1>1, <1>2 DEF IsHandle
<1>6. PICK o, n : o = old /\ n = new
  OBVIOUS
<1>7. IsModel(n) /\ ModelAccepts(n.shape)
  BY <1>5, <1>6, WithValues
<1> HIDE DEF new, old
<1>8. PICK handle : handle = [o EXCEPT !.model = n]
  OBVIOUS
<1>9. ASSUME NEW a, NEW b, NEW c
      PROVE  [[model |-> a, read_only |-> b, file |-> c] EXCEPT !.model = n]
             = [model |-> n, read_only |-> b, file |-> c]
  OBVIOUS
<1>10. handle = [model |-> n, read_only |-> o.read_only, file |-> o.file]
  <2>1. o = [model |-> o.model, read_only |-> o.read_only, file |-> o.file]
    BY <1>5, <1>6, Zenon
  <2>2. handle = [[model |-> o.model, read_only |-> o.read_only, file |-> o.file]
                    EXCEPT !.model = n]
    BY <1>8, <2>1, Zenon
  <2> QED  BY <1>9, <2>2, Zenon
<1>11. handle.model = n /\ handle.read_only = o.read_only /\ handle.file = o.file
  BY ONLY <1>10
<1>12. handle = [model |-> handle.model, read_only |-> handle.read_only, file |-> handle.file]
  BY <1>10, <1>11, Zenon
<1>13. handle.read_only = FALSE
  BY <1>5, <1>6, <1>11
<1>14. IsHandle(handle, inodes)
  BY <1>7, <1>11, <1>12, <1>13 DEF IsHandle
<1>15. live' = [live EXCEPT ![p] = handle]
  BY <1>4, <1>6, <1>8, Zenon
<1> QED  BY <1>2, <1>14, <1>15, HandleStep

(* A save opens a file of its own; the path does not name it yet.          *)
LEMMA BeginKeeps ==
  ASSUME StoreInv, NEW p \in Procs, NEW file, NEW source, IsFile(file), Saved(file, source),
         BeginSave(p, file, source)
  PROVE  StoreInv'
<1> DEFINE new == Inode(file, source)
<1>1. /\ FilesInv(inodes) /\ PathInv(inodes, path, recent)
      /\ temp \in [Procs -> 0..Len(inodes)]
      /\ DOMAIN live = Procs /\ \A q \in Procs : IsHandle(live[q], inodes)
  BY DEF StoreInv
<1>2. inodes' = Append(inodes, new) /\ temp' = [temp EXCEPT ![p] = Len(inodes) + 1]
      /\ path' = path /\ recent' = recent /\ live' = live
  BY DEF BeginSave, Opened
<1>3. IsInode(new)
  BY InodeCreated
<1> HIDE DEF new
<1>4. /\ FilesInv(inodes') /\ Len(inodes) \in Nat /\ Len(inodes') = Len(inodes) + 1
      /\ PathInv(inodes', path, recent)
      /\ \A q \in Procs : IsHandle(live[q], inodes')
  BY <1>1, <1>2, <1>3, FilesAppended
<1>5. temp' \in [Procs -> 0..Len(inodes')]
  BY <1>1, <1>2, <1>4
<1>6. PathInv(inodes', path', recent')
  BY <1>2, <1>4
<1>7. DOMAIN live' = Procs /\ \A q \in Procs : IsHandle(live'[q], inodes')
  BY <1>1, <1>2, <1>4
<1> QED  BY <1>4, <1>5, <1>6, <1>7 DEF StoreInv

(* A process's temporary file grows, or is synced.                         *)
LEMMA TemporaryStep ==
  ASSUME StoreInv, NEW i \in DOMAIN inodes, NEW new, IsInode(new),
         new.file = inodes[i].file, new.written >= inodes[i].written,
         inodes[i].synced => new.synced,
         inodes' = [inodes EXCEPT ![i] = new],
         UNCHANGED <<path, recent, temp, live>>
  PROVE  StoreInv'
<1>1. /\ FilesInv(inodes) /\ PathInv(inodes, path, recent)
      /\ temp \in [Procs -> 0..Len(inodes)]
      /\ DOMAIN live = Procs /\ \A q \in Procs : IsHandle(live[q], inodes)
  BY DEF StoreInv
<1>2. PICK files : files = inodes'
  OBVIOUS
<1>3. /\ Rewritten(inodes, files) /\ files[i] = new
      /\ \A j \in DOMAIN inodes : j # i => files[j] = inodes[j]
  BY <1>1, <1>2, Replaced
<1>4. FilesInv(files) /\ Len(files) = Len(inodes)
      /\ \A q \in Procs : IsHandle(live[q], files)
  BY <1>1, <1>3, FilesRewritten DEF Rewritten
<1>5. PathInv(files, path, recent)
  <2>1. ASSUME NEW j \in recent, j # 0
        PROVE  Whole(files[j]) /\ files[j].synced
    <3>1. Whole(inodes[j]) /\ inodes[j].synced /\ j \in 0..Len(inodes)
      BY <1>1, <2>1 DEF PathInv
    <3>2. j \in DOMAIN inodes
      <4>1. PICK S : inodes \in Seq(S)
        BY <1>1 DEF FilesInv, IsSequence
      <4> QED  BY <2>1, <3>1, <4>1
    <3>3. CASE j # i
      BY <1>3, <3>1, <3>2, <3>3
    <3>4. CASE j = i
      <4>1. files[j] = new
        BY <1>3, <3>4
      <4>2. inodes[i].written \in Nat /\ new.written \in Nat
        BY <1>1 DEF FilesInv, IsInode
      <4>3. Sections(new.file) = Sections(inodes[i].file) /\ Sections(new.file) \in Nat
        BY DEF Sections
      <4>4. new.written >= Sections(new.file)
        BY <3>1, <3>4, <4>2, <4>3 DEF Whole
      <4> QED  BY <3>1, <3>4, <4>1, <4>4 DEF Whole
    <3> QED  BY <3>3, <3>4
  <2> QED  BY <1>1, <1>4, <2>1 DEF PathInv
<1>6. PathInv(inodes', path', recent')
  BY <1>2, <1>5
<1>7. FilesInv(inodes') /\ temp' \in [Procs -> 0..Len(inodes')]
  BY <1>1, <1>2, <1>4
<1>8. DOMAIN live' = Procs /\ \A q \in Procs : IsHandle(live'[q], inodes')
  BY <1>1, <1>2, <1>4
<1> QED  BY <1>6, <1>7, <1>8 DEF StoreInv

(* It grows by a section,                                                  *)
LEMMA WriteKeeps ==
  ASSUME StoreInv, NEW p \in Procs, WriteSection(p)
  PROVE  StoreInv'
<1> DEFINE i == temp[p]
<1>1. i \in DOMAIN inodes /\ IsInode(inodes[i])
  BY CurrentFile DEF WriteSection
<1>2. PICK n, new : n = inodes[i].written + 1 /\ new = [inodes[i] EXCEPT !.written = n]
  OBVIOUS
<1>3. inodes[i].written \in Nat
  BY <1>1 DEF IsInode
<1>4. n \in Nat /\ n >= inodes[i].written
  BY <1>2, <1>3
<1>5. IsInode(new) /\ new.file = inodes[i].file /\ new.written = n
      /\ new.synced = inodes[i].synced
  BY <1>1, <1>2, <1>4, InodeWritten
<1>6. /\ inodes' = [inodes EXCEPT ![temp[p]].written = @ + 1]
      /\ UNCHANGED <<path, recent, temp, live>>
  BY DEF WriteSection
<1>7. inodes' = [inodes EXCEPT ![i] = new]
  BY <1>2, <1>6, Zenon
<1> HIDE DEF i
<1> QED  BY <1>1, <1>4, <1>5, <1>6, <1>7, TemporaryStep

(* is synced,                                                              *)
LEMMA SyncKeeps ==
  ASSUME StoreInv, NEW p \in Procs, Sync(p)
  PROVE  StoreInv'
<1> DEFINE i == temp[p]
<1>1. i \in DOMAIN inodes /\ IsInode(inodes[i])
  BY CurrentFile DEF Sync
<1>2. PICK new : new = [inodes[i] EXCEPT !.synced = TRUE]
  OBVIOUS
<1>3. IsInode(new) /\ new.file = inodes[i].file /\ new.written = inodes[i].written
      /\ new.synced = TRUE
  BY <1>1, <1>2, InodeSynced
<1>4. inodes[i].written \in Nat
  BY <1>1 DEF IsInode
<1>5. /\ inodes' = [inodes EXCEPT ![temp[p]].synced = TRUE]
      /\ UNCHANGED <<path, recent, temp, live>>
  BY DEF Sync
<1>6. inodes' = [inodes EXCEPT ![i] = new]
  BY <1>2, <1>5, Zenon
<1> HIDE DEF i
<1>7. new.written >= inodes[i].written
  BY <1>3, <1>4
<1> QED  BY <1>1, <1>3, <1>5, <1>6, <1>7, TemporaryStep

(* and only then the path names it: it is whole and synced.                *)
LEMMA RenameKeeps ==
  ASSUME StoreInv, NEW p \in Procs, Rename(p)
  PROVE  StoreInv'
<1> DEFINE i == temp[p]
<1>1. i \in DOMAIN inodes /\ IsInode(inodes[i]) /\ i \in 0..Len(inodes)
  BY CurrentFile DEF Rename
<1>2. /\ FilesInv(inodes) /\ PathInv(inodes, path, recent)
      /\ temp \in [Procs -> 0..Len(inodes)]
      /\ DOMAIN live = Procs /\ \A q \in Procs : IsHandle(live[q], inodes)
  BY DEF StoreInv
<1>3. /\ inodes[i].written = Sections(inodes[i].file) /\ inodes[i].synced
      /\ path' = i /\ recent' = recent \cup {i} /\ temp' = [temp EXCEPT ![p] = 0]
      /\ inodes' = inodes /\ live' = live
  BY DEF Rename, SyncDue, Current
<1> HIDE DEF i
<1>4. Whole(inodes[i])
  BY <1>3 DEF Whole, Sections
<1>5. PathInv(inodes, path', recent')
  <2>1. ASSUME NEW j \in recent', j # 0
        PROVE  Whole(inodes[j]) /\ inodes[j].synced
    BY <1>2, <1>3, <1>4, <2>1 DEF PathInv
  <2>2. path' \in recent' /\ recent' \subseteq 0..Len(inodes)
    BY <1>1, <1>2, <1>3 DEF PathInv
  <2> QED  BY <2>1, <2>2 DEF PathInv
<1>6. temp' \in [Procs -> 0..Len(inodes)]
  <2>1. PICK S : inodes \in Seq(S)
    BY <1>2 DEF FilesInv, IsSequence
  <2> QED  BY <1>2, <1>3, <2>1
<1>7. FilesInv(inodes') /\ PathInv(inodes', path', recent')
      /\ temp' \in [Procs -> 0..Len(inodes')]
  BY <1>2, <1>3, <1>5, <1>6
<1>8. DOMAIN live' = Procs /\ \A q \in Procs : IsHandle(live'[q], inodes')
  BY <1>2, <1>3
<1> QED  BY <1>7, <1>8 DEF StoreInv

(* A save of either kind starts from a model that is not refused, so the   *)
(* file it is going to write is a saved one.                               *)
LEMMA SaveKeeps ==
  ASSUME StoreInv, NEW p \in Procs, Save(p)
  PROVE  StoreInv'
<1> DEFINE m == live[p].model
<1>1. /\ live[p] # NONE /\ SaveError(m) = "SUCCESS" /\ BeginSave(p, FloatFile(m), m)
  BY DEF Save, BeginSave
<1>2. Savable(m)
  BY <1>1 DEF StoreInv, IsHandle, Savable
<1> HIDE DEF m
<1>3. Saved(FloatFile(m), m)
  BY <1>2 DEF Saved, SavedFloat
<1>4. IsFile(FloatFile(m))
  BY <1>2, SavedFloatLoads DEF Loads
<1> QED  BY <1>1, <1>3, <1>4, BeginKeeps

(* The same of a quantized bundle.                                         *)
LEMMA SaveQuantizedKeeps ==
  ASSUME StoreInv, NEW p \in Procs, NEW policy, SaveQuantized(p, policy)
  PROVE  StoreInv'
<1> DEFINE m == live[p].model
<1>1. /\ live[p] # NONE /\ SaveError(m) = "SUCCESS" /\ PolicyValid(policy)
      /\ BeginSave(p, QuantizedFile(m, policy), QuantizedSource(m, policy))
  BY DEF SaveQuantized, BeginSave
<1>2. Savable(m)
  BY <1>1 DEF StoreInv, IsHandle, Savable
<1> HIDE DEF m
<1>3. Saved(QuantizedFile(m, policy), QuantizedSource(m, policy))
  BY <1>1, <1>2 DEF Saved, SavedQuantized
<1>4. IsFile(QuantizedFile(m, policy))
  BY <1>1, <1>2, SavedQuantizedLoads DEF Loads
<1> QED  BY <1>1, <1>3, <1>4, BeginKeeps

(* A new model is one a process can have.                                  *)
LEMMA NewModelKeeps ==
  ASSUME StoreInv, NEW p \in Procs, NewModel(p)
  PROVE  StoreInv'
<1>1. PICK model \in Models : ModelAccepts(model.shape) /\ Hold(p, Owned(model))
  BY DEF NewModel
<1>2. IsModel(model)
  BY BundleStoreAssumption
<1>3. IsHandle(Owned(model), inodes)
  BY <1>1, <1>2, OwnedHandle
<1>4. UNCHANGED <<inodes, path, recent, temp>> /\ live' = [live EXCEPT ![p] = Owned(model)]
  BY <1>1 DEF NewModel, Hold
<1> QED  BY <1>3, <1>4, HandleStep

(* A process gives its model up, or is killed.                             *)
LEMMA ReleaseKeeps ==
  ASSUME StoreInv, NEW p \in Procs, FreeModel(p) \/ Kill(p)
  PROVE  StoreInv'
<1>1. IsHandle(NONE, inodes)
  BY DEF IsHandle
<1>2. /\ UNCHANGED <<inodes, path, recent>> /\ live' = [live EXCEPT ![p] = NONE]
      /\ temp' = temp \/ temp' = [temp EXCEPT ![p] = 0]
  BY DEF FreeModel, Kill, Hold
<1> QED  BY <1>1, <1>2, HandleStep

(* A failed save leaves its temporary file behind, unnamed.                *)
LEMMA SaveFailsKeeps ==
  ASSUME StoreInv, NEW p \in Procs, SaveFails(p)
  PROVE  StoreInv'
<1>1. DOMAIN live = Procs /\ IsHandle(live[p], inodes)
  BY DEF StoreInv
<1>2. /\ UNCHANGED <<inodes, path, recent>> /\ temp' = [temp EXCEPT ![p] = 0]
      /\ live' = live
  BY DEF SaveFails
<1> QED
  <2>1. Len(inodes) \in Nat
    <3>1. PICK S : inodes \in Seq(S)
      BY DEF StoreInv, FilesInv, IsSequence
    <3> QED  BY <3>1
  <2>2. temp \in [Procs -> 0..Len(inodes)] /\ \A q \in Procs : IsHandle(live[q], inodes)
        /\ FilesInv(inodes) /\ PathInv(inodes, path, recent)
    BY DEF StoreInv
  <2>3. temp' \in [Procs -> 0..Len(inodes)]
    BY <1>2, <2>1, <2>2
  <2>4. inodes' = inodes /\ path' = path /\ recent' = recent
    BY <1>2
  <2>5. FilesInv(inodes') /\ PathInv(inodes', path', recent')
        /\ temp' \in [Procs -> 0..Len(inodes')]
    BY <2>2, <2>3, <2>4
  <2>6. DOMAIN live' = Procs /\ \A q \in Procs : IsHandle(live'[q], inodes')
    BY <1>1, <1>2, <2>2
  <2> QED  BY <2>5, <2>6 DEF StoreInv

(* Loading: a whole file is read, so what was checked is what was saved.   *)
LEMMA LoadCopyKeeps ==
  ASSUME StoreInv, NEW p \in Procs, LoadCopy(p)
  PROVE  StoreInv'
<1> DEFINE m == LoadedModel(Reading)
<1>1. /\ path # 0 /\ CopyError(Reading, TRUE) = "SUCCESS"
      /\ live' = [live EXCEPT ![p] = Owned(m)]
      /\ UNCHANGED <<inodes, path, recent, temp>>
  BY Zenon DEF LoadCopy, Hold
<1>2. IsFile(Reading)
  BY <1>1, ReadsWhole
<1>3. PICK f : f = Reading
  OBVIOUS
<1>4. IsModel(m) /\ ModelAccepts(m.shape)
  BY <1>1, <1>2, <1>3, LoadedIsModel
<1> HIDE DEF m
<1>5. IsHandle(Owned(m), inodes)
  BY <1>4, OwnedHandle
<1> QED  BY <1>1, <1>5, HandleStep

(* A mapped model has the weights of the file it maps.                     *)
LEMMA LoadMappedKeeps ==
  ASSUME StoreInv, NEW p \in Procs, NEW memory, LoadMapped(p, memory)
  PROVE  StoreInv'
<1>1. IsHandle(NONE, inodes)
  BY DEF IsHandle
<1>2. path # 0 /\ UNCHANGED <<inodes, path, recent, temp>>
  BY DEF LoadMapped
<1>3. /\ IsFile(Reading) /\ Reading = inodes[path].file /\ path \in DOMAIN inodes
  BY <1>2, ReadsWhole
<1>4. PICK f : f = Reading
  OBVIOUS
<1>5. \/ live' = [live EXCEPT ![p] = NONE]
      \/ /\ live' = [live EXCEPT ![p] = Mapped(LoadedModel(f), path)]
         /\ MapError(f) = "SUCCESS" /\ ModelAccepts(ClaimedShape(f.fields))
  <2> DEFINE stage == IF MapError(f) # "SUCCESS" THEN "checks"
                      ELSE IF ~ModelAccepts(ClaimedShape(f.fields)) THEN "shape"
                      ELSE memory
  <2>1. live' = [live EXCEPT ![p] = IF stage = NONE THEN Mapped(LoadedModel(f), path) ELSE NONE]
    BY <1>4, Zenon DEF LoadMapped, Hold
  <2>2. CASE MapError(f) = "SUCCESS" /\ ModelAccepts(ClaimedShape(f.fields))
    BY <2>1, <2>2
  <2>3. CASE ~(MapError(f) = "SUCCESS" /\ ModelAccepts(ClaimedShape(f.fields)))
    <3>1. stage # NONE
      BY <2>3, BundleStoreAssumption
    <3> HIDE DEF stage
    <3> QED  BY <2>1, <3>1
  <2> QED  BY <2>2, <2>3
<1>6. CASE live' = [live EXCEPT ![p] = NONE]
  BY <1>1, <1>2, <1>6, HandleStep
<1>7. CASE /\ live' = [live EXCEPT ![p] = Mapped(LoadedModel(f), path)]
           /\ MapError(f) = "SUCCESS" /\ ModelAccepts(ClaimedShape(f.fields))
  <2>1. PICK m : m = LoadedModel(f)
    OBVIOUS
  <2>2. IsModel(m) /\ ModelAccepts(m.shape)
    BY <1>3, <1>4, <1>7, <2>1, MappedIsModel
  <2>3. inodes[path].file.weights.values = m.values
    BY <1>3, <1>4, <2>1 DEF LoadedModel
  <2>4. IsHandle(Mapped(m, path), inodes)
    BY <1>3, <2>2, <2>3, MappedHandle
  <2> QED  BY <1>2, <1>7, <2>1, <2>4, HandleStep
<1> QED  BY <1>5, <1>6, <1>7

(* A bundle, or a legacy model with the tokenizer beside it.               *)
LEMMA LoadArtifactKeeps ==
  ASSUME StoreInv, NEW p \in Procs, NEW explicit_tokenizer, LoadArtifact(p, explicit_tokenizer)
  PROVE  StoreInv'
<1>1. path # 0 /\ UNCHANGED <<inodes, path, recent, temp>>
  BY DEF LoadArtifact
<1>2. IsFile(Reading)
  BY <1>1, ReadsWhole
<1>3. PICK f : f = Reading
  OBVIOUS
<1>4. \/ /\ CopyError(f, TRUE) = "SUCCESS"
         /\ live' = [live EXCEPT ![p] = Owned(LoadedModel(f))]
      \/ /\ f.legacy # NONE
         /\ live' = [live EXCEPT ![p] = Owned([f.legacy EXCEPT !.tokenizer = Sidecar])]
  BY <1>3, Zenon DEF LoadArtifact, Hold, LegacyModel
<1>5. CASE /\ CopyError(f, TRUE) = "SUCCESS"
           /\ live' = [live EXCEPT ![p] = Owned(LoadedModel(f))]
  <2>1. PICK m : m = LoadedModel(f)
    OBVIOUS
  <2>2. IsModel(m) /\ ModelAccepts(m.shape)
    BY <1>2, <1>3, <1>5, <2>1, LoadedIsModel
  <2>3. IsHandle(Owned(m), inodes)
    BY <2>2, OwnedHandle
  <2> QED  BY <1>1, <1>5, <2>1, <2>3, HandleStep
<1>6. CASE /\ f.legacy # NONE
           /\ live' = [live EXCEPT ![p] = Owned([f.legacy EXCEPT !.tokenizer = Sidecar])]
  <2>1. PICK old, m : old = f.legacy /\ m = [old EXCEPT !.tokenizer = Sidecar]
    OBVIOUS
  <2>2. IsModel(old) /\ ModelAccepts(old.shape)
    BY <1>2, <1>3, <1>6, <2>1 DEF IsFile
  <2>3. IsTokenizer(Sidecar)
    BY BundleStoreAssumption
  <2>4. IsModel(m) /\ m.shape = old.shape
    BY <2>1, <2>2, <2>3, WithTokenizer
  <2>5. IsHandle(Owned(m), inodes)
    BY <2>2, <2>4, OwnedHandle
  <2>6. live' = [live EXCEPT ![p] = Owned(m)]
    BY <1>6, <2>1, Zenon
  <2> QED  BY <1>1, <2>5, <2>6, HandleStep
<1> QED  BY <1>4, <1>5, <1>6

(* A power loss takes sections only of files that were not synced, and the *)
(* path falls back to a file it named before, all of which were synced.    *)
LEMMA PowerLossKeeps ==
  ASSUME StoreInv, PowerLoss
  PROVE  StoreInv'
<1>1. /\ FilesInv(inodes) /\ PathInv(inodes, path, recent)
  BY DEF StoreInv
<1>2. PICK kept \in [DOMAIN inodes -> 0..5] :
        /\ \A i \in DOMAIN inodes : inodes[i].synced => kept[i] = inodes[i].written
        /\ inodes' = [i \in DOMAIN inodes |-> [inodes[i] EXCEPT !.written = kept[i]]]
  BY DEF PowerLoss
<1>3. /\ path' \in recent /\ recent' = {path'}
      /\ temp' = [p \in Procs |-> 0] /\ live' = [p \in Procs |-> NONE]
  BY DEF PowerLoss
<1>4. PICK files : files = inodes'
  OBVIOUS
<1>40. PICK n \in Nat : n = Len(inodes) /\ DOMAIN inodes = 1..n
  <2>1. PICK S : inodes \in Seq(S)
    BY <1>1 DEF FilesInv, IsSequence
  <2>2. Len(inodes) \in Nat /\ DOMAIN inodes = 1..Len(inodes)
    BY <2>1
  <2> QED  BY <2>2
<1>5. ASSUME NEW i \in DOMAIN inodes
      PROVE  /\ IsInode(files[i]) /\ files[i].file = inodes[i].file
             /\ files[i].written = kept[i] /\ files[i].synced = inodes[i].synced
  <2>1. PICK k \in Nat : k = kept[i]
    BY <1>2
  <2>2. IsInode(inodes[i])
    BY <1>1 DEF FilesInv
  <2>3. files[i] = [inodes[i] EXCEPT !.written = kept[i]]
    BY <1>2, <1>4, Zenon
  <2>4. files[i] = [inodes[i] EXCEPT !.written = k]
    BY <2>1, <2>3, Zenon
  <2>5. PICK old, new : old = inodes[i] /\ new = files[i]
    OBVIOUS
  <2>6. IsInode(old) /\ new = [old EXCEPT !.written = k]
    BY <2>2, <2>4, <2>5, Zenon
  <2>7. IsInode(new) /\ new.file = old.file /\ new.written = k /\ new.synced = old.synced
    BY <2>1, <2>6, InodeWritten
  <2> QED  BY <2>1, <2>5, <2>7
<1>6. DOMAIN files = 1..n /\ Len(files) = n /\ IsSequence(files)
  <2> DEFINE T == {files[i] : i \in 1..n}
  <2>1. DOMAIN files = 1..n
    BY <1>2, <1>4, <1>40, Zenon
  <2>2. files = [i \in 1..n |-> files[i]]
    <3>1. files = [i \in 1..n |-> [inodes[i] EXCEPT !.written = kept[i]]]
      BY <1>2, <1>4, <1>40, Zenon
    <3>2. \A i \in 1..n : files[i] = [inodes[i] EXCEPT !.written = kept[i]]
      BY <3>1, Zenon
    <3> QED  BY <3>1, <3>2, Zenon
  <2>3. \A i \in 1..n : files[i] \in T
    OBVIOUS
  <2> HIDE DEF T
  <2>4. files \in [1..n -> T]
    BY ONLY <2>2, <2>3
  <2>5. files \in Seq(T)
    BY ONLY <2>4, n \in Nat
  <2>6. Len(files) = n
    BY ONLY <2>1, <2>5, n \in Nat
  <2> QED  BY <2>1, <2>5, <2>6 DEF IsSequence
<1>7. FilesInv(files)
  BY <1>4, <1>40, <1>5, <1>6 DEF FilesInv
<1>8. PathInv(files, path', recent')
  <2>1. path' \in 0..n
    BY <1>1, <1>3, <1>40 DEF PathInv
  <2>2. ASSUME path' # 0
        PROVE  Whole(files[path']) /\ files[path'].synced
    <3>1. path' \in DOMAIN inodes
      BY <1>40, <2>1, <2>2
    <3>2. Whole(inodes[path']) /\ inodes[path'].synced
      BY <1>1, <1>3, <2>2 DEF PathInv
    <3>3. files[path'].written = inodes[path'].written
      BY <1>2, <1>5, <3>1, <3>2
    <3> QED  BY <1>5, <3>1, <3>2, <3>3 DEF Whole
  <2> QED  BY <1>3, <1>6, <2>1, <2>2 DEF PathInv
<1>9. temp' \in [Procs -> 0..Len(files)]
  BY <1>3, <1>6
<1>10. DOMAIN live' = Procs /\ \A q \in Procs : IsHandle(live'[q], files)
  BY <1>3 DEF IsHandle
<1> QED  BY <1>4, <1>7, <1>8, <1>9, <1>10 DEF StoreInv

(* A damaged or edited copy is a file both loaders see whole.              *)
LEMMA EditKeeps ==
  ASSUME StoreInv, Edit
  PROVE  StoreInv'
<1>1. /\ FilesInv(inodes) /\ temp \in [Procs -> 0..Len(inodes)]
      /\ DOMAIN live = Procs /\ \A q \in Procs : IsHandle(live[q], inodes)
  BY DEF StoreInv
<1>2. /\ path # 0 /\ inodes[path].edit = NONE /\ inodes[path].file.legacy = NONE
      /\ temp' = temp /\ live' = live /\ path' = Len(inodes') /\ recent' = {path'}
  BY DEF Edit
<1>3. IsInode(inodes[path]) /\ inodes[path].synced
  BY <1>2, ReadsWhole
<1>4. PICK file : /\ IsFile(file)
                  /\ inodes' = Append(inodes,
                       [inodes[path] EXCEPT
                          !.file = file, !.written = Sections(file),
                          !.edit = IF Damaged(inodes[path].file, file)
                                   THEN "damaged" ELSE "edited"])
  BY DEF Edit
<1>5. PICK old, new : /\ old = inodes[path]
                      /\ new = [inodes[path] EXCEPT
                                  !.file = file, !.written = Sections(file),
                                  !.edit = IF Damaged(inodes[path].file, file)
                                           THEN "damaged" ELSE "edited"]
  OBVIOUS
<1>6. new = [old EXCEPT !.file = file, !.written = Sections(file),
                        !.edit = IF Damaged(old.file, file) THEN "damaged" ELSE "edited"]
  BY <1>5, Zenon
<1>7. IsInode(old) /\ old.synced /\ old.edit = NONE /\ old.file.legacy = NONE
  BY <1>2, <1>3, <1>5
<1>8. IsInode(new) /\ Whole(new) /\ new.synced
  BY <1>4, <1>6, <1>7, InodeEdited
<1>9. inodes' = Append(inodes, new)
  BY <1>4, <1>5, Zenon
<1>10. PICK files : files = inodes'
  OBVIOUS
<1>11. /\ FilesInv(files) /\ Len(inodes) \in Nat /\ Len(files) = Len(inodes) + 1
       /\ files[Len(inodes) + 1] = new
       /\ \A q \in Procs : IsHandle(live[q], files)
  BY <1>1, <1>8, <1>9, <1>10, FilesAppended
<1>12. PathInv(files, path', recent')
  BY <1>2, <1>8, <1>10, <1>11 DEF PathInv
<1>13. temp' \in [Procs -> 0..Len(files)]
  BY <1>1, <1>2, <1>11
<1>14. DOMAIN live' = Procs /\ \A q \in Procs : IsHandle(live'[q], files)
  BY <1>1, <1>2, <1>11
<1> QED  BY <1>10, <1>11, <1>12, <1>13, <1>14 DEF StoreInv

(* Every step keeps the invariant.                                         *)
LEMMA NextStore == StoreInv /\ [Next]_vars => StoreInv'
<1> SUFFICES ASSUME StoreInv, [Next]_vars PROVE StoreInv'
  OBVIOUS
<1>1. ASSUME NEW p \in Procs,
             \/ NewModel(p) \/ Train(p) \/ QuantizeWeights(p) \/ FreeModel(p)
             \/ Save(p) \/ WriteSection(p) \/ Sync(p) \/ Rename(p) \/ SaveFails(p)
             \/ \E policy \in Policies : SaveQuantized(p, policy)
             \/ LoadCopy(p)
             \/ \E memory \in {NONE, "model", "encoder"} : LoadMapped(p, memory)
             \/ \E explicit_tokenizer \in BOOLEAN : LoadArtifact(p, explicit_tokenizer)
             \/ Kill(p)
      PROVE  StoreInv'
  <2>1. CASE NewModel(p)
    BY <2>1, NewModelKeeps
  <2>2. CASE Train(p) \/ QuantizeWeights(p)
    BY <2>2, TrainKeeps DEF Train, QuantizeWeights
  <2>3. CASE FreeModel(p) \/ Kill(p)
    BY <2>3, ReleaseKeeps
  <2>4. CASE Save(p)
    BY <2>4, SaveKeeps
  <2>5. CASE \E policy \in Policies : SaveQuantized(p, policy)
    BY <2>5, SaveQuantizedKeeps
  <2>6. CASE WriteSection(p)
    BY <2>6, WriteKeeps
  <2>7. CASE Sync(p)
    BY <2>7, SyncKeeps
  <2>8. CASE Rename(p)
    BY <2>8, RenameKeeps
  <2>9. CASE SaveFails(p)
    BY <2>9, SaveFailsKeeps
  <2>10. CASE LoadCopy(p)
    BY <2>10, LoadCopyKeeps
  <2>11. CASE \E memory \in {NONE, "model", "encoder"} : LoadMapped(p, memory)
    BY <2>11, LoadMappedKeeps
  <2>12. CASE \E explicit_tokenizer \in BOOLEAN : LoadArtifact(p, explicit_tokenizer)
    BY <2>12, LoadArtifactKeeps
  <2> QED  BY <1>1, <2>1, <2>2, <2>3, <2>4, <2>5, <2>6, <2>7, <2>8, <2>9, <2>10, <2>11, <2>12
<1>2. CASE PowerLoss
  BY <1>2, PowerLossKeeps
<1>3. CASE Edit
  BY <1>3, EditKeeps
<1>4. CASE UNCHANGED vars
  BY <1>4 DEF vars, StoreInv
<1> QED  BY <1>1, <1>2, <1>3, <1>4 DEF Next

(* The invariant holds of every behaviour.                                 *)
LEMMA StoreInvariant == Spec => []StoreInv
  BY InitStore, NextStore, PTL DEF Spec

(* Whatever was killed, failed or lost power while a process saved, the    *)
(* path names nothing or a whole bundle that loads as the model it was     *)
(* saved from.                                                             *)
THEOREM SavesAreWhole == Spec => []PathIsWhole
<1>1. StoreInv => PathIsWhole
  <2> SUFFICES ASSUME StoreInv, path # 0, inodes[path].edit = NONE,
                      inodes[path].file.legacy = NONE
               PROVE  /\ CopyError(Reading, TRUE) = "SUCCESS"
                      /\ LoadedModel(Reading) = inodes[path].source
    BY DEF PathIsWhole
  <2>1. IsInode(inodes[path]) /\ Reading = inodes[path].file
    BY ReadsWhole
  <2>2. PICK f, source : f = Reading /\ source = inodes[path].source
    OBVIOUS
  <2>3. Saved(f, source)
    BY <2>1, <2>2 DEF IsInode
  <2>4. CopyAccepts(f) /\ LoadedModel(f) = source
    BY <2>3, SavedLoads DEF Loads
  <2>5. CopyError(f, TRUE) = "SUCCESS"
    BY <2>4, CopySucceeds
  <2> QED  BY <2>2, <2>4, <2>5
<1> QED  BY <1>1, StoreInvariant, PTL

(* Both loaders refuse a bundle of which one part was changed.             *)
THEOREM DamageNeverLoads == Spec => []DamageIsRefused
<1>1. StoreInv => DamageIsRefused
  <2> SUFFICES ASSUME StoreInv, path # 0, inodes[path].edit = "damaged"
               PROVE  /\ CopyError(Reading, TRUE) # "SUCCESS"
                      /\ ~MapSucceeds(Reading)
    BY DEF DamageIsRefused
  <2>1. IsInode(inodes[path]) /\ Reading = inodes[path].file
    BY ReadsWhole
  <2> QED  BY <2>1 DEF IsInode
<1> QED  BY <1>1, StoreInvariant, PTL

(* On whatever file is at the path, the mapping loader accepts exactly the *)
(* float32 files the copying one accepts, and an accepted header's claims  *)
(* fit the payload.                                                        *)
THEOREM TheLoadersAgree == Spec => []LoadersAgree
<1>1. StoreInv => LoadersAgree
  <2> SUFFICES ASSUME StoreInv, path # 0
               PROVE  LoadersAgreeOn(Reading) /\ ClaimsFitPayload(Reading)
    BY DEF LoadersAgree
  <2>1. PICK f : f = Reading
    OBVIOUS
  <2>2. IsFile(f)
    BY <2>1, ReadsWhole
  <2>3. LoadersAgreeOn(f) /\ ClaimsFitPayload(f)
    BY <2>2, LoadersAgreeOnTyped DEF IsFile
  <2> QED  BY <2>1, <2>3
<1> QED  BY <1>1, StoreInvariant, PTL

-----------------------------------------------------------------------------
(* Mappings.                                                               *)

(* NONE is not a process's model.                                          *)
NoneIsNoHandle ==
  \A model, read_only, file :
    [model |-> model, read_only |-> read_only, file |-> file] # NONE

Held(handle) == IF handle # NONE /\ handle.read_only THEN 1 ELSE 0

MappingInv ==
  /\ DOMAIN live = Procs /\ mapped \in [Procs -> {0, 1}]
  /\ \A p \in Procs : mapped[p] = Held(live[p])

(* A step of one process that leaves it holding what its new model needs.  *)
LEMMA MappingStep ==
  ASSUME MappingInv, NEW p \in Procs, NEW handle, NEW count, count = Held(handle),
         live' = [live EXCEPT ![p] = handle], mapped' = [mapped EXCEPT ![p] = count]
  PROVE  MappingInv'
<1>1. DOMAIN live' = Procs /\ mapped' \in [Procs -> {0, 1}]
  BY DEF MappingInv, Held
<1>2. ASSUME NEW q \in Procs
      PROVE  mapped'[q] = Held(live'[q])
  BY DEF MappingInv, Held
<1> QED  BY <1>1, <1>2 DEF MappingInv

(* A step that leaves the mappings alone, of a process without one.        *)
LEMMA OwnStep ==
  ASSUME MappingInv, NEW p \in Procs, NEW handle, Held(live[p]) = 0, Held(handle) = 0,
         live' = [live EXCEPT ![p] = handle], mapped' = mapped
  PROVE  MappingInv'
<1>1. mapped' = [mapped EXCEPT ![p] = mapped[p]] /\ mapped[p] = Held(handle)
  BY DEF MappingInv
<1> QED  BY <1>1, MappingStep

(* Nothing is mapped at the start.                                         *)
LEMMA InitMapping == Init => MappingInv
<1> SUFFICES ASSUME Init PROVE MappingInv
  OBVIOUS
<1>1. live = [p \in Procs |-> NONE] /\ mapped = [p \in Procs |-> 0]
  BY DEF Init
<1> QED  BY <1>1 DEF MappingInv, Held

(* A process without a model, or with one of its own, holds no mapping.    *)
LEMMA OwnsNothing ==
  /\ Held(NONE) = 0
  /\ \A model : Held(Owned(model)) = 0
  BY DEF Held, Owned

(* Training needs parameters of the process's own, and keeps them.         *)
LEMMA TrainMapping ==
  ASSUME StoreInv, MappingInv, NEW p \in Procs, NEW tag, ChangeWeights(p, tag)
  PROVE  MappingInv'
<1>1. /\ live[p] # NONE /\ ~live[p].read_only
      /\ live' = [live EXCEPT ![p].model.values = Append(@, tag)]
      /\ mapped' = mapped
  BY DEF ChangeWeights, Writable
<1>2. PICK handle : handle = [live[p] EXCEPT !.model.values = Append(live[p].model.values, tag)]
  OBVIOUS
<1>3. live' = [live EXCEPT ![p] = handle]
  BY <1>1, <1>2, Zenon
<1>4. Held(live[p]) = 0
  BY <1>1 DEF Held
<1>5. handle.read_only = live[p].read_only
  <2>1. PICK old, new : old = live[p] /\ new = Source(old.model, Append(old.model.values, tag))
    OBVIOUS
  <2>2. handle = [old EXCEPT !.model = new]
    BY <1>2, <2>1, Zenon DEF Source
  <2>3. old = [model |-> old.model, read_only |-> old.read_only, file |-> old.file]
    BY <1>1, <2>1 DEF StoreInv, IsHandle
  <2>4. ASSUME NEW a, NEW b, NEW c
        PROVE  [[model |-> a, read_only |-> b, file |-> c] EXCEPT !.model = new]
               = [model |-> new, read_only |-> b, file |-> c]
    OBVIOUS
  <2>5. handle = [[model |-> old.model, read_only |-> old.read_only, file |-> old.file]
                    EXCEPT !.model = new]
    BY <2>2, <2>3, Zenon
  <2>6. handle = [model |-> new, read_only |-> old.read_only, file |-> old.file]
    BY <2>4, <2>5, Zenon
  <2>7. handle.read_only = old.read_only
    BY ONLY <2>6
  <2> QED  BY <2>1, <2>7, Zenon
<1>6. Held(handle) = 0
  BY <1>1, <1>5 DEF Held
<1> QED  BY <1>1, <1>3, <1>4, <1>6, OwnStep

(* A mapping loader that fails has released its mapping once, wherever it  *)
(* failed; one that succeeds holds it.                                     *)
LEMMA LoadMapping ==
  ASSUME NoneIsNoHandle, MappingInv, NEW p \in Procs,
         NEW memory \in {NONE, "model", "encoder"}, LoadMapped(p, memory)
  PROVE  MappingInv'
<1> DEFINE stage == IF MapError(Reading) # "SUCCESS" THEN "checks"
                    ELSE IF ~ModelAccepts(ClaimedShape(Reading.fields)) THEN "shape"
                    ELSE memory
           handle == IF stage = NONE THEN Mapped(LoadedModel(Reading), path) ELSE NONE
           held == 1 - (IF stage = NONE THEN 0 ELSE Unmapped(stage))
<1>1. /\ live[p] = NONE
      /\ live' = [live EXCEPT ![p] = handle]
      /\ mapped' = [mapped EXCEPT ![p] = mapped[p] + held]
  BY Zenon DEF LoadMapped, Hold
<1>2. mapped[p] = 0
  BY <1>1, OwnsNothing DEF MappingInv
<1>3. stage \in {NONE, "checks", "shape", "model", "encoder"}
  OBVIOUS
<1>4. NONE \notin {"checks", "shape", "model", "encoder"}
  BY BundleStoreAssumption
<1>5. Mapped(LoadedModel(Reading), path) # NONE /\ Mapped(LoadedModel(Reading), path).read_only
  BY DEF Mapped, NoneIsNoHandle
<1> HIDE DEF stage
<1>6. held = Held(handle)
  <2>1. CASE stage = NONE
    BY <1>5, <2>1 DEF Held
  <2>2. CASE stage # NONE
    <3>1. stage \in {"checks", "shape", "model", "encoder"}
      BY <1>3, <2>2
    <3>2. Unmapped(stage) = 1
      BY <3>1 DEF Unmapped, HandedOver
    <3>3. held = 0 /\ handle = NONE
      BY <2>2, <3>2
    <3> QED  BY <3>3, OwnsNothing
  <2> QED  BY <2>1, <2>2
<1>7. Held(handle) \in {0, 1}
  BY DEF Held
<1>8. mapped[p] + held = Held(handle)
  BY <1>2, <1>6, <1>7
<1> HIDE DEF handle, held
<1> QED  BY <1>1, <1>8, MappingStep

(* Every step keeps the mappings what the live models need.                *)
LEMMA NextMapping ==
  ASSUME NoneIsNoHandle
  PROVE  StoreInv /\ MappingInv /\ [Next]_vars => MappingInv'
<1> SUFFICES ASSUME StoreInv, MappingInv, [Next]_vars PROVE MappingInv'
  OBVIOUS
<1>1. ASSUME NEW p \in Procs, NewModel(p)
      PROVE  MappingInv'
  <2>1. PICK model : live' = [live EXCEPT ![p] = Owned(model)]
    BY <1>1 DEF NewModel, Hold
  <2>2. live[p] = NONE /\ mapped' = mapped
    BY <1>1 DEF NewModel
  <2> QED  BY <2>1, <2>2, OwnsNothing, OwnStep
<1>2. ASSUME NEW p \in Procs, Train(p) \/ QuantizeWeights(p)
      PROVE  MappingInv'
  BY <1>2, TrainMapping DEF Train, QuantizeWeights
<1>3. ASSUME NEW p \in Procs, FreeModel(p)
      PROVE  MappingInv'
  <2>1. /\ live[p] # NONE /\ live' = [live EXCEPT ![p] = NONE]
        /\ mapped' = [mapped EXCEPT ![p] = mapped[p] - (IF live[p].read_only THEN 1 ELSE 0)]
    BY <1>3, Zenon DEF FreeModel, Hold
  <2>2. mapped[p] = IF live[p].read_only THEN 1 ELSE 0
    BY <2>1 DEF MappingInv, Held
  <2>3. mapped[p] - (IF live[p].read_only THEN 1 ELSE 0) = Held(NONE)
    BY <2>2, OwnsNothing
  <2> QED  BY <2>1, <2>3, MappingStep
<1>4. ASSUME NEW p \in Procs, LoadCopy(p)
      PROVE  MappingInv'
  <2>1. live' = [live EXCEPT ![p] = Owned(LoadedModel(Reading))]
        /\ live[p] = NONE /\ mapped' = mapped
    BY <1>4, Zenon DEF LoadCopy, Hold
  <2> QED  BY <2>1, OwnsNothing, OwnStep
<1>5. ASSUME NEW p \in Procs, NEW explicit_tokenizer, LoadArtifact(p, explicit_tokenizer)
      PROVE  MappingInv'
  <2>1. PICK model : live' = [live EXCEPT ![p] = Owned(model)]
    BY <1>5, Zenon DEF LoadArtifact, Hold
  <2>2. live[p] = NONE /\ mapped' = mapped
    BY <1>5, Zenon DEF LoadArtifact
  <2> QED  BY <2>1, <2>2, OwnsNothing, OwnStep
<1>6. ASSUME NEW p \in Procs, Kill(p)
      PROVE  MappingInv'
  <2>1. live' = [live EXCEPT ![p] = NONE] /\ mapped' = [mapped EXCEPT ![p] = 0]
    BY <1>6, Zenon DEF Kill, Hold
  <2> QED  BY <2>1, OwnsNothing, MappingStep
<1>7. ASSUME UNCHANGED <<live, mapped>>
      PROVE  MappingInv'
  BY <1>7 DEF MappingInv
<1>8. ASSUME NEW p \in Procs, NEW policy,
             Save(p) \/ WriteSection(p) \/ Sync(p) \/ Rename(p) \/ SaveFails(p)
               \/ SaveQuantized(p, policy)
      PROVE  MappingInv'
  <2>1. UNCHANGED <<live, mapped>>
    BY <1>8 DEF Save, SaveQuantized, BeginSave, WriteSection, Sync, Rename, SaveFails
  <2> QED  BY <1>7, <2>1
<1>9. CASE PowerLoss
  <2>1. live' = [p \in Procs |-> NONE] /\ mapped' = [p \in Procs |-> 0]
    BY <1>9 DEF PowerLoss
  <2> QED  BY <2>1, OwnsNothing DEF MappingInv
<1>10. CASE Edit
  BY <1>7, <1>10 DEF Edit
<1>11. CASE UNCHANGED vars
  BY <1>7, <1>11 DEF vars
<1> QED  BY <1>1, <1>2, <1>3, <1>4, <1>5, <1>6, <1>8, <1>9, <1>10, <1>11, LoadMapping DEF Next

(* However much of a file was written, its weights are those it was given. *)
LEMMA VisibleWeights ==
  ASSUME NEW inode, IsFile(inode.file)
  PROVE  Visible(inode).weights = inode.file.weights
<1> DEFINE f == inode.file
           section(i, bytes) == IF inode.written >= i THEN bytes ELSE 0
           size == section(1, f.fields.header_size) + section(2, f.weights.bytes)
                     + section(3, f.tokenizer.bytes) + section(4, FooterSize)
           magic == f.fields.magic /\ HeaderWritten(inode)
           footer == inode.written >= 4
<1>1. CASE inode.written >= Sections(f)
  BY <1>1 DEF Visible
<1>2. CASE ~(inode.written >= Sections(f))
  <2>1. Visible(inode) = [f EXCEPT !.size = size, !.fields.magic = magic, !.footer = footer]
    BY <1>2, Zenon DEF Visible
  <2>2. PICK sz, mg, ft : sz = size /\ mg = magic /\ ft = footer
    OBVIOUS
  <2>3. PICK x, y, z : x = [f EXCEPT !.size = sz]
                       /\ y = [x EXCEPT !.fields = [x.fields EXCEPT !.magic = mg]]
                       /\ z = [y EXCEPT !.footer = ft]
    OBVIOUS
  <2>4. Visible(inode) = z
    BY <2>1, <2>2, <2>3, Zenon
  <2>5. PICK g : g = f
    OBVIOUS
  <2>6. PICK header : header = [x.fields EXCEPT !.magic = mg]
    OBVIOUS
  <2>7. x = [g EXCEPT !.size = sz] /\ y = [x EXCEPT !.fields = header]
        /\ z = [y EXCEPT !.footer = ft]
    BY <2>3, <2>5, <2>6, Zenon
  <2>8. g = [fields |-> g.fields, sum |-> g.sum, weights |-> g.weights,
             tokenizer |-> g.tokenizer, footer |-> g.footer, legacy |-> g.legacy,
             size |-> g.size]
    BY <2>5 DEF IsFile
  <2>9. z.weights = g.weights
    BY ONLY <2>7, <2>8
  <2> QED  BY <2>4, <2>5, <2>9, Zenon
<1> QED  BY <1>1, <1>2

(* A mapped model's weights stay the bytes of a file nobody writes to,     *)
(* though the path is replaced under it, and its mapping is held exactly   *)
(* once as long as it lives.                                               *)
THEOREM MappingsAreStable ==
  ASSUME NoneIsNoHandle
  PROVE  Spec => []MappedModelIsStable
<1>1. StoreInv /\ MappingInv => MappedModelIsStable
  <2> SUFFICES ASSUME StoreInv, MappingInv, NEW p \in Procs
               PROVE  /\ mapped[p] = IF live[p] # NONE /\ live[p].read_only THEN 1 ELSE 0
                      /\ (live[p] # NONE /\ live[p].read_only) =>
                           Visible(inodes[live[p].file]).weights.values = live[p].model.values
    BY DEF MappedModelIsStable
  <2>1. mapped[p] = IF live[p] # NONE /\ live[p].read_only THEN 1 ELSE 0
    BY DEF MappingInv, Held
  <2>2. ASSUME live[p] # NONE, live[p].read_only
        PROVE  Visible(inodes[live[p].file]).weights.values = live[p].model.values
    <3>1. PICK inode : inode = inodes[live[p].file]
      OBVIOUS
    <3>2. IsInode(inode) /\ inode.file.weights.values = live[p].model.values
      BY <2>2, <3>1 DEF StoreInv, IsHandle, FilesInv
    <3>3. Visible(inode).weights = inode.file.weights
      BY <3>2, VisibleWeights DEF IsInode
    <3> QED  BY <3>1, <3>2, <3>3
  <2> QED  BY <2>1, <2>2
<1>2. Spec => []MappingInv
  BY InitMapping, NextMapping, StoreInvariant, PTL DEF Spec
<1> QED  BY <1>1, <1>2, StoreInvariant, PTL

-----------------------------------------------------------------------------
(* Parameters. The shapes: their descriptions agree, whatever they are.    *)

(* For any shape and any count a header claims for it, the inventory lists *)
(* the views layout_layer carves, they fill the buffer, and                *)
(* bundle_shape_valid accepts the count only if it is the model's.         *)
THEOREM ShapesStayConsistent == ParametersSpec => []ShapesAreConsistent
<1>1. ParametersInit => ShapesAreConsistent
  <2> SUFFICES ASSUME ParametersInit, sample.kind = "shape" PROVE ShapesAreConsistent
    BY DEF ShapesAreConsistent
  <2>1. sample \in Samples
    BY DEF ParametersInit, Unused
  <2>2. Dimensions(sample.s)
    BY <2>1, ParametersAssumption DEF IsClaim, IsTensor
  <2> QED BY <2>2, ShapesAgree, CountsAgree DEF ShapesAreConsistent
<1>2. ShapesAreConsistent /\ [UNCHANGED sample]_sample => ShapesAreConsistent'
  BY DEF ShapesAreConsistent
<1> QED BY <1>1, <1>2, PTL DEF ParametersSpec

-----------------------------------------------------------------------------
(* Quantized tensors: the bits of a code. A code is read back from its     *)
(* bits because the lowest n of them are the code modulo 2^n (LowerBits).  *)

(* Powers of two, by their recursion.                                      *)
LEMMA ShiftSteps ==
  ASSUME NEW n \in Nat
  PROVE  /\ Shift(0) = 1
         /\ Shift(n) \in Nat \ {0}
         /\ Shift(n + 1) = 2 * Shift(n)
<1> DEFINE Solution(g, m) == g = [i \in 0..m |-> IF i = 0 THEN 1 ELSE 2 * g[i - 1]]
           power(m) == CHOOSE g : Solution(g, m)
<1>1. ASSUME NEW m \in Nat PROVE \E g : Solution(g, m) /\ g \in [0..m -> Nat \ {0}]
  <2> DEFINE step == [i \in 1..m |-> [x \in Nat \ {0} |-> 2 * x]]
  <2>1. step \in Steps(m, Nat \ {0})
    BY DEF Steps
  <2>2. PICK g \in [0..m -> Nat \ {0}] : g[0] = 1 /\ Follows(g, m, step)
    <3> HIDE DEF step
    <3>1. 1 \in Nat \ {0}
      OBVIOUS
    <3> QED BY <2>1, <3>1, RecursionExists
  <2>3. \A i \in 0..m : g[i] = IF i = 0 THEN 1 ELSE 2 * g[i - 1]
    <3>1. \A i \in 1..m : g[i - 1] \in Nat \ {0} /\ g[i] = step[i][g[i - 1]]
      BY <2>2 DEF Follows
    <3>2. \A i \in 1..m : g[i] = 2 * g[i - 1]
      BY <3>1
    <3> QED BY <2>2, <3>2
  <2>4. Solution(g, m)
    BY <2>3
  <2> QED BY <2>4
<1>2. \A m \in Nat : Shift(m) = power(m)[m]
  BY DEF Shift
<1>3. \A m \in Nat : Solution(power(m), m)
  BY <1>1
<1> HIDE DEF power
<1>4. \A m \in Nat : \A i \in 0..m : power(m)[i] = IF i = 0 THEN 1 ELSE 2 * power(m)[i - 1]
  BY <1>3
<1>5. ASSUME NEW m \in Nat PROVE Shift(m) \in Nat \ {0}
  <2>1. PICK g : Solution(g, m) /\ g \in [0..m -> Nat \ {0}]
    BY <1>1
  <2>2. SameSteps(g, power(m), m)
    BY <2>1, <1>4 DEF SameSteps
  <2>3. g[m] = power(m)[m]
    BY <2>2, RecursionAgrees
  <2> QED BY <2>1, <2>3, <1>2
<1>6. Shift(0) = 1
  BY <1>2, <1>4, 0 \in 0..0
<1>7. SameSteps(power(n), power(n + 1), n)
  <2>1. n + 1 \in Nat /\ \A i \in 0..n : i \in 0..(n + 1)
    OBVIOUS
  <2> QED BY <1>4, <2>1 DEF SameSteps
<1>8. power(n)[n] = power(n + 1)[n]
  BY <1>7, RecursionAgrees
<1>9. power(n + 1)[n + 1] = 2 * power(n + 1)[n]
  BY <1>4, n + 1 \in Nat, n + 1 \in 0..(n + 1)
<1> QED BY <1>2, <1>5, <1>6, <1>8, <1>9, n + 1 \in Nat

(* The levels of a width: one code of the 2^bits is left over.             *)
LEMMA LevelsExist ==
  ASSUME NEW bits \in 2..16
  PROVE  /\ QuantLevels(bits) \in Nat \ {0}
         /\ Shift(bits) = 2 * QuantLevels(bits) + 2
<1>1. /\ bits - 1 \in Nat /\ bits - 2 \in Nat
      /\ bits = (bits - 1) + 1 /\ bits - 1 = (bits - 2) + 1
  OBVIOUS
<1>2. Shift(bits) = 2 * Shift(bits - 1) /\ Shift(bits - 1) = 2 * Shift(bits - 2)
  BY <1>1, ShiftSteps
<1>3. Shift(bits - 2) \in Nat \ {0}
  BY <1>1, ShiftSteps
<1> QED BY <1>2, <1>3 DEF QuantLevels

(* The lowest bits of a code, one more at a time.                          *)
LEMMA LowerBits ==
  ASSUME NEW code \in Nat, NEW n \in Nat
  PROVE  code % Shift(n + 1) = (code % Shift(n)) + (IF HasBit(code, n) THEN Shift(n) ELSE 0)
<1> DEFINE s == Shift(n)
           q == code \div s
           r == code % s
<1>1. s \in Nat \ {0} /\ Shift(n + 1) = 2 * s
  BY ShiftSteps
<1> HIDE DEF s
<1>2. code = s * q + r /\ q \in Nat /\ r \in 0..s - 1
  BY <1>1, DivMod
<1> HIDE DEF q, r
<1> DEFINE h == q \div 2
           b == q % 2
<1>3. q = 2 * h + b /\ h \in Nat /\ b \in 0..1
  BY <1>2
<1>4. HasBit(code, n) <=> b = 1
  BY DEF HasBit, q, s
<1> HIDE DEF h, b
<1>5. s * q = s * (2 * h + b)
  BY <1>3
<1>6. s * (2 * h + b) = (2 * s) * h + s * b
  BY <1>1, <1>3
<1>7. s * b = IF HasBit(code, n) THEN s ELSE 0
  BY <1>1, <1>3, <1>4
<1>8. code = (2 * s) * h + (s * b + r)
  BY <1>1, <1>2, <1>3, <1>5, <1>6
<1>9. s * b + r \in 0..(2 * s - 1)
  BY <1>1, <1>2, <1>3, <1>7
<1>10. 2 * s \in Nat \ {0}
  BY <1>1
<1>11. ((2 * s) * h + (s * b + r)) % (2 * s) = s * b + r
  BY <1>3, <1>9, <1>10, ModUnique
<1>12. code % (2 * s) = s * b + r
  BY <1>8, <1>11
<1>13. r \in Int /\ s * b \in Int
  BY <1>1, <1>2, <1>3
<1> QED BY <1>1, <1>7, <1>12, <1>13 DEF r, s

(* The bits of one code of a packed buffer are the code.                   *)
LEMMA CodeReadBack ==
  ASSUME NEW bits \in Nat, NEW code \in Nat, code < Shift(bits),
         NEW packed, NEW offset \in Nat,
         \A b \in 0..(bits - 1) : offset + b \in packed <=> HasBit(code, b)
  PROVE  CodeAt(packed, bits, offset) = code
<1> DEFINE f == [n \in 1..bits |-> IF offset + n - 1 \in packed THEN Shift(n - 1) ELSE 0]
           T == {n \in 0..bits : SumOf(f, n) = code % Shift(n)}
<1>1. 0 \in T
  <2>1. SumOf(f, 0) = 0 /\ Shift(0) = 1
    BY SumOfSteps, ShiftSteps
  <2>2. code % 1 = 0
    OBVIOUS
  <2> QED BY <2>1, <2>2
<1>2. ASSUME NEW n \in 1..bits, n - 1 \in T PROVE n \in T
  <2>1. n - 1 \in Nat /\ n - 1 \in 0..(bits - 1) /\ n = (n - 1) + 1
    OBVIOUS
  <2>2. offset + n - 1 = offset + (n - 1)
    OBVIOUS
  <2>3. f[n] = IF HasBit(code, n - 1) THEN Shift(n - 1) ELSE 0
    BY <2>1, <2>2
  <2> HIDE DEF f
  <2>4. SumOf(f, n) = SumOf(f, n - 1) + f[n]
    BY <2>1, SumOfSteps
  <2>5. code % Shift(n) = (code % Shift(n - 1)) + (IF HasBit(code, n - 1) THEN Shift(n - 1) ELSE 0)
    BY <2>1, LowerBits
  <2> QED BY <1>2, <2>3, <2>4, <2>5
<1> HIDE DEF T
<1>3. \A i \in 0..bits : i \in T
  BY <1>1, <1>2, UpTo
<1>4. SumOf(f, bits) = code % Shift(bits)
  BY <1>3 DEF T
<1>5. Shift(bits) \in Nat \ {0} /\ code \in 0..(Shift(bits) - 1)
  BY ShiftSteps
<1>6. code % Shift(bits) = code
  BY <1>5, ModSmall
<1> QED BY <1>4, <1>6 DEF CodeAt

(* A flipped bit of a code changes the code.                               *)
LEMMA FlipShows ==
  ASSUME NEW bits \in Nat, NEW packed, NEW offset \in Nat, NEW b \in 0..(bits - 1),
         NEW flipped,
         \A p \in Nat : p # offset + b => (p \in flipped <=> p \in packed),
         offset + b \in flipped <=> offset + b \notin packed
  PROVE  CodeAt(flipped, bits, offset) # CodeAt(packed, bits, offset)
<1> DEFINE term(s) == [n \in 1..bits |-> IF offset + n - 1 \in s THEN Shift(n - 1) ELSE 0]
           f == term(packed)
           g == term(flipped)
           change == g[b + 1] - f[b + 1]
           T == {n \in 0..bits : /\ SumOf(f, n) \in Int
                                 /\ SumOf(g, n) = SumOf(f, n) + (IF n > b THEN change ELSE 0)}
<1>1. \A n \in 1..bits : Shift(n - 1) \in Nat \ {0} /\ offset + n - 1 \in Nat
  BY ShiftSteps
<1>2. \A n \in 1..bits : f[n] \in Int /\ g[n] \in Int /\ (n # b + 1 => g[n] = f[n])
  BY <1>1
<1>3. b + 1 \in 1..bits /\ offset + (b + 1) - 1 = offset + b
  OBVIOUS
<1>4. change \in Int /\ change # 0
  BY <1>1, <1>3
<1>5. change = g[b + 1] - f[b + 1]
  OBVIOUS
<1> HIDE DEF f, g, term, change
<1>6. 0 \in T
  <2>1. SumOf(f, 0) = 0 /\ SumOf(g, 0) = 0
    BY SumOfSteps
  <2> QED BY <2>1
<1>7. ASSUME NEW n \in 1..bits, n - 1 \in T PROVE n \in T
  <2>1. n - 1 \in Nat /\ n - 1 \in 0..bits /\ n = (n - 1) + 1
    OBVIOUS
  <2>2. SumOf(f, n) = SumOf(f, n - 1) + f[n] /\ SumOf(g, n) = SumOf(g, n - 1) + g[n]
    BY <2>1, SumOfSteps
  <2>3. SumOf(f, n - 1) \in Int
        /\ SumOf(g, n - 1) = SumOf(f, n - 1) + (IF n - 1 > b THEN change ELSE 0)
    BY <1>7
  <2>4. f[n] \in Int /\ g[n] \in Int
    BY <1>2
  <2>5. CASE n = b + 1
    <3>1. g[n] = f[n] + change
      BY <1>5, <2>4, <2>5
    <3> QED BY <1>4, <2>2, <2>3, <2>4, <2>5, <3>1
  <2>6. CASE n # b + 1
    <3>1. g[n] = f[n]
      BY <1>2, <2>6
    <3>2. n > b <=> n - 1 > b
      BY <2>6
    <3> QED BY <1>4, <2>2, <2>3, <2>4, <3>1, <3>2
  <2> QED BY <2>5, <2>6
<1> HIDE DEF T
<1>8. \A n \in 0..bits : n \in T
  BY <1>6, <1>7, UpTo
<1>9. bits \in T /\ bits > b
  BY <1>8
<1>10. SumOf(f, bits) \in Int /\ SumOf(g, bits) = SumOf(f, bits) + change
  BY <1>9 DEF T
<1>11. SumOf(g, bits) # SumOf(f, bits)
  BY <1>4, <1>10
<1> QED BY <1>11 DEF CodeAt, f, g, term

(* A rounded quotient is within half of its divisor, and in a grid that    *)
(* reaches qmax when the value does not exceed the peak.                   *)
LEMMA RoundedLevel ==
  ASSUME NEW x \in Int, NEW qmax \in Nat \ {0}, NEW peak \in Nat \ {0}, Abs(x) <= peak
  PROVE  /\ RoundHalfAway(x * qmax, peak) \in -qmax..qmax
         /\ 2 * Abs(x * qmax - RoundHalfAway(x * qmax, peak) * peak) <= peak
<1> DEFINE a == Abs(x) * qmax
           m == (2 * a + peak) \div (2 * peak)
<1>0. Abs(x) \in Nat
  BY DEF Abs
<1>1. a \in Nat /\ x * qmax \in Int
  BY <1>0
<1>2. IF x < 0 THEN x * qmax = -a ELSE x * qmax = a
  BY DEF Abs
<1>3. a <= peak * qmax
  BY <1>0
<1> HIDE DEF a
<1>4. 2 * a + peak \in Nat /\ 2 * peak \in Nat \ {0}
  BY <1>1
<1> DEFINE r == (2 * a + peak) % (2 * peak)
<1>5. 2 * a + peak = (2 * peak) * m + r /\ m \in Nat /\ r \in 0..(2 * peak - 1)
  BY <1>4, DivMod
<1> HIDE DEF m, r
<1>6. m <= qmax
  <2> SUFFICES ASSUME m >= qmax + 1 PROVE FALSE
    BY <1>5
  <2>1. (2 * peak) * m >= (2 * peak) * (qmax + 1)
    BY <1>5
  <2>2. (2 * peak) * (qmax + 1) = 2 * (peak * qmax) + 2 * peak /\ peak * qmax \in Nat
    OBVIOUS
  <2>3. (2 * peak) * m \in Nat
    BY <1>5
  <2> QED BY <1>1, <1>3, <1>5, <2>1, <2>2, <2>3
<1>7. 2 * Abs(a - m * peak) <= peak
  <2>1. (2 * peak) * m = 2 * (m * peak) /\ m * peak \in Nat
    BY <1>5
  <2>2. 2 * (a - m * peak) = r - peak
    BY <1>1, <1>5, <2>1
  <2> QED BY <1>1, <1>5, <2>1, <2>2 DEF Abs
<1>8. CASE x * qmax < 0
  <2>1. x < 0
    BY <1>8
  <2>2. x * qmax = -a
    BY <2>1, <1>2
  <2>3. Abs(x * qmax) = a
    BY <1>1, <2>2, <1>8 DEF Abs
  <2>4. RoundHalfAway(x * qmax, peak) = -m
    BY <1>8, <2>3 DEF RoundHalfAway, m
  <2>5. (-m) * peak = -(m * peak) /\ m * peak \in Nat
    BY <1>5
  <2>6. x * qmax - (-m) * peak = -(a - m * peak)
    BY <1>1, <2>2, <2>5
  <2>7. Abs(-(a - m * peak)) = Abs(a - m * peak)
    BY <1>1, <2>5 DEF Abs
  <2>8. -m \in -qmax..qmax
    BY <1>5, <1>6
  <2> QED BY <1>7, <2>4, <2>6, <2>7, <2>8
<1>9. CASE ~(x * qmax < 0)
  <2>2. x * qmax = a
    BY <1>1, <1>2, <1>9
  <2>3. Abs(x * qmax) = a
    BY <1>1, <2>2 DEF Abs
  <2>4. RoundHalfAway(x * qmax, peak) = m
    BY <1>9, <2>3 DEF RoundHalfAway, m
  <2>8. m \in -qmax..qmax
    BY <1>5, <1>6
  <2> QED BY <1>7, <2>2, <2>4, <2>8
<1> QED BY <1>8, <1>9

(* The largest magnitude of a group of values that is not empty.           *)
LEMMA PeakIsLargest ==
  ASSUME NEW n \in Nat, NEW v \in [0..(n - 1) -> Int],
         NEW group, \A j \in group : j \in 0..(n - 1), group # {}
  PROVE  /\ \A i \in group : Abs(v[i]) <= Peak(v, group)
         /\ Peak(v, group) \in Nat
<1> DEFINE Best(i, k) == /\ i \in group /\ i < k
                         /\ \A j \in group : j < k => Abs(v[j]) <= Abs(v[i])
           T == {k \in 0..n : (\A j \in group : ~(j < k)) \/ (\E i \in group : Best(i, k))}
<1>1. \A j \in group : j \in 0..(n - 1) /\ v[j] \in Int /\ Abs(v[j]) \in Nat
  BY DEF Abs
<1>2. 0 \in T
  BY <1>1
<1>3. ASSUME NEW k \in 1..n, k - 1 \in T PROVE k \in T
  <2>0. \A j \in group : j < k <=> (j < k - 1 \/ j = k - 1)
    BY <1>1
  <2>1. CASE k - 1 \notin group
    <3>1. \A j \in group : j < k <=> j < k - 1
      BY <2>0, <2>1
    <3>2. ASSUME NEW i \in group, Best(i, k - 1) PROVE Best(i, k)
      BY <3>1, <3>2
    <3>3. CASE \A j \in group : ~(j < k - 1)
      <4>1. \A j \in group : ~(j < k)
        BY <3>1, <3>3
      <4> QED BY <4>1
    <3>4. CASE \E i \in group : Best(i, k - 1)
      <4>1. \E i \in group : Best(i, k)
        BY <3>2, <3>4
      <4> HIDE DEF Best
      <4> QED BY <4>1
    <3> HIDE DEF Best
    <3> QED BY <1>3, <3>3, <3>4
  <2>2. CASE k - 1 \in group /\ \A j \in group : ~(j < k - 1)
    <3>1. Best(k - 1, k)
      BY <1>1, <2>0, <2>2
    <3> QED BY <2>2, <3>1
  <2>3. CASE k - 1 \in group /\ \E i \in group : Best(i, k - 1)
    <3>1. PICK i \in group : Best(i, k - 1)
      BY <2>3
    <3>2. CASE Abs(v[k - 1]) <= Abs(v[i])
      <4>1. Best(i, k)
        BY <1>1, <2>0, <3>1, <3>2
      <4> QED BY <4>1
    <3>3. CASE ~(Abs(v[k - 1]) <= Abs(v[i]))
      <4>1. Abs(v[k - 1]) \in Nat /\ Abs(v[i]) \in Nat
        BY <1>1, <2>3
      <4>2. \A j \in group : j < k - 1 => Abs(v[j]) \in Nat /\ Abs(v[j]) <= Abs(v[i])
        BY <1>1, <3>1
      <4>3. ASSUME NEW j \in group, j < k PROVE Abs(v[j]) <= Abs(v[k - 1])
        <5>1. CASE j < k - 1
          <6>1. Abs(v[j]) \in Nat /\ Abs(v[j]) <= Abs(v[i])
            BY <4>2, <5>1
          <6> QED BY <3>3, <4>1, <6>1
        <5>2. CASE j = k - 1
          BY <4>1, <5>2
        <5> QED BY <2>0, <4>3, <5>1, <5>2
      <4>4. Best(k - 1, k)
        BY <2>3, <4>3
      <4> HIDE DEF Best
      <4> QED BY <2>3, <4>4
    <3> QED BY <3>2, <3>3
  <2> QED BY <1>3, <2>1, <2>2, <2>3
<1> HIDE DEF T
<1>4. \A k \in 0..n : k \in T
  BY <1>2, <1>3, UpTo
<1>5. n \in T /\ \A j \in group : j < n
  BY <1>1, <1>4
<1>6. PICK i \in group : Best(i, n)
  BY <1>5 DEF T
<1>7. \A j \in group : Abs(v[j]) <= Abs(v[i])
  BY <1>5, <1>6
<1>8. \E p \in {Abs(v[j]) : j \in group} : \A j \in group : Abs(v[j]) <= p
  BY <1>7
<1>9. /\ Peak(v, group) \in {Abs(v[j]) : j \in group}
      /\ \A j \in group : Abs(v[j]) <= Peak(v, group)
  BY <1>8 DEF Peak
<1> QED BY <1>1, <1>9

-----------------------------------------------------------------------------
(* Which values share a scale.                                             *)

IsGrouping(rows, cols, granularity) ==
  /\ rows \in Nat \ {0} /\ cols \in Nat \ {0}
  /\ granularity \in {"tensor", "row", "column"}

Members(rows, cols, granularity, g) ==
  {i \in 0..(rows * cols - 1) : ScaleIndex(i, cols, granularity) = g}

(* A value of a row-major tensor is at a row and a column.                 *)
LEMMA RowAndColumn ==
  ASSUME NEW rows \in Nat \ {0}, NEW cols \in Nat \ {0}
  PROVE  /\ \A i \in 0..(rows * cols - 1) :
              /\ i \div cols \in 0..(rows - 1) /\ i % cols \in 0..(cols - 1)
              /\ i = (i \div cols) * cols + (i % cols)
         /\ \A r \in 0..(rows - 1), c \in 0..(cols - 1) :
              /\ r * cols + c \in 0..(rows * cols - 1)
              /\ (r * cols + c) \div cols = r /\ (r * cols + c) % cols = c
<1>1. rows * cols \in Nat
  OBVIOUS
<1>2. ASSUME NEW i \in 0..(rows * cols - 1)
      PROVE  /\ i \div cols \in 0..(rows - 1) /\ i % cols \in 0..(cols - 1)
             /\ i = (i \div cols) * cols + (i % cols)
  <2> DEFINE q == i \div cols
             r == i % cols
  <2>0. i \in Nat
    BY <1>1
  <2>1. i = cols * q + r /\ q \in Nat /\ r \in 0..(cols - 1)
    BY <2>0, DivMod
  <2>2. i < rows * cols
    BY <1>1
  <2> HIDE DEF q, r
  <2>3. q <= rows - 1
    <3> SUFFICES ASSUME q >= rows PROVE FALSE
      BY <2>1
    <3>1. cols * q >= cols * rows
      BY <2>1
    <3> QED BY <1>1, <2>1, <2>2, <3>1
  <2>4. cols * q = q * cols
    BY <2>1
  <2>5. q \in 0..(rows - 1) /\ i = q * cols + r
    BY <2>1, <2>3, <2>4
  <2>6. r \in 0..(cols - 1)
    BY <2>1
  <2> QED BY <2>5, <2>6, Zenon DEF q, r
<1>3. ASSUME NEW r \in 0..(rows - 1), NEW c \in 0..(cols - 1)
      PROVE  /\ r * cols + c \in 0..(rows * cols - 1)
             /\ (r * cols + c) \div cols = r /\ (r * cols + c) % cols = c
  <2>1. r * cols \in Nat /\ r * cols = cols * r
    OBVIOUS
  <2>2. r * cols <= (rows - 1) * cols
    OBVIOUS
  <2>3. (rows - 1) * cols = rows * cols - cols
    OBVIOUS
  <2>4. r * cols + c \in 0..(rows * cols - 1)
    BY <1>1, <2>1, <2>2, <2>3
  <2>5. (cols * r + c) % cols = c
    BY ModUnique
  <2> DEFINE q == (r * cols + c) \div cols
  <2>6. r * cols + c = cols * q + c /\ q \in Nat
    BY <2>1, <2>4, <2>5, DivMod
  <2> HIDE DEF q
  <2>7. cols * q = cols * r
    BY <2>1, <2>6
  <2>8. q = r
    BY <2>6, <2>7
  <2> QED BY <2>1, <2>4, <2>5, <2>8 DEF q
<1> QED BY <1>2, <1>3

(* A scale index is the number of a scale.                                 *)
LEMMA ScaleExists ==
  ASSUME NEW rows, NEW cols, NEW granularity, IsGrouping(rows, cols, granularity),
         NEW i \in 0..(rows * cols - 1)
  PROVE  ScaleIndex(i, cols, granularity) \in 0..(Scales(rows, cols, granularity) - 1)
<1>1. i \div cols \in 0..(rows - 1) /\ i % cols \in 0..(cols - 1)
  BY RowAndColumn DEF IsGrouping
<1> QED BY <1>1 DEF IsGrouping, ScaleIndex, Scales

(* The simulated quantizer walks the values of one scale at a time.        *)
LEMMA GroupsAreScales ==
  ASSUME NEW rows, NEW cols, NEW granularity, IsGrouping(rows, cols, granularity),
         NEW i \in 0..(rows * cols - 1)
  PROVE  (CHOOSE group \in Groups(rows, cols, granularity) : i \in group)
           = Members(rows, cols, granularity, ScaleIndex(i, cols, granularity))
<1> DEFINE mine == Members(rows, cols, granularity, ScaleIndex(i, cols, granularity))
<1>0. rows \in Nat \ {0} /\ cols \in Nat \ {0} /\ rows * cols \in Nat
  BY DEF IsGrouping
<1>1. \A j \in 0..(rows * cols - 1) :
        /\ j \div cols \in 0..(rows - 1) /\ j % cols \in 0..(cols - 1)
        /\ j = (j \div cols) * cols + (j % cols)
  BY <1>0, RowAndColumn
<1>2. \A r \in 0..(rows - 1), c \in 0..(cols - 1) :
        /\ r * cols + c \in 0..(rows * cols - 1)
        /\ (r * cols + c) \div cols = r /\ (r * cols + c) % cols = c
  BY <1>0, RowAndColumn
<1>3. i \in mine
  BY DEF Members
<1>4. mine \in Groups(rows, cols, granularity)
      /\ \A group \in Groups(rows, cols, granularity) : i \in group => group = mine
  <2>1. CASE granularity = "tensor"
    <3>1. mine = 0..(rows * cols - 1)
      BY <2>1 DEF Members, ScaleIndex
    <3> QED BY <2>1, <3>1 DEF Groups
  <2>2. CASE granularity = "row"
    <3> DEFINE row(r) == {r * cols + c : c \in 0..(cols - 1)}
    <3>1. Groups(rows, cols, granularity) = {row(r) : r \in 0..(rows - 1)}
      BY <2>2 DEF Groups
    <3>2. \A j : j \in mine <=> j \in 0..(rows * cols - 1) /\ j \div cols = i \div cols
      BY <2>2 DEF Members, ScaleIndex
    <3>3. \A r \in 0..(rows - 1) : \A j \in row(r) : j \in 0..(rows * cols - 1) /\ j \div cols = r
      BY <1>2
    <3>4. ASSUME NEW j \in 0..(rows * cols - 1) PROVE j \in row(j \div cols)
      <4>1. j % cols \in 0..(cols - 1) /\ j = (j \div cols) * cols + (j % cols)
        BY <1>1
      <4>2. \E c \in 0..(cols - 1) : j = (j \div cols) * cols + c
        BY <4>1, Zenon
      <4> QED BY <4>2
    <3>5. \A r : \A j \in row(r) : \E c \in 0..(cols - 1) : j = r * cols + c
      OBVIOUS
    <3> HIDE DEF row, mine
    <3>6. \A r \in 0..(rows - 1) : r = i \div cols => \A j : j \in row(r) <=> j \in mine
      BY <3>2, <3>3, <3>4
    <3>7. i \div cols \in 0..(rows - 1)
      BY <1>1
    <3>8. row(i \div cols) = mine
      BY <3>6, <3>7
    <3>9. \A r \in 0..(rows - 1) : i \in row(r) => r = i \div cols
      BY <3>3
    <3> QED BY <3>1, <3>7, <3>8, <3>9
  <2>3. CASE granularity = "column"
    <3> DEFINE column(c) == {c + r * cols : r \in 0..(rows - 1)}
    <3>1. Groups(rows, cols, granularity) = {column(c) : c \in 0..(cols - 1)}
      BY <2>3 DEF Groups
    <3>2. \A j : j \in mine <=> j \in 0..(rows * cols - 1) /\ j % cols = i % cols
      BY <2>3 DEF Members, ScaleIndex
    <3>0. \A r \in 0..(rows - 1), c \in 0..(cols - 1) : c + r * cols = r * cols + c
      BY <1>0
    <3>3. \A c \in 0..(cols - 1) : \A j \in column(c) : j \in 0..(rows * cols - 1) /\ j % cols = c
      BY <1>2, <3>0
    <3>4. ASSUME NEW j \in 0..(rows * cols - 1) PROVE j \in column(j % cols)
      <4>1. j \div cols \in 0..(rows - 1) /\ j % cols \in 0..(cols - 1)
        BY <1>1
      <4>2. j = (j \div cols) * cols + (j % cols)
        BY <1>1
      <4>3. (j % cols) + (j \div cols) * cols = (j \div cols) * cols + (j % cols)
        BY <3>0, <4>1, Zenon
      <4>4. \E r \in 0..(rows - 1) : j = (j % cols) + r * cols
        BY <4>1, <4>2, <4>3, Zenon
      <4> QED BY <4>4
    <3> HIDE DEF column, mine
    <3>6. \A c \in 0..(cols - 1) : c = i % cols => \A j : j \in column(c) <=> j \in mine
      BY <3>2, <3>3, <3>4
    <3>7. i % cols \in 0..(cols - 1)
      BY <1>1
    <3>8. column(i % cols) = mine
      BY <3>6, <3>7
    <3>9. \A c \in 0..(cols - 1) : i \in column(c) => c = i % cols
      BY <3>3
    <3> QED BY <3>1, <3>7, <3>8, <3>9
  <2> QED BY <2>1, <2>2, <2>3 DEF IsGrouping
<1> QED BY <1>3, <1>4

-----------------------------------------------------------------------------
(* One tensor packed.                                                      *)

(* The level quantize_pack gives value i, and the code it stores.          *)
PackedLevel(v, rows, cols, bits, granularity, i) ==
  LET peak == Peak(v, Members(rows, cols, granularity, ScaleIndex(i, cols, granularity)))
  IN  IF peak = 0 THEN 0 ELSE RoundHalfAway(v[i] * QuantLevels(bits), peak)

IsPackable(v, rows, cols, bits, granularity) ==
  /\ IsGrouping(rows, cols, granularity)
  /\ bits \in 2..16
  /\ v \in [0..(rows * cols - 1) -> Int]

(* A group's peak, and the level of a value in it.                         *)
LEMMA LevelFits ==
  ASSUME NEW v, NEW rows, NEW cols, NEW bits, NEW granularity,
         IsPackable(v, rows, cols, bits, granularity), NEW i \in 0..(rows * cols - 1)
  PROVE  LET peak == Peak(v, Members(rows, cols, granularity, ScaleIndex(i, cols, granularity)))
             qmax == QuantLevels(bits)
             level == PackedLevel(v, rows, cols, bits, granularity, i)
         IN  /\ peak \in Nat
             /\ level \in -qmax..qmax
             /\ peak = 0 => v[i] = 0
             /\ 2 * Abs(v[i] * qmax - level * peak) <= peak
<1> DEFINE group == Members(rows, cols, granularity, ScaleIndex(i, cols, granularity))
           peak == Peak(v, group)
           qmax == QuantLevels(bits)
           level == PackedLevel(v, rows, cols, bits, granularity, i)
<1>1. rows * cols \in Nat /\ v \in [0..(rows * cols - 1) -> Int]
  BY DEF IsPackable, IsGrouping
<1>2. i \in group /\ \A j \in group : j \in 0..(rows * cols - 1)
  BY DEF Members
<1> HIDE DEF group
<1>3. peak \in Nat /\ Abs(v[i]) <= peak
  <2>1. group # {}
    BY <1>2
  <2> QED BY <1>1, <1>2, <2>1, PeakIsLargest
<1>4. v[i] \in Int
  BY <1>1
<1>5. qmax \in Nat \ {0}
  BY LevelsExist DEF IsPackable
<1>6. level = IF peak = 0 THEN 0 ELSE RoundHalfAway(v[i] * qmax, peak)
  BY DEF PackedLevel, group
<1> HIDE DEF peak, qmax, level
<1>7. CASE peak = 0
  <2>1. v[i] = 0
    BY <1>3, <1>4, <1>7 DEF Abs
  <2>2. v[i] * qmax - level * peak = 0
    BY <1>5, <1>6, <1>7, <2>1
  <2>3. 2 * Abs(v[i] * qmax - level * peak) <= peak
    BY <1>7, <2>2 DEF Abs
  <2>4. level \in -qmax..qmax
    BY <1>5, <1>6, <1>7
  <2> QED BY <1>3, <2>1, <2>3, <2>4 DEF peak, qmax, level, group
<1>8. CASE peak # 0
  <2>1. peak \in Nat \ {0}
    BY <1>3, <1>8
  <2>2. /\ RoundHalfAway(v[i] * qmax, peak) \in -qmax..qmax
        /\ 2 * Abs(v[i] * qmax - RoundHalfAway(v[i] * qmax, peak) * peak) <= peak
    BY <1>3, <1>4, <1>5, <2>1, RoundedLevel
  <2>3. level = RoundHalfAway(v[i] * qmax, peak)
    BY <1>6, <1>8
  <2>4. level \in -qmax..qmax /\ 2 * Abs(v[i] * qmax - level * peak) <= peak
    BY <2>2, <2>3
  <2> QED BY <1>3, <1>8, <2>4 DEF peak, qmax, level, group
<1> QED BY <1>7, <1>8

(* Positions of the bits of value i: no other value has them.              *)
LEMMA BitsApart ==
  ASSUME NEW bits \in Nat \ {0}, NEW i \in Nat, NEW j \in Nat,
         NEW b \in 0..(bits - 1), NEW c \in 0..(bits - 1), i * bits + b = j * bits + c
  PROVE  i = j /\ b = c
<1>1. i * bits = bits * i /\ j * bits = bits * j
  OBVIOUS
<1>2. (bits * i + b) % bits = b /\ (bits * j + c) % bits = c
  BY ModUnique
<1>3. b = c
  BY <1>1, <1>2
<1>4. bits * i \in Nat /\ bits * j \in Nat
  OBVIOUS
<1>5. bits * i = bits * j
  BY <1>1, <1>3, <1>4
<1>6. i = j
  BY <1>5
<1> QED BY <1>3, <1>6

(* What quantize_pack writes: the peaks of the scales, and the bits of     *)
(* every code, at their own places and nowhere else.                       *)
LEMMA PackedContent ==
  ASSUME NEW v, NEW rows, NEW cols, NEW bits, NEW granularity,
         IsPackable(v, rows, cols, bits, granularity)
  PROVE  LET p == QuantizePack(v, rows, cols, bits, granularity)
             n == rows * cols
             code(i) == PackedLevel(v, rows, cols, bits, granularity, i) + QuantLevels(bits)
         IN  /\ \A i \in 0..(n - 1) :
                  p.scales[ScaleIndex(i, cols, granularity)]
                    = Peak(v, Members(rows, cols, granularity, ScaleIndex(i, cols, granularity)))
             /\ \A position \in p.packed :
                  \E i \in 0..(n - 1), b \in 0..(bits - 1) : position = i * bits + b
             /\ \A i \in 0..(n - 1), b \in 0..(bits - 1) :
                  i * bits + b \in p.packed <=> HasBit(code(i), b)
<1> DEFINE p == QuantizePack(v, rows, cols, bits, granularity)
           n == rows * cols
           qmax == QuantLevels(bits)
           index(i) == ScaleIndex(i, cols, granularity)
           members(g) == {i \in DOMAIN v : index(i) = g}
           peaks == [g \in 0..(Scales(rows, cols, granularity) - 1) |-> Peak(v, members(g))]
           level(i) == IF peaks[index(i)] = 0 THEN 0 ELSE RoundHalfAway(v[i] * qmax, peaks[index(i)])
           code(i) == PackedLevel(v, rows, cols, bits, granularity, i) + qmax
<1>1. /\ p.scales = peaks
      /\ p.packed = UNION {CodeBits(level(i) + qmax, bits, i * bits) : i \in DOMAIN v}
  BY DEF QuantizePack
<1>2. /\ n \in Nat /\ bits \in Nat \ {0} /\ IsGrouping(rows, cols, granularity)
      /\ DOMAIN v = 0..(n - 1)
  BY DEF IsPackable, IsGrouping
<1>3. \A i \in 0..(n - 1) : index(i) \in 0..(Scales(rows, cols, granularity) - 1)
  BY <1>2, ScaleExists
<1>4. \A g : members(g) = Members(rows, cols, granularity, g)
  BY <1>2 DEF Members
<1> HIDE DEF members
<1>5. \A i \in 0..(n - 1) : peaks[index(i)] = Peak(v, Members(rows, cols, granularity, index(i)))
  BY <1>3, <1>4
<1> HIDE DEF peaks
<1>6. \A i \in 0..(n - 1) : level(i) + qmax = code(i)
  BY <1>5 DEF PackedLevel
<1> HIDE DEF level, index
<1>7. \A i \in 0..(n - 1) : \A b : b \in CodeBits(level(i) + qmax, bits, i * bits) <=>
        \E c \in 0..(bits - 1) : b = i * bits + c /\ HasBit(code(i), c)
  BY <1>6 DEF CodeBits
<1> HIDE DEF code
<1>8. \A position : position \in p.packed <=>
        \E i \in 0..(n - 1) : \E c \in 0..(bits - 1) : position = i * bits + c /\ HasBit(code(i), c)
  BY <1>1, <1>2, <1>7
<1> HIDE DEF p
<1>9. \A position \in p.packed :
        \E i \in 0..(n - 1), b \in 0..(bits - 1) : position = i * bits + b
  BY <1>8
<1>10. ASSUME NEW i \in 0..(n - 1), NEW b \in 0..(bits - 1)
       PROVE  i * bits + b \in p.packed <=> HasBit(code(i), b)
  <2>1. ASSUME i * bits + b \in p.packed PROVE HasBit(code(i), b)
    <3>1. PICK j \in 0..(n - 1), c \in 0..(bits - 1) :
            i * bits + b = j * bits + c /\ HasBit(code(j), c)
      BY <1>8, <2>1
    <3>2. i \in Nat /\ j \in Nat
      BY <1>2
    <3>3. i = j /\ b = c
      BY <1>2, <3>1, <3>2, BitsApart
    <3> QED BY <3>1, <3>3
  <2> QED BY <1>8, <2>1
<1> QED BY <1>1, <1>5, <1>9, <1>10 DEF p, index, code

(* A code is a number.                                                     *)
LEMMA CodeInInt ==
  ASSUME NEW bits \in Nat, NEW packed, NEW offset
  PROVE  CodeAt(packed, bits, offset) \in Int
<1> DEFINE f == [n \in 1..bits |-> IF offset + n - 1 \in packed THEN Shift(n - 1) ELSE 0]
<1>1. \A n \in 1..bits : Shift(n - 1) \in Nat
  BY ShiftSteps
<1>2. \A n \in 1..bits : f[n] \in Nat
  BY <1>1
<1> HIDE DEF f
<1>3. SumOf(f, bits) \in Nat
  BY <1>2, SumInNat
<1> QED BY <1>3 DEF CodeAt, f

(* A bit of the packed buffer is a bit of one value.                       *)
LEMMA BitOfValue ==
  ASSUME NEW n \in Nat, NEW bits \in Nat \ {0}
  PROVE  /\ \A i \in 0..(n - 1), b \in 0..(bits - 1) : i * bits + b \in 0..(n * bits - 1)
         /\ \A p \in 0..(n * bits - 1) :
              /\ p \div bits \in 0..(n - 1) /\ p % bits \in 0..(bits - 1)
              /\ p = (p \div bits) * bits + (p % bits)
<1>1. CASE n = 0
  <2>1. n * bits = 0
    BY <1>1
  <2> QED BY <1>1, <2>1
<1>2. CASE n # 0
  <2>1. n \in Nat \ {0}
    BY <1>2
  <2> QED BY <2>1, RowAndColumn
<1> QED BY <1>1, <1>2

(* What is read back of every value of the packed tensor is its code.      *)
LEMMA PackedReadsBack ==
  ASSUME NEW v, NEW rows, NEW cols, NEW bits, NEW granularity,
         IsPackable(v, rows, cols, bits, granularity), NEW i \in 0..(rows * cols - 1)
  PROVE  CodeAt(QuantizePack(v, rows, cols, bits, granularity).packed, bits, i * bits)
           = PackedLevel(v, rows, cols, bits, granularity, i) + QuantLevels(bits)
<1> DEFINE packed == QuantizePack(v, rows, cols, bits, granularity).packed
           qmax == QuantLevels(bits)
           level == PackedLevel(v, rows, cols, bits, granularity, i)
           code == level + qmax
<1>1. bits \in 2..16 /\ bits \in Nat /\ rows * cols \in Nat
  BY DEF IsPackable, IsGrouping
<1>2. i * bits \in Nat
  BY <1>1
<1>3. level \in -qmax..qmax
  BY LevelFits
<1>4. qmax \in Nat \ {0} /\ Shift(bits) = 2 * qmax + 2
  BY <1>1, LevelsExist
<1>5. \A b \in 0..(bits - 1) : i * bits + b \in packed <=> HasBit(code, b)
  BY PackedContent
<1> HIDE DEF packed, qmax, level
<1>6. code \in Nat /\ code < Shift(bits)
  BY <1>3, <1>4
<1> HIDE DEF code
<1>7. CodeAt(packed, bits, i * bits) = code
  BY <1>1, <1>2, <1>5, <1>6, CodeReadBack
<1> QED BY <1>7 DEF packed, code, level, qmax

(* Loading a stored tensor: what the simulated quantizer leaves in memory. *)
LEMMA StoredAsSimulated ==
  ASSUME NEW v, NEW rows, NEW cols, NEW bits, NEW granularity,
         IsPackable(v, rows, cols, bits, granularity)
  PROVE  StorageMatchesSimulation(v, rows, cols, bits, granularity)
<1> DEFINE n == rows * cols
           p == QuantizePack(v, rows, cols, bits, granularity)
           qmax == QuantLevels(bits)
           group(i) == Members(rows, cols, granularity, ScaleIndex(i, cols, granularity))
           peak(i) == Peak(v, group(i))
           level(i) == PackedLevel(v, rows, cols, bits, granularity, i)
           w == QuantizeUnpack(p.scales, p.packed, rows, cols, bits, granularity)
           q == QuantizeDequantize(v, rows, cols, bits, granularity)
<1>1. /\ n \in Nat /\ bits \in 2..16 /\ IsGrouping(rows, cols, granularity)
      /\ DOMAIN v = 0..(n - 1) /\ v \in [0..(n - 1) -> Int]
  BY DEF IsPackable, IsGrouping
<1>2. qmax \in Nat \ {0}
  BY <1>1, LevelsExist
<1>3. \A i \in 0..(n - 1) : /\ peak(i) \in Nat /\ level(i) \in -qmax..qmax
                            /\ peak(i) = 0 => v[i] = 0
                            /\ 2 * Abs(v[i] * qmax - level(i) * peak(i)) <= peak(i)
  BY LevelFits
<1>4. \A i \in 0..(n - 1) : CodeAt(p.packed, bits, i * bits) = level(i) + qmax
  BY PackedReadsBack
<1>5. \A i \in 0..(n - 1) : p.scales[ScaleIndex(i, cols, granularity)] = peak(i)
  BY PackedContent
<1>6. \A position \in p.packed :
        \E i \in 0..(n - 1), b \in 0..(bits - 1) : position = i * bits + b
  BY PackedContent
<1>7. \A i \in 0..(n - 1) :
        level(i) = IF peak(i) = 0 THEN 0 ELSE RoundHalfAway(v[i] * qmax, peak(i))
  BY DEF PackedLevel
<1>8. q = [i \in 0..(n - 1) |-> Value(level(i), peak(i))]
  <2> DEFINE groupOf(i) == CHOOSE g \in Groups(rows, cols, granularity) : i \in g
  <2>1. \A i \in 0..(n - 1) : groupOf(i) = group(i)
    BY <1>1, GroupsAreScales
  <2>2. q = [i \in DOMAIN v |->
               Value(IF Peak(v, groupOf(i)) = 0 THEN 0
                     ELSE RoundHalfAway(v[i] * qmax, Peak(v, groupOf(i))), Peak(v, groupOf(i)))]
    BY DEF QuantizeDequantize
  <2> HIDE DEF groupOf, group, q, level, qmax
  <2> QED BY <1>1, <1>7, <2>1, <2>2
<1> HIDE DEF p, level, group, q
<1>9. w = [i \in 0..(n - 1) |-> Value(level(i), peak(i))]
  <2>1. w = [i \in 0..(n - 1) |->
               Value(CodeAt(p.packed, bits, i * bits) - qmax,
                     p.scales[ScaleIndex(i, cols, granularity)])]
    BY DEF QuantizeUnpack
  <2>2. \A i \in 0..(n - 1) : CodeAt(p.packed, bits, i * bits) - qmax = level(i)
    BY <1>2, <1>3, <1>4
  <2> HIDE DEF w, qmax, peak
  <2> QED BY <1>5, <2>1, <2>2
<1>10. ASSUME NEW position \in p.packed PROVE position \in 0..(n * bits - 1)
  <2>1. PICK i \in 0..(n - 1), b \in 0..(bits - 1) : position = i * bits + b
    BY <1>6
  <2>2. bits \in Nat \ {0}
    BY <1>1
  <2> HIDE DEF n
  <2>3. i * bits + b \in 0..(n * bits - 1)
    BY <1>1, <2>2, BitOfValue
  <2> QED BY <2>1, <2>3
<1>11. Unpackable(p.packed, n, bits)
  <2>1. \A i \in 0..(n - 1) : CodeAt(p.packed, bits, i * bits) <= 2 * qmax
    BY <1>2, <1>3, <1>4
  <2>2. \A position \in p.packed : position \in 0..(n * bits - 1)
    BY <1>10
  <2>3. \A position \in p.packed : position < n * bits
    <3>1. n * bits \in Nat
      BY <1>1
    <3> QED BY <2>2, <3>1
  <2> QED BY <2>1, <2>3 DEF Unpackable
<1>12. p.packed \subseteq 0..(8 * PackedBytes(n, bits) - 1)
  <2>1. bits \in Nat \ {0} /\ n * bits \in Nat
    BY <1>1
  <2>2. \A position \in p.packed : position \in 0..(n * bits - 1)
    BY <1>10
  <2>3. 8 * PackedBytes(n, bits) >= n * bits /\ PackedBytes(n, bits) \in Nat
    <3> DEFINE m == n * bits
    <3>1. m \in Nat /\ PackedBytes(n, bits) = (m + 7) \div 8
      BY <2>1 DEF PackedBytes
    <3> HIDE DEF m
    <3>2. 8 * ((m + 7) \div 8) >= m /\ (m + 7) \div 8 \in Nat
      BY <3>1
    <3> QED BY <3>1, <3>2 DEF m
  <2> QED BY <2>1, <2>2, <2>3
<1>13. \A i \in DOMAIN v : 2 * Abs(v[i] * qmax - w[i].level * w[i].peak) <= w[i].peak
  <2>1. SUFFICES ASSUME NEW i \in 0..(n - 1)
                 PROVE  2 * Abs(v[i] * qmax - w[i].level * w[i].peak) <= w[i].peak
    BY <1>1
  <2>2. w[i].level = (IF peak(i) = 0 THEN 0 ELSE level(i)) /\ w[i].peak = peak(i)
    BY <1>9 DEF Value
  <2>3. level(i) * peak(i) = w[i].level * w[i].peak
    BY <1>2, <1>3, <2>2
  <2> QED BY <1>3, <2>2, <2>3
<1>14. w = q
  BY <1>8, <1>9
<1> HIDE DEF w, qmax
<1>15. /\ Unpackable(p.packed, rows * cols, bits)
       /\ p.packed \subseteq 0..(8 * PackedBytes(rows * cols, bits) - 1)
       /\ w = q
  BY <1>11, <1>12, <1>14
<1> QED BY <1>13, <1>15 DEF StorageMatchesSimulation, p, q, w, qmax

(* Any other buffer, unless it differs in the codes of a group of zeros.   *)
LEMMA StoredCanonically ==
  ASSUME NEW v, NEW rows, NEW cols, NEW bits, NEW granularity,
         IsPackable(v, rows, cols, bits, granularity)
  PROVE  PackedIsCanonical(v, rows, cols, bits, granularity)
<1> DEFINE n == rows * cols
           p == QuantizePack(v, rows, cols, bits, granularity)
           qmax == QuantLevels(bits)
           w(packed) == QuantizeUnpack(p.scales, packed, rows, cols, bits, granularity)
           last == 8 * PackedBytes(n, bits) - 1
           flipped(position) == (p.packed \ {position}) \cup ({position} \ p.packed)
           silent(position) == /\ position < n * bits
                               /\ w(p.packed)[position \div bits].peak = 0
<1>1. /\ n \in Nat /\ bits \in Nat \ {0} /\ bits \in 2..16 /\ n * bits \in Nat
  BY DEF IsPackable, IsGrouping
<1>2. qmax \in Nat \ {0}
  BY <1>1, LevelsExist
<1>3. Unpackable(p.packed, n, bits)
  BY StoredAsSimulated DEF StorageMatchesSimulation
<1>4. PackedBytes(n, bits) \in Nat
  <2> DEFINE m == n * bits
  <2>1. m \in Nat
    BY <1>1
  <2> HIDE DEF m
  <2>2. (m + 7) \div 8 \in Nat
    BY <2>1
  <2> QED BY <2>2 DEF PackedBytes, m
<1>5. ASSUME NEW position \in 0..last,
             ~silent(position), Unpackable(flipped(position), n, bits)
      PROVE  w(flipped(position)) # w(p.packed)
  <2> DEFINE s == flipped(position)
             i == position \div bits
             b == position % bits
             g == ScaleIndex(i, cols, granularity)
             before == CodeAt(p.packed, bits, i * bits)
             after == CodeAt(s, bits, i * bits)
  <2>1. position \in Nat
    BY <1>4
  <2>2. \A x : x # position => (x \in s <=> x \in p.packed)
    OBVIOUS
  <2>3. position \in s <=> position \notin p.packed
    OBVIOUS
  <2>4. position < n * bits
    <3> SUFFICES ASSUME ~(position < n * bits) PROVE FALSE
      OBVIOUS
    <3>1. position \notin p.packed
      BY <1>3 DEF Unpackable
    <3>2. position \notin s
      BY <1>5 DEF Unpackable
    <3> QED BY <2>3, <3>1, <3>2
  <2>5. position \in 0..(n * bits - 1)
    BY <1>1, <2>1, <2>4
  <2>6. /\ i \in 0..(n - 1) /\ b \in 0..(bits - 1)
        /\ position = i * bits + b
    BY <1>1, <2>5, BitOfValue
  <2> HIDE DEF i, b, s, w
  <2>7. i * bits \in Nat
    BY <1>1, <2>6
  <2>8. after # before
    <3>1. /\ \A x \in Nat : x # i * bits + b => (x \in s <=> x \in p.packed)
          /\ i * bits + b \in s <=> i * bits + b \notin p.packed
      BY <2>2, <2>3, <2>6, Zenon
    <3> HIDE DEF p
    <3> QED BY <1>1, <2>6, <2>7, <3>1, FlipShows
  <2>9. w(p.packed)[i] = Value(before - qmax, p.scales[g]) /\ w(s)[i] = Value(after - qmax, p.scales[g])
    BY <2>6 DEF w, QuantizeUnpack
  <2>10. w(p.packed)[i].peak # 0
    BY <1>5, <2>4 DEF i
  <2>11. before \in Int /\ after \in Int
    BY <1>1, CodeInInt
  <2> HIDE DEF before, after, qmax, g
  <2>12. p.scales[g] # 0
    BY <2>9, <2>10 DEF Value
  <2>13. w(p.packed)[i].level = before - qmax /\ w(s)[i].level = after - qmax
    BY <2>9, <2>12 DEF Value
  <2>14. before - qmax # after - qmax
    BY <1>2, <2>8, <2>11 DEF qmax
  <2>15. w(s) # w(p.packed)
    BY <2>13, <2>14
  <2> QED BY <2>15 DEF s
<1> HIDE DEF flipped, silent, last, w, p
<1>6. \A position \in 0..last :
        \/ silent(position)
        \/ ~Unpackable(flipped(position), n, bits)
        \/ w(flipped(position)) # w(p.packed)
  BY <1>5
<1> QED BY <1>6 DEF PackedIsCanonical, flipped, silent, last, w, p

-----------------------------------------------------------------------------
(* Every tensor survives being stored: for any dimensions, values, width   *)
(* and granularity that quantize_pack accepts, quantize_unpack gives what  *)
(* quantize_dequantize leaves in memory, each value within half a step of  *)
(* the original; any other buffer it refuses or reads as another tensor.   *)
THEOREM TensorsAlwaysSurvive == ParametersSpec => []TensorsSurvive
<1>1. ParametersInit => TensorsSurvive
  <2> SUFFICES ASSUME ParametersInit, sample.kind = "tensor" PROVE TensorsSurvive
    BY DEF TensorsSurvive
  <2>1. sample \in Samples
    BY DEF ParametersInit, Unused
  <2>2. IsTensor(sample)
    BY <2>1, ParametersAssumption DEF IsClaim, IsTensor
  <2>3. IsPackable(sample.v, sample.rows, sample.cols, sample.bits, sample.granularity)
    BY <2>2 DEF IsTensor, IsPackable, IsGrouping
  <2> QED BY <2>3, StoredAsSimulated, StoredCanonically DEF TensorsSurvive
<1>2. TensorsSurvive /\ [UNCHANGED sample]_sample => TensorsSurvive'
  BY DEF TensorsSurvive
<1> QED BY <1>1, <1>2, PTL DEF ParametersSpec
=============================================================================
