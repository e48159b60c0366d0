---------------------------- MODULE QuantBlocks ----------------------------
(***************************************************************************)
(* Symmetric weight quantization and its packed storage form, over exact   *)
(* rationals: a tensor is a function from 0..rows*cols-1 to integers, a    *)
(* scale is kept as the peak it comes from (scale = peak / qmax), and a    *)
(* packed buffer is the set of its one bits. What is shown is which values *)
(* share a scale, where a code's bits go and what a decoder must refuse;   *)
(* float rounding is not modelled.                                         *)
(***************************************************************************)
EXTENDS Sums

Abs(x) == IF x < 0 THEN -x ELSE x

(* 1 << n                                                                  *)
Shift(n) ==
  LET power[i \in 0..n] == IF i = 0 THEN 1 ELSE 2 * power[i - 1]
  IN  power[n]

HasBit(code, b) == (code \div Shift(b)) % 2 = 1

(* quant_levels                                                            *)
QuantLevels(bits) == Shift(bits - 1) - 1

(* round_half_away of n / d, d > 0.                                        *)
RoundHalfAway(n, d) ==
  LET magnitude == (2 * Abs(n) + d) \div (2 * d)
  IN  IF n < 0 THEN -magnitude ELSE magnitude

(* scale_index: the scale that value i of a row-major tensor shares.       *)
ScaleIndex(i, cols, granularity) ==
  CASE granularity = "row" -> i \div cols
    [] granularity = "column" -> i % cols
    [] granularity = "tensor" -> 0

(* quantized_scale_count                                                   *)
Scales(rows, cols, granularity) ==
  CASE granularity = "tensor" -> 1
    [] granularity = "row" -> rows
    [] granularity = "column" -> cols

(* quantized_packed_size, in bytes.                                        *)
PackedBytes(count, bits) == (count * bits + 7) \div 8

(* The groups quantize_dequantize_into walks: all values, each row, or each*)
(* column with a stride of cols.                                           *)
Groups(rows, cols, granularity) ==
  CASE granularity = "tensor" -> {0 .. (rows * cols - 1)}
    [] granularity = "row" -> {{r * cols + c : c \in 0..(cols - 1)} : r \in 0..(rows - 1)}
    [] granularity = "column" -> {{c + r * cols : r \in 0..(rows - 1)} : c \in 0..(cols - 1)}

Peak(v, group) ==
  CHOOSE p \in {Abs(v[i]) : i \in group} : \A i \in group : Abs(v[i]) <= p

(* A reconstructed value, as the fraction level * peak / qmax.             *)
Value(level, peak) == IF peak = 0 THEN [level |-> 0, peak |-> 0]
                      ELSE [level |-> level, peak |-> peak]

(* quantize_dequantize: what the simulated quantizer leaves in place.      *)
QuantizeDequantize(v, rows, cols, bits, granularity) ==
  LET qmax == QuantLevels(bits)
      groupOf(i) == CHOOSE g \in Groups(rows, cols, granularity) : i \in g
  IN  [i \in DOMAIN v |->
         LET peak == Peak(v, groupOf(i))
         IN  Value(IF peak = 0 THEN 0 ELSE RoundHalfAway(v[i] * qmax, peak), peak)]

(* Mutant: the bits of a code are written most significant first.          *)
CodeBits_Reversed(code, bits, offset) ==
  {offset + (bits - 1 - b) : b \in {n \in 0..(bits - 1) : HasBit(code, n)}}

(* packed_code_set                                                         *)
CodeBits(code, bits, offset) ==
  {offset + b : b \in {n \in 0..(bits - 1) : HasBit(code, n)}}

(* packed_code_get                                                         *)
CodeAt(packed, bits, offset) ==
  SumOf([n \in 1..bits |-> IF offset + n - 1 \in packed THEN Shift(n - 1) ELSE 0], bits)

(* quantize_pack: one peak per scale, one biased code per value.           *)
QuantizePack(v, rows, cols, bits, granularity) ==
  LET qmax == QuantLevels(bits)
      members(g) == {i \in DOMAIN v : ScaleIndex(i, cols, granularity) = g}
      peaks == [g \in 0..(Scales(rows, cols, granularity) - 1) |-> Peak(v, members(g))]
      level(i) == LET peak == peaks[ScaleIndex(i, cols, granularity)]
                  IN  IF peak = 0 THEN 0 ELSE RoundHalfAway(v[i] * qmax, peak)
  IN  [scales |-> peaks,
       packed |-> UNION {CodeBits(level(i) + qmax, bits, i * bits) : i \in DOMAIN v}]

(* quantize_unpack refuses the unused all-ones code and set padding bits.  *)
Unpackable(packed, count, bits) ==
  /\ \A i \in 0..(count - 1) : CodeAt(packed, bits, i * bits) <= 2 * QuantLevels(bits)
  /\ \A position \in packed : position < count * bits

QuantizeUnpack(scales, packed, rows, cols, bits, granularity) ==
  [i \in 0..(rows * cols - 1) |->
     Value(CodeAt(packed, bits, i * bits) - QuantLevels(bits),
           scales[ScaleIndex(i, cols, granularity)])]

-----------------------------------------------------------------------------
(* Properties of one tensor.                                               *)

(* Storing and loading a tensor gives what the simulated quantizer, whose  *)
(* accuracy is what users measure, leaves in memory; each value is within  *)
(* half a step of the original and the largest of a group is exact.        *)
StorageMatchesSimulation(v, rows, cols, bits, granularity) ==
  LET p == QuantizePack(v, rows, cols, bits, granularity)
      w == QuantizeUnpack(p.scales, p.packed, rows, cols, bits, granularity)
  IN  /\ Unpackable(p.packed, rows * cols, bits)
      /\ p.packed \subseteq 0..(8 * PackedBytes(rows * cols, bits) - 1)
      /\ w = QuantizeDequantize(v, rows, cols, bits, granularity)
      /\ \A i \in DOMAIN v :
           2 * Abs(v[i] * QuantLevels(bits) - w[i].level * w[i].peak) <= w[i].peak

(* Any other buffer is refused or decodes to another tensor, except inside *)
(* a group of zeros, whose codes say nothing.                              *)
PackedIsCanonical(v, rows, cols, bits, granularity) ==
  LET p == QuantizePack(v, rows, cols, bits, granularity)
      w == QuantizeUnpack(p.scales, p.packed, rows, cols, bits, granularity)
  IN  \A position \in 0..(8 * PackedBytes(rows * cols, bits) - 1) :
        LET flipped == (p.packed \ {position}) \cup ({position} \ p.packed)
            silent == /\ position < rows * cols * bits
                      /\ w[position \div bits].peak = 0
        IN  \/ silent
            \/ ~Unpackable(flipped, rows * cols, bits)
            \/ QuantizeUnpack(p.scales, flipped, rows, cols, bits, granularity) # w
=============================================================================
