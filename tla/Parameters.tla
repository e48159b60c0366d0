----------------------------- MODULE Parameters -----------------------------
(* What a model's parameters are stored as: a shape with the parameter     *)
(* count a bundle claims for it (ModelLayout), or a tensor with a way to   *)
(* quantize it (QuantBlocks). Nothing of it ever changes.                  *)
EXTENDS ModelLayout, QuantBlocks

CONSTANT Samples   (* The shapes and tensors looked at. *)

IsClaim(c) == c.kind = "shape" /\ Dimensions(c.s)

(* What arguments_valid lets through.                                      *)
IsTensor(t) ==
  /\ t.kind = "tensor"
  /\ t.rows \in Nat \ {0} /\ t.cols \in Nat \ {0}
  /\ t.bits \in 2..16
  /\ t.granularity \in {"tensor", "row", "column"}
  /\ t.v \in [0..(t.rows * t.cols - 1) -> Int]

ASSUME ParametersAssumption == \A x \in Samples : IsClaim(x) \/ IsTensor(x)

VARIABLE sample

Unused == [kind |-> "none"]

ParametersInit == sample \in Samples \cup {Unused}

ParametersSpec == ParametersInit /\ [][UNCHANGED sample]_sample

-----------------------------------------------------------------------------
(* The four descriptions of the parameter buffer agree, and a bundle's     *)
(* header is held to the count of the model it describes.                  *)
ShapesAreConsistent ==
  sample.kind = "shape" =>
    /\ DescriptionsAgree(sample.s)
    /\ CountIsPinned(sample.s, sample.total)

(* A tensor comes back from its packed form as the simulated quantizer has *)
(* it, and from no other buffer.                                           *)
TensorsSurvive ==
  sample.kind = "tensor" =>
    /\ StorageMatchesSimulation(sample.v, sample.rows, sample.cols,
                                sample.bits, sample.granularity)
    /\ PackedIsCanonical(sample.v, sample.rows, sample.cols,
                         sample.bits, sample.granularity)
=============================================================================
