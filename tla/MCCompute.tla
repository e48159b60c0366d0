------------------------------ MODULE MCCompute ------------------------------
(* The arithmetic of a model: one behaviour multiplies on the device         *)
(* (GpuWeights), runs one product on the CPU (MatmulKernels) or a group of   *)
(* training windows (TrainingStep); an initial state without steps is one of *)
(* the shapes or tensors of Parameters.                                      *)
EXTENDS MCGpuWeights, MatmulKernels, MCProducts, Parameters, TrainingStep

VARIABLE subject   \* "device", "product", "step" or "sample"

ASSUME MinWork \in Nat \ {0}

MCCaps == {NONE} \cup NamedCaps

Window(len, tokens, targets, padding, blocked) ==
  [len |-> len, tokens |-> tokens, targets |-> targets, padding |-> padding,
   blocked |-> blocked]

(* Plain; a masked target; a padded row; a row that sees nothing and a     *)
(* masked edge; no supervised row at all.                                  *)
MCWindows ==
  {Window(2, <<1, 2>>, <<2, 1>>, {}, {}),
   Window(3, <<2, 3, 1>>, <<99, 2, 1>>, {}, {}),
   Window(3, <<2, 1, 2>>, <<1, 2, 2>>, {1}, {}),
   Window(3, <<1, 1, 2>>, <<2, 2, 1>>, {}, {<<1, 1>>, <<3, 2>>}),
   Window(1, <<2>>, <<99>>, {}, {})}

Net(layers, flags, dropout) == [layers |-> layers, flags |-> flags, dropout |-> dropout]

MCNets ==
  {Net(2, {}, TRUE), Net(2, {"ROPE", "SWIGLU"}, FALSE), Net(1, {"TIED", "GELU"}, TRUE),
   Net(2, {"TIED", "RMSNORM", "GELU"}, FALSE),
   Net(2, {"TIED", "ROPE", "RMSNORM", "SWIGLU"}, TRUE)}

(* Numbers that differ by the buffer, the place and the version.           *)
MCContent ==
  LET tag == [E |-> 1, W_out |-> 2, W_q |-> 3, W_k |-> 4, W_v |-> 5, W_o |-> 6, gamma_attn |-> 7,
              gamma_ffn |-> 8, W_ff1 |-> 9, W_ff_gate |-> 10, W_ff2 |-> 11, hidden |-> 12,
              x1 |-> 13, Q |-> 14, K |-> 15, V |-> 16, concat |-> 17, probs |-> 18,
              ff_hidden |-> 19, slope |-> 20, silu |-> 21, gate |-> 22, xhat_attn |-> 23,
              xhat_ffn |-> 24, std_attn |-> 25, std_ffn |-> 26, mask_attn |-> 27,
              mask_ffn |-> 28, rope |-> 29, grad |-> 30, mean |-> 31, heap |-> 32]
      mixed(x) == 1 + (((x * x) + 17 * x) % (Modulo - 1))
  IN  [c \in Holders \X (0..Most) \X (0..Most) \X (0..Most) \X (0..Most) |->
         mixed(tag[c[1]] * 37 + c[2] * 411 + (c[3] * 7 + c[4]) * 59 + c[5] * 1009)]

ModelShapes ==
  [vocab : {1, 3}, embedding : {1, 2, 4}, heads : {1, 2}, layers : 1..2,
   sequence : {1, 48}, flags : SUBSET Flags]

(* A shape with the count its model has, and the counts next to it.        *)
ShapeSamples ==
  {[kind |-> "shape", s |-> s, total |-> ParamCount(s) + off] : s \in ModelShapes, off \in -1..1}

TensorSamples ==
  UNION {[kind : {"tensor"}, v : [0..(d[1] * d[2] - 1) -> {-3, 0, 2}], rows : {d[1]}, cols : {d[2]},
          bits : {2, 3, 5}, granularity : {"tensor", "row", "column"}] :
         d \in {<<1, 4>>, <<4, 1>>, <<2, 3>>}}

MCSamples == ShapeSamples \cup TensorSamples

(* The call an idle instance of MatmulKernels never enters.                *)
idleProduct ==
  /\ call = CHOOSE c \in Calls : TRUE
  /\ cpu = CHOOSE c \in Cpus : TRUE
  /\ env = NONE
  /\ ProductInit

idleStep ==
  /\ net = NONE /\ grads = NONE /\ ws = NONE /\ pass = NONE /\ phase = NONE
  /\ layer = NONE /\ seen = NONE /\ passes = NONE /\ adam = NONE /\ steps = NONE

(* A device that nobody uses stays as Init of GpuWeights has it.           *)
ComputeInit ==
  /\ Init
  /\ \/ subject = "device" /\ sample = Unused /\ idleProduct /\ idleStep
     \/ subject = "product" /\ sample = Unused /\ ProductInit /\ idleStep
     \/ subject = "step" /\ sample = Unused /\ StepInit /\ idleProduct
     \/ subject = "sample" /\ ParametersInit /\ idleProduct /\ idleStep

DeviceNext ==
  subject = "device" /\ Next /\ UNCHANGED <<subject, sample, productVars, stepVars>>
CallNext ==
  subject = "product" /\ ProductNext /\ UNCHANGED <<subject, sample, vars, stepVars>>
TrainNext ==
  subject = "step" /\ StepNext /\ UNCHANGED <<subject, sample, vars, productVars>>
ComputeNext == DeviceNext \/ CallNext \/ TrainNext
ComputeSpec ==
  ComputeInit /\ [][ComputeNext]_<<subject, sample, vars, productVars, stepVars>>

(* docs/model-bundle.md: "DRANZER writes one self-contained model bundle   *)
(* at the path selected by `--model`": every model that can be made, and   *)
(* so trained, has a bundle.                                               *)
EveryModelCanBeBundled ==
  (sample.kind = "shape" /\ ModelAccepts(sample.s)) =>
    BundleShapeValid(sample.s, ParamCount(sample.s))
=============================================================================
