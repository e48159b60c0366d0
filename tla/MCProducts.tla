----------------------------- MODULE MCProducts ------------------------------
(* The processors and products that MatmulKernels is checked with.         *)
EXTENDS Integers

MCThreads == {0, 1}

Avx2Cpu == {"osxsave", "leaf7", "avx", "avx2", "fma", "ymm"}
Avx512Cpu == Avx2Cpu \cup {"avx512f", "avx512vl", "avx512bw", "zmm"}

(* A processor with VL has BW. *)
MCCpus == {{}, Avx2Cpu, Avx2Cpu \ {"fma"}, Avx512Cpu, Avx512Cpu \ {"zmm"}, {"arm"}}

NamedCaps == {"baseline", "avx2"}

Shapes == {<<1, 2, 17>>, <<1, 3, 9>>, <<5, 2, 4>>, <<3, 5, 19>>, <<4, 6, 1>>, <<2, 0, 3>>}

Call(op, kernel_name, s, tile) ==
  [op |-> op, kernel |-> kernel_name, m |-> s[1], k |-> s[2], n |-> s[3], tile |-> tile]

MCNames == {"auto", "scalar", "rowwise", "tiled", "tiled_mr4",
                "avx2_mr4", "avx512_mr4", "neon_mr4"}

MCCalls ==
  {Call("forward", name, s, tile) : name \in MCNames, s \in Shapes, tile \in {4, 18}}
    \cup {Call("forward", "auto", <<1, 64, 256>>, 128)}
    \cup {Call(op, "auto", s, 18) : op \in {"weight", "input"}, s \in Shapes}
    \cup {Call("bf16", "auto", s, tile) : s \in Shapes, tile \in {4, 18}}
    \cup {Call("quantized", "auto", s, tile) : s \in Shapes \ {<<2, 0, 3>>}, tile \in {4, 18, 999}}
=============================================================================
