--------------------------- MODULE MatmulKernels ---------------------------
(***************************************************************************)
(* Matrix products on the CPU: which kernel a call runs, how the kernel    *)
(* cuts the output into chunks that a team of threads takes, into register *)
(* tiles and vectors with tails, and which terms every output element has  *)
(* accumulated when the call returns. An output element is the sequence of *)
(* the terms added to it; a term is the set of the inner indices that one  *)
(* instruction folds into it. Rounding is not modelled, its order is.      *)
(***************************************************************************)
EXTENDS CpuFeatures, Sequences

CONSTANTS Calls,     (* products: [op, kernel, m, k, n, tile]               *)
          MinWork,   (* multiply-adds below which no team is formed         *)
          Modulus    (* SIZE_MAX + 1, scaled down with the shapes           *)

VARIABLES call,      (* the product asked for                               *)
          kernel,    (* the kernel it runs, NONE before it is selected      *)
          out,       (* the terms of every output element, by flat address  *)
          share,     (* the chunks each thread has still to take            *)
          flight     (* the block each thread is computing                  *)

productVars == <<detection, call, kernel, out, share, flight>>

Operations == {"forward", "weight", "input", "bf16", "quantized"}
KernelNames == {"scalar", "rowwise", "tiled", "tiled_mr4",
                "avx2_mr4", "avx512_mr4", "neon_mr4"}

(* Threads are numbered from the calling one. Processors with 512-bit      *)
(* vectors of any length have the byte and word instructions too. No       *)
(* dimension is within a tile of SIZE_MAX, and the quantized product has   *)
(* an inner dimension.                                                     *)
ASSUME MatmulKernelsAssumption ==
  /\ Cardinality(Threads) \in Nat \ {0}
  /\ Threads = 0..(Cardinality(Threads) - 1)
  /\ \A c \in Cpus : "avx512vl" \in c => "avx512bw" \in c
  /\ Caps \subseteq {NONE} \cup DOMAIN Ordinal
  /\ Modulus \in Nat
  /\ \A c \in Calls :
       /\ c.op \in Operations
       /\ c.kernel \in {"auto"} \cup KernelNames
       /\ c.m \in Nat /\ c.k \in Nat /\ c.n \in Nat /\ c.tile \in Nat \ {0}
       /\ c.op = "quantized" => c.k > 0
       /\ c.op # "quantized" => \A x \in {c.m, c.k, c.n} : x + c.tile <= Modulus
       /\ c.op = "weight" => c.k + 4 <= Modulus
  /\ NONE \notin Isas \cup KernelNames \cup {"encoded", "returned"}

Stale == << {-1} >>

(* What a thread between two chunks has in flight.                         *)
Idling == [isa |-> NONE, tiles |-> {}]
Working(t) == flight[t].isa # NONE

-----------------------------------------------------------------------------
(* Vectors, tails and groups of rows.                                      *)

(* The starts of the full strips of w that fit into lo..(hi-1), and where  *)
(* what is left begins.                                                    *)
Strips(lo, hi, w) == {lo + w * s : s \in 0..(((hi - lo) \div w) - 1)}
RestFrom(lo, hi, w) == lo + w * ((hi - lo) \div w)

Vectors(lo, hi, w) == {j..(j + w - 1) : j \in Strips(lo, hi, w)}
Singles(lo, hi, w) == {{j} : j \in RestFrom(lo, hi, w)..(hi - 1)}

(* The lanes of the mask (1 << count) - 1.                                 *)
PowersOfTwo == <<1, 2, 4, 8, 16, 32, 64, 128, 256, 512, 1024, 2048, 4096,
                 8192, 16384, 32768, 65536>>
Shifted(count) == PowersOfTwo[count + 1]
MaskLanes(count) ==
  {lane \in 0..15 : ((Shifted(count) - 1) \div Shifted(lane)) % 2 = 1}

MaskedTail(lo, hi) ==
  LET j == RestFrom(lo, hi, 16)
  IN  IF j < hi THEN {{j + lane : lane \in MaskLanes(hi - j)}} ELSE {}

Rectangles(rows, cols) == {[rows |-> r, cols |-> c] : r \in rows, c \in cols}

RowGroups(i0, i1) == Vectors(i0, i1, 4) \cup Singles(i0, i1, 4)

EachRow(i0, i1) == {{i} : i \in i0..(i1 - 1)}

-----------------------------------------------------------------------------
(* The blocks: the register tiles over rows i0..i1-1 and columns j0..j1-1. *)

BlockScalar(i0, i1, j0, j1) == Rectangles(EachRow(i0, i1), {j0..(j1 - 1)})

BlockMr4(i0, i1, j0, j1) == Rectangles(RowGroups(i0, i1), {j0..(j1 - 1)})

(* Mutant: the last full vector of a row is left to the tail and computed  *)
(* by both.                                                                *)
BlockAvx2_TailTwice(i0, i1, j0, j1) ==
  Rectangles(RowGroups(i0, i1),
             Vectors(j0, j1, 8) \cup {{j} : j \in (RestFrom(j0, j1, 8) - 1)..(j1 - 1)})

BlockAvx2(i0, i1, j0, j1) ==
  Rectangles(RowGroups(i0, i1), Vectors(j0, j1, 8) \cup Singles(j0, j1, 8))

BlockAvx512(i0, i1, j0, j1) ==
  Rectangles(RowGroups(i0, i1), Vectors(j0, j1, 16) \cup MaskedTail(j0, j1))

BlockNeon(i0, i1, j0, j1) ==
  Rectangles(RowGroups(i0, i1), Vectors(j0, j1, 4) \cup Singles(j0, j1, 4))

(* The quantized vector blocks leave the columns past the last vector, and *)
(* the rows past the last group, to the portable block.                    *)
QuantizedBlock(i0, i1, j0, j1, w) ==
  LET rest == RestFrom(i0, i1, 4)
  IN  Rectangles(Vectors(i0, i1, 4),
                 Vectors(j0, j1, w) \cup {RestFrom(j0, j1, w)..(j1 - 1)})
        \cup Rectangles(EachRow(rest, i1), {j0..(j1 - 1)})

Bf16BlockPortable(i0, i1, j0, j1) == BlockScalar(i0, i1, j0, j1)
Bf16BlockAvx2(i0, i1, j0, j1) ==
  Rectangles(RowGroups(i0, i1), Vectors(j0, j1, 8) \cup Singles(j0, j1, 8))

Bf16BlockAvx512(i0, i1, j0, j1) ==
  Rectangles(RowGroups(i0, i1), Vectors(j0, j1, 16) \cup MaskedTail(j0, j1))

Block(op, isa, i0, i1, j0, j1) ==
  CASE op = "quantized" /\ isa = "avx512" -> QuantizedBlock(i0, i1, j0, j1, 16)
    [] op = "quantized" /\ isa = "avx2" -> QuantizedBlock(i0, i1, j0, j1, 8)
    [] op = "quantized" /\ isa = "baseline" -> BlockScalar(i0, i1, j0, j1)
    [] op = "bf16" /\ isa = "avx512" -> Bf16BlockAvx512(i0, i1, j0, j1)
    [] op = "bf16" /\ isa = "avx2" -> Bf16BlockAvx2(i0, i1, j0, j1)
    [] op = "bf16" /\ isa = "baseline" -> Bf16BlockPortable(i0, i1, j0, j1)

-----------------------------------------------------------------------------
(* Selection.                                                              *)

KernelIsa(name) ==
  CASE name = "avx2_mr4" -> "avx2"
    [] name = "avx512_mr4" -> "avx512"
    [] name = "neon_mr4" -> "neon"
    [] OTHER -> "baseline"

(* Compiled in for this architecture, and executable here.                 *)
KernelAvailable(name) ==
  /\ name \in {"avx2_mr4", "avx512_mr4"} => "arm" \notin cpu
  /\ name = "neon_mr4" => "arm" \in cpu
  /\ Available(KernelIsa(name))

Select(m, k, n) ==
  IF m = 1 /\ k >= 64 /\ n % 4 = 0 /\ n \div 4 = k THEN "rowwise"
  ELSE IF KernelAvailable("avx512_mr4") THEN "avx512_mr4"
  ELSE IF KernelAvailable("avx2_mr4") THEN "avx2_mr4"
  ELSE "tiled_mr4"

(* Mutant: a pinned kernel runs whether or not this processor can.         *)
Resolved_Pinned(c) ==
  IF c.kernel = "auto" THEN Select(c.m, c.k, c.n) ELSE c.kernel

(* matmul_run's choice.                                                    *)
Resolved(c) ==
  LET asked == IF c.kernel = "auto" THEN Select(c.m, c.k, c.n) ELSE c.kernel
  IN  IF KernelAvailable(asked) THEN asked ELSE "tiled_mr4"

(* The widest instruction set of the backward and encoded products.        *)
Widest ==
  IF Available("avx512") THEN "avx512" ELSE IF Available("avx2") THEN "avx2" ELSE "baseline"

(* Products that dispatch inside their chunks.                             *)
Encoded(c) == c.op \in {"bf16", "quantized"}

(* The instruction set of a chunk about to be computed.                    *)
ChunkIsa == IF Encoded(call) THEN Widest ELSE KernelIsa(kernel)

-----------------------------------------------------------------------------
(* The output of a product and the chunks it is cut into.                  *)

Rows(c) == IF c.op = "weight" THEN c.k ELSE c.m
Cols(c) == IF c.op = "input" THEN c.k ELSE c.n

CeilDiv(x, tile) == ((x + tile - 1) % Modulus) \div tile

(* The blocks a dimension is cut into; the quantized product avoids the    *)
(* sum that may overflow.                                                  *)
Blocks(c, x) == IF c.op = "quantized" THEN ((x - 1) \div c.tile) + 1 ELSE CeilDiv(x, c.tile)

Blocked(name) == name \notin {"scalar", "rowwise"}

(* Chunks of the parallel loop, with the kernel or instruction set known.  *)
Chunks(c, name) ==
  CASE c.op = "input" -> c.m
    [] c.op = "weight" /\ name = "baseline" -> CeilDiv(c.k, 4)
    [] c.op = "weight" /\ name # "baseline" -> c.k \div 4
    [] c.op = "forward" /\ name = "scalar" -> 1
    [] c.op = "forward" /\ name = "rowwise" -> c.m
    [] OTHER -> Blocks(c, c.m) * Blocks(c, c.n)

Limit(c, start, bound) ==
  LET end == IF c.op = "quantized" THEN start + c.tile ELSE (start + c.tile) % Modulus
  IN  IF end > bound THEN bound ELSE end

(* The tile of the output that chunk blk of a blocked kernel owns.         *)
TileOf(c, name, isa, blk) ==
  LET j_blocks == Blocks(c, c.n)
      ii == (blk \div j_blocks) * c.tile
      jj == (blk % j_blocks) * c.tile
      i1 == Limit(c, ii, c.m)
      j1 == Limit(c, jj, c.n)
  IN  CASE Encoded(c) -> Block(c.op, isa, ii, i1, jj, j1)
        [] name = "tiled" -> BlockScalar(ii, i1, jj, j1)
        [] name = "tiled_mr4" -> BlockMr4(ii, i1, jj, j1)
        [] name = "avx2_mr4" -> BlockAvx2(ii, i1, jj, j1)
        [] name = "avx512_mr4" -> BlockAvx512(ii, i1, jj, j1)
        [] name = "neon_mr4" -> BlockNeon(ii, i1, jj, j1)

BackwardWeightColumns(n, isa) ==
  CASE isa = "avx512" -> Vectors(0, n, 16) \cup MaskedTail(0, n)
    [] isa = "avx2" -> Vectors(0, n, 8) \cup Singles(0, n, 8)
    [] isa = "baseline" -> {0..(n - 1)}

(* Four rows of dB, or what is left of them.                               *)
BackwardWeightTiles(c, isa, blk) ==
  LET l == blk * 4
  IN  IF l + 4 <= c.k
      THEN Rectangles({l..(l + 3)}, BackwardWeightColumns(c.n, isa))
      ELSE Rectangles(EachRow(l, c.k), BackwardWeightColumns(c.n, isa))

(* Row i of dA, four elements at a time where the kernel has vectors.      *)
BackwardInputTiles(c, isa, i) ==
  Rectangles({{i}}, IF isa = "baseline" THEN EachRow(0, c.k) ELSE RowGroups(0, c.k))

TilesOf(c, name, isa, blk) ==
  CASE c.op = "input" -> BackwardInputTiles(c, isa, blk)
    [] c.op = "weight" -> BackwardWeightTiles(c, isa, blk)
    [] c.op = "forward" /\ name = "scalar" -> BlockScalar(0, c.m, 0, c.n)
    [] c.op = "forward" /\ name = "rowwise" -> BlockScalar(blk, blk + 1, 0, c.n)
    [] OTHER -> TileOf(c, name, isa, blk)

(* The rows of dB a vector kernel computes after its parallel loop.        *)
Remainder(c, isa) ==
  IF c.op = "weight" /\ isa # "baseline" /\ c.k % 4 # 0
  THEN BackwardWeightTiles(c, isa, c.k \div 4) ELSE {}

(* The terms of one pass over the inner dimension. A blocked kernel makes  *)
(* one pass per tile of it, keeping the element in memory in between.      *)
InnerTerms(lo, hi) == [q \in 1..(hi - lo) |-> {lo + q - 1}]

(* A dot product accumulates each lane of a vector, and folds them at its  *)
(* end: one term per vector.                                               *)
DotTerms(n, isa) ==
  LET w == IF isa = "avx512" THEN 16 ELSE 8
      full == n \div w
      rest == full * w
      vectors == [q \in 1..full |-> (w * (q - 1))..(w * q - 1)]
  IN  CASE isa = "baseline" -> InnerTerms(0, n)
        [] isa = "avx2" -> vectors \o InnerTerms(rest, n)
        [] isa = "avx512" ->
             vectors \o (IF rest < n THEN <<{rest + lane : lane \in MaskLanes(n - rest)}>>
                         ELSE << >>)

Passes(c, name, isa) ==
  CASE c.op = "input" -> <<DotTerms(c.n, isa)>>
    [] c.op = "weight" -> <<InnerTerms(0, c.m)>>
    [] c.op = "forward" /\ ~Blocked(name) -> <<InnerTerms(0, c.k)>>
    [] OTHER -> [q \in 1..(((c.k - 1) \div c.tile) + 1) |->
                   InnerTerms((q - 1) * c.tile, Limit(c, (q - 1) * c.tile, c.k))]

(* Element a after every rectangle that holds it has made every pass.      *)
Accumulated(c, passes, tiles, a, element) ==
  LET copies == Cardinality({t \in tiles :
                    \E i \in t.rows, j \in t.cols : i * Cols(c) + j = a})
      after[q \in 0..(copies * Len(passes))] ==
        IF q = 0 THEN element ELSE after[q - 1] \o passes[((q - 1) \div copies) + 1]
  IN  after[copies * Len(passes)]

-----------------------------------------------------------------------------
(* The run of one call.                                                    *)

ProductInit ==
  /\ DetectionInit
  /\ call \in Calls
  /\ kernel = NONE
  /\ out = [a \in 0..(Rows(call) * Cols(call) - 1) |-> Stale]
  /\ share = [t \in Threads |-> {}]
  /\ flight = [t \in Threads |-> Idling]

Ready(t) == pc[t] = "ready" /\ detected

(* parallel_should_fork                                                    *)
ShouldFork(chunks, work) ==
  /\ chunks >= 2
  /\ work >= MinWork
  /\ Cardinality(Threads) > 1

(* schedule(static): contiguous runs of chunks, the first threads first.   *)
Shares(chunks, fork) ==
  LET team == Cardinality(Threads)
      each == (chunks + team - 1) \div team
  IN  [t \in Threads |->
         IF fork THEN {b \in 0..(chunks - 1) : b \div each = t}
         ELSE IF t = 0 THEN 0..(chunks - 1) ELSE {}]

(* The early returns: nothing to compute, or an inner dimension of zero.   *)
Empty(c) == c.m = 0 \/ c.n = 0 \/ (c.k = 0 /\ c.op \in {"forward", "bf16"})

(* The kernel is chosen by the calling thread; only then is the team made. *)
Enter ==
  /\ kernel = NONE
  /\ Encoded(call) \/ Ready(0)
  /\ LET name == CASE call.op = "forward" -> Resolved(call)
                   [] Encoded(call) -> "encoded"
                   [] OTHER -> Widest
         chunks == IF Empty(call) THEN 0 ELSE Chunks(call, name)
         zeroed == IF call.op = "forward" THEN TRUE ELSE Encoded(call) /\ ~Empty(call)
     IN  /\ kernel' = name
         /\ out' = IF zeroed THEN [a \in DOMAIN out |-> << >>] ELSE out
         /\ share' = Shares(chunks, ShouldFork(chunks, call.m * call.k * call.n))
  /\ UNCHANGED <<detection, call, flight>>

(* A chunk is computed between these two steps, while others run.  An       *)
(* encoded product asks for its instruction set at each pass over the inner *)
(* dimension, here once for the chunk: whatever the answers, the passes add *)
(* the same terms to the same elements.                                     *)
Start(t) ==
  /\ kernel # NONE /\ ~Working(t) /\ share[t] # {}
  /\ Encoded(call) => Ready(t)
  /\ LET blk == CHOOSE b \in share[t] : \A other \in share[t] : b <= other
         isa == IF call.op \in {"input", "weight"} THEN kernel ELSE ChunkIsa
     IN  /\ flight' = [flight EXCEPT ![t] =
                         [isa |-> isa, tiles |-> TilesOf(call, kernel, isa, blk)]]
         /\ share' = [share EXCEPT ![t] = @ \ {blk}]
  /\ UNCHANGED <<detection, call, kernel, out>>

Updated(tiles, isa) ==
  LET passes == Passes(call, kernel, isa)
  IN  [a \in DOMAIN out |-> Accumulated(call, passes, tiles, a, out[a])]

Finish(t) ==
  /\ Working(t)
  /\ out' = Updated(flight[t].tiles, flight[t].isa)
  /\ flight' = [flight EXCEPT ![t] = Idling]
  /\ UNCHANGED <<detection, call, kernel, share>>

Joined == kernel \notin {NONE, "returned"} /\ \A t \in Threads : share[t] = {} /\ ~Working(t)

(* After the parallel loop the caller computes what is left and returns.   *)
Return ==
  /\ Joined
  /\ out' = IF call.op = "weight" /\ ~Empty(call)
            THEN Updated(Remainder(call, kernel), kernel) ELSE out
  /\ kernel' = "returned"
  /\ UNCHANGED <<detection, call, share, flight>>

(* A thread queries when its next step needs the answer.                   *)
NeedsIsa(t) ==
  \/ t = 0 /\ kernel = NONE /\ ~Encoded(call)
  \/ Encoded(call) /\ kernel # NONE /\ share[t] # {} /\ ~Working(t)

ProductNext ==
  \/ Enter \/ Return
  \/ \E t \in Threads :
       \/ Start(t) \/ Finish(t)
       \/ (NeedsIsa(t) /\ Detect(t) /\ UNCHANGED <<call, kernel, out, share, flight>>)

ProductSpec == ProductInit /\ [][ProductNext]_productVars

-----------------------------------------------------------------------------
(* Properties.                                                             *)

Touched(tiles) == UNION {{i * Cols(call) + j : i \in t.rows, j \in t.cols} : t \in tiles}

(* What the elements of a finished product hold.                           *)
Exact(c, element) ==
  CASE c.op \in {"forward", "quantized"} -> element = InnerTerms(0, c.k)
    [] c.op = "bf16" -> element = (IF c.k = 0 THEN Stale ELSE InnerTerms(0, c.k))
    [] c.op = "weight" -> element = Stale \o InnerTerms(0, c.m)
    [] c.op = "input" ->
         /\ Head(element) = {-1}
         /\ UNION {element[q] : q \in 2..Len(element)} = 0..(c.n - 1)
         /\ \A p, q \in 1..Len(element) : p # q => element[p] \cap element[q] = {}

(* Whatever kernel, tile, vector width and team a product gets, no two     *)
(* chunks in flight touch the same element, and at the end every element   *)
(* has every term exactly once, in increasing order where a forked result  *)
(* must equal the serial one bit for bit: no column of a tail is lost or   *)
(* added twice, and no vector reaches into the next row.                   *)
ProductIsExact ==
  /\ \A s, t \in Threads : (s # t /\ Working(s) /\ Working(t)) =>
       Touched(flight[s].tiles) \cap Touched(flight[t].tiles) = {}
  /\ kernel = "returned" => \A a \in DOMAIN out : Exact(call, out[a])

(* However the first queries of the threads interleave with the detection, *)
(* the code in flight never needs an instruction the processor lacks. The  *)
(* encoded products' 512-bit blocks also need byte and word instructions,  *)
(* which the detection does not ask for: processors with VL have them.     *)
ExecutableHere ==
  \A t \in Threads : Working(t) =>
    /\ Needs[flight[t].isa] \subseteq cpu
    /\ (Encoded(call) /\ flight[t].isa = "avx512") => "avx512bw" \in cpu
=============================================================================
