----------------------------- MODULE GpuWeights ------------------------------
(***************************************************************************)
(* The device side of matrix products (backends/gpu/gpu_matmul.c) and the  *)
(* dispatch that falls back to the CPU (core/matmul_dispatch.c). Device    *)
(* copies of weights are found by host address and size and trusted while  *)
(* their generation is the current one; the generation is advanced when    *)
(* weights are updated and when a model is created or freed, because a     *)
(* host address may come back as another model's.                          *)
(*                                                                         *)
(* Contents are abstracted to the number of the write that produced them,  *)
(* and a gradient to the number of contributions added to it, or Unknown   *)
(* when a copy into it stopped halfway.                                    *)
(***************************************************************************)
EXTENDS Integers, Sequences

CONSTANTS
  Layouts,      (* Models, each a set of weights [host, bytes].             *)
  Sizes,        (* Bytes of activations and gradients.                      *)
  MaxEntries,   (* WEIGHT_CACHE_MAX_ENTRIES                                 *)
  Reloads,      (* Whether model_load may be given a model already used.    *)
  MaxWrites,    (* Bound: writes of weights explored.                       *)
  MaxDue,       (* Bound: gradient contributions between two updates.       *)
  None

Weights == UNION Layouts

Addresses == {w.host : w \in Weights}

ASSUME GpuWeightsAssumption ==
  /\ \A w \in Weights : w = [host |-> w.host, bytes |-> w.bytes]
  /\ Sizes \subseteq Nat \ {0}
  /\ MaxEntries \in Nat
  /\ Reloads \in BOOLEAN

Unknown == -1   (* The contents of a buffer no copy has completed to.       *)

VARIABLES
  host,         (* Address -> the write its memory holds.                   *)
  writes,       (* Writes so far.                                           *)
  live,         (* The models that exist.                                   *)
  fresh,        (* Those of them no product has used yet.                   *)
  device,       (* untried, ready or unavailable: ensure_ready.             *)
  generation,   (* g_weight_generation                                      *)
  cache,        (* g_weight_cache, each entry with its buffer's contents.   *)
  scratch,      (* g_scratch_A_bytes, g_scratch_C_bytes, g_scratch_D_bytes. *)
  destination,  (* What the buffer behind g_scratch_D holds.                *)
  product,      (* The last product's weight and the contents it used.      *)
  gradient,     (* Contributions a gradient in host memory has received,    *)
  due,          (* History: those it should have, and whether a download    *)
  torn          (*   has failed over it since it was zeroed.                *)

hostVars == <<host, writes, live, fresh>>
deviceVars == <<device, cache, scratch, destination>>
gradientVars == <<gradient, due, torn>>
vars == <<hostVars, deviceVars, generation, product, gradientVars>>

NoScratch == [A |-> 0, C |-> 0, D |-> 0]

Init ==
  /\ host = [p \in Addresses |-> 0]
  /\ writes = 0
  /\ live = {}
  /\ fresh = {}
  /\ device = "untried"
  /\ generation = 1
  /\ cache = << >>
  /\ scratch = NoScratch
  /\ destination = Unknown
  /\ product = None
  /\ gradient = 0
  /\ due = 0
  /\ torn = FALSE

-----------------------------------------------------------------------------
(* Host memory.                                                            *)

HostsOf(l) == {w.host : w \in l}

(* gpu_matmul_invalidate_weights                                           *)
Invalidate == generation' = generation + 1

Write(l) ==
  /\ writes < MaxWrites
  /\ writes' = writes + 1
  /\ host' = [p \in Addresses |-> IF p \in HostsOf(l) THEN writes' ELSE host[p]]
  /\ product' = None

(* model_new: buffers malloc returns may be those of a model freed before. *)
NewModel(l) ==
  /\ \A m \in live : HostsOf(l) \cap HostsOf(m) = {}
  /\ Write(l)
  /\ live' = live \cup {l}
  /\ fresh' = fresh \cup {l}
  /\ Invalidate
  /\ UNCHANGED <<deviceVars, gradientVars>>

(* Loading a bundle, a checkpoint or a model file: the parameters are read *)
(* over those model_new initialized, and nothing is invalidated. Only      *)
(* model_load may be given a model that is in use.                         *)
ReadParameters(l) ==
  /\ l \in IF Reloads THEN live ELSE fresh
  /\ Write(l)
  /\ UNCHANGED <<live, fresh, deviceVars, generation, gradientVars>>

(* Mutant: an update leaves the device copies alone.                       *)
AfterUpdate_Kept == UNCHANGED generation

AfterUpdate == Invalidate

(* model_apply_accumulated_gradients: the optimizer changes every weight.  *)
(* It fails before it has changed any, and then nothing is invalidated.    *)
Update(l) ==
  /\ l \in live
  /\ Write(l)
  /\ fresh' = fresh \ {l}
  /\ AfterUpdate
  /\ UNCHANGED <<live, deviceVars, gradientVars>>

(* model_free                                                              *)
FreeModel(l) ==
  /\ l \in live
  /\ live' = live \ {l}
  /\ fresh' = fresh \ {l}
  /\ Invalidate
  /\ product' = None
  /\ UNCHANGED <<host, writes, deviceVars, gradientVars>>

(* model_zero_gradients                                                    *)
ZeroGradients ==
  /\ gradient' = 0
  /\ due' = 0
  /\ torn' = FALSE
  /\ UNCHANGED <<hostVars, deviceVars, generation, product>>

-----------------------------------------------------------------------------
(* The device. Any of its operations may fail at any time.                 *)

(* ensure_ready, for a product to be sent: one attempt, until a shutdown.  *)
Probed(sent) ==
  IF sent /\ device = "untried" THEN {"ready", "unavailable"} ELSE {device}

(* get_cached_weight_buffer: what it may leave in the cache, and the entry *)
(* it returns or 0. A copy that fails leaves an old entry stale, and a new *)
(* one is not kept. A full cache refuses.                                  *)
Entry(w) ==
  [host |-> w.host, bytes |-> w.bytes, generation |-> generation,
   contents |-> host[w.host]]

Matches(w) ==
  {i \in 1..Len(cache) : cache[i].host = w.host /\ cache[i].bytes = w.bytes}

(* Mutant: the buffer counts as current although the copy failed.          *)
FailedCopy_Stamped(i) ==
  [cache EXCEPT ![i].contents = Unknown, ![i].generation = generation]

FailedCopy(i) == [cache EXCEPT ![i].contents = Unknown]

Found(i, w) ==
  IF cache[i].generation = generation THEN {[cache |-> cache, entry |-> i]}
  ELSE {[cache |-> [cache EXCEPT ![i] = Entry(w)], entry |-> i],
        [cache |-> FailedCopy(i), entry |-> 0]}

HasRoom == Len(cache) < MaxEntries

Missing(w) ==
  {[cache |-> cache, entry |-> 0]} \cup
  IF HasRoom
  THEN {[cache |-> Append(cache, Entry(w)), entry |-> Len(cache) + 1]}
  ELSE {}

WeightBuffers(w) ==
  IF Matches(w) = {} THEN Missing(w)
  ELSE UNION {Found(i, w) : i \in Matches(w)}

(* get_scratch_buffer: the bytes it may have afterwards, 0 if it failed.   *)
Grown(bytes, needed) == IF bytes >= needed THEN {bytes} ELSE {0, needed}

-----------------------------------------------------------------------------
(* The products.                                                           *)

UseModelOf(w) ==
  /\ \E l \in live : w \in l
  /\ fresh' = {l \in fresh : w \notin l}

(* The CPU computes what the device did not.                               *)
Contents(w, buffer, done) ==
  IF done THEN buffer.cache[buffer.entry].contents ELSE host[w.host]

(* model_dispatch_matmul and gpu_matmul; a model may not use the device.   *)
Multiply(w) ==
  /\ UseModelOf(w)
  /\ \E sent \in BOOLEAN :
       /\ device' \in Probed(sent)
       /\ IF ~sent \/ device' # "ready"
          THEN /\ product' = [weight |-> w, contents |-> host[w.host]]
               /\ UNCHANGED <<cache, scratch>>
          ELSE \E buffer \in WeightBuffers(w), needed \in Sizes,
                  works \in BOOLEAN :
                 /\ cache' = buffer.cache
                 /\ IF buffer.entry = 0 THEN UNCHANGED scratch
                    ELSE \E a \in Grown(scratch.A, needed),
                            c \in Grown(scratch.C, needed) :
                           scratch' = [scratch EXCEPT !.A = a, !.C = c]
                 /\ product' =
                      [weight |-> w,
                       contents |-> Contents(w, buffer,
                         /\ buffer.entry # 0
                         /\ scratch'.A > 0 /\ scratch'.C > 0
                         /\ works)]
  /\ UNCHANGED <<host, writes, live, destination, generation, gradientVars>>

(* Mutant: the destination is not copied to the device first.              *)
SentUp_Skipped == destination

(* What the kernels add to.                                                *)
SentUp == gradient

Added(count) == IF count = Unknown THEN Unknown ELSE count + 1

(* The accumulating kernels: the destination goes up, is added to, and     *)
(* comes back over the gradient in host memory. If the device fails        *)
(* anywhere, the CPU adds the contribution. Before the download the        *)
(* gradient is as it was; a download that fails has overwritten none, some *)
(* or all of it, and the CPU adds to what it left.                         *)
AddContribution(attempted, works) ==
  /\ due < MaxDue
  /\ due' = due + 1
  /\ destination' \in IF attempted THEN {Unknown, SentUp, Added(SentUp)}
                      ELSE {destination}
  /\ works => attempted /\ destination' = Added(SentUp)
  /\ \E spoilt \in BOOLEAN :
       /\ spoilt => attempted /\ ~works
       /\ torn' = (torn \/ spoilt)
       /\ gradient' = IF works THEN destination'
                      ELSE IF spoilt THEN Unknown ELSE Added(gradient)

(* model_dispatch_backward_input and gpu_matmul_backward_input; those too  *)
(* small to be worth sending stay on the CPU as well.                      *)
BackwardInput(w) ==
  /\ UseModelOf(w)
  /\ \E sent \in BOOLEAN :
       /\ device' \in Probed(sent)
       /\ IF ~sent \/ device' # "ready"
          THEN /\ product' = [weight |-> w, contents |-> host[w.host]]
               /\ AddContribution(FALSE, FALSE)
               /\ UNCHANGED <<cache, scratch>>
          ELSE \E buffer \in WeightBuffers(w), needed \in Sizes,
                  works \in BOOLEAN :
                 /\ cache' = buffer.cache
                 /\ IF buffer.entry = 0 THEN UNCHANGED scratch
                    ELSE \E a \in Grown(scratch.A, needed),
                            d \in Grown(scratch.D, needed) :
                           scratch' = [scratch EXCEPT !.A = a, !.D = d]
                 /\ AddContribution(
                      buffer.entry # 0 /\ scratch'.A > 0 /\ scratch'.D > 0,
                      works)
                 /\ product' = [weight |-> w,
                                contents |-> Contents(w, buffer, works)]
  /\ UNCHANGED <<host, writes, live, generation>>

(* model_dispatch_backward_weight and gpu_matmul_backward_weight: both     *)
(* inputs are fresh every time and no weight is looked up.                 *)
BackwardWeight(l) ==
  /\ l \in live
  /\ \E sent \in BOOLEAN :
       /\ device' \in Probed(sent)
       /\ IF ~sent \/ device' # "ready"
          THEN AddContribution(FALSE, FALSE) /\ UNCHANGED scratch
          ELSE \E needed \in Sizes, works \in BOOLEAN :
                 /\ \E a \in Grown(scratch.A, needed),
                       c \in Grown(scratch.C, needed),
                       d \in Grown(scratch.D, needed) :
                      scratch' = [A |-> a, C |-> c, D |-> d]
                 /\ AddContribution(\A s \in {"A", "C", "D"} : scratch'[s] > 0,
                                    works)
  /\ fresh' = fresh \ {l}
  /\ UNCHANGED <<host, writes, live, cache, generation, product>>

(* gpu_matmul_shutdown                                                     *)
Shutdown ==
  /\ device' = "untried"
  /\ generation' = 1
  /\ cache' = << >>
  /\ scratch' = NoScratch
  /\ destination' = Unknown
  /\ UNCHANGED <<hostVars, product, gradientVars>>

Next ==
  \/ \E l \in Layouts : NewModel(l) \/ ReadParameters(l) \/ Update(l)
                          \/ FreeModel(l) \/ BackwardWeight(l)
  \/ \E w \in Weights : Multiply(w) \/ BackwardInput(w)
  \/ ZeroGradients
  \/ Shutdown

Spec == Init /\ [][Next]_vars
-----------------------------------------------------------------------------
(* Properties.                                                             *)

CacheEntry ==
  [host : Addresses, bytes : {w.bytes : w \in Weights}, generation : Nat,
   contents : Nat \cup {Unknown}]

(* The cache never has more entries than g_weight_cache has places.        *)
TypeOK ==
  /\ host \in [Addresses -> Nat]
  /\ writes \in Nat
  /\ live \subseteq Layouts
  /\ fresh \subseteq live
  /\ device \in {"untried", "ready", "unavailable"}
  /\ generation \in Nat
  /\ cache \in Seq(CacheEntry) /\ Len(cache) <= MaxEntries
  /\ scratch \in [{"A", "C", "D"} -> Sizes \cup {0}]
  /\ destination \in Nat \cup {Unknown}
  /\ product \in {None} \cup [weight : Weights, contents : Nat \cup {Unknown}]
  /\ gradient \in Nat \cup {Unknown}
  /\ due \in Nat /\ torn \in BOOLEAN

(* gpu_matmul.h: pre-update values used for ever are "a silent correctness *)
(* bug". Whatever was updated, freed and allocated again in between, and   *)
(* whatever failed on the device, a product uses the weights the host has. *)
ProductsUseCurrentWeights ==
  product # None => product.contents = host[product.weight.host]

(* A device copy that will be trusted holds what its host address holds,   *)
(* also after a copy that failed halfway.                                  *)
CurrentCopiesAgree ==
  \A i \in 1..Len(cache) :
    cache[i].generation = generation =>
      cache[i].contents = host[cache[i].host]

(* A backward product that fails on the device before its result comes     *)
(* back, and is computed by the CPU instead, adds its contribution once,   *)
(* and one the device computed adds to all those before it: whatever fails *)
(* in whatever order, only a download that failed over the gradient can    *)
(* spoil it.                                                               *)
GradientIsComplete == ~torn => gradient = due
=============================================================================
