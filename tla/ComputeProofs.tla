---------------------------- MODULE ComputeProofs ----------------------------
(***************************************************************************)
(* Proofs about the arithmetic of a model: the device copies of weights    *)
(* (GpuWeights), for any models, addresses and cache size, the products on *)
(* the CPU (MatmulKernels), for any call, kernel, tile, vector width, team *)
(* and processor, and the gradient of a training step (TrainingStep), for  *)
(* any architecture, window, mask and numbers.                             *)
(***************************************************************************)
EXTENDS GpuWeights, MatmulKernels, TrainingStep, Arithmetic, FiniteSetTheorems,
        SequenceTheorems

-----------------------------------------------------------------------------
(* The device copies of weights. That copies of the current generation     *)
(* agree with the host is not inductive: reading parameters over a new     *)
(* model's changes host memory without a new generation. It is safe        *)
(* because no product has used that model yet, so that no entry of this    *)
(* generation has one of its addresses, and because no entry is of a later *)
(* generation.                                                             *)

NotAhead ==
  \A i \in 1..Len(cache) : cache[i].generation <= generation

Apart ==
  \A l, m \in live : l # m => HostsOf(l) \cap HostsOf(m) = {}

FreshUncached ==
  \A l \in fresh : \A i \in 1..Len(cache) :
    cache[i].host \in HostsOf(l) => cache[i].generation # generation

IInv ==
  /\ TypeOK
  /\ CurrentCopiesAgree
  /\ NotAhead
  /\ Apart
  /\ FreshUncached
  /\ ProductsUseCurrentWeights
  /\ GradientIsComplete

-----------------------------------------------------------------------------
(* The cache.                                                              *)

LEMMA CachedEntry ==
  ASSUME TypeOK, NEW i \in 1..Len(cache)
  PROVE  /\ cache[i].host \in Addresses /\ cache[i].generation \in Nat
<1>1. cache \in Seq(CacheEntry)
  BY DEF TypeOK
<1>2. cache[i] \in CacheEntry
  BY <1>1
<1> QED BY <1>2 DEF CacheEntry

(* What get_cached_weight_buffer leaves behind, and returns.               *)
GoodBuffer(w, b) ==
  /\ b.cache \in Seq(CacheEntry) /\ Len(b.cache) <= MaxEntries
  /\ b.entry \in 0..Len(b.cache)
  /\ b.entry # 0 => b.cache[b.entry].contents = host[w.host]
  /\ \A i \in 1..Len(b.cache) :
       /\ b.cache[i].generation <= generation
       /\ b.cache[i].generation = generation =>
            /\ b.cache[i].contents = host[b.cache[i].host]
            /\ \/ b.cache[i].host = w.host
               \/ /\ i \in 1..Len(cache)
                  /\ cache[i].host = b.cache[i].host
                  /\ cache[i].generation = generation

LEMMA EntryType ==
  ASSUME TypeOK, NEW w \in Weights
  PROVE  /\ Entry(w) \in CacheEntry
         /\ Entry(w).host = w.host
         /\ Entry(w).generation = generation
         /\ Entry(w).contents = host[w.host]
<1>1. w.host \in Addresses /\ w.bytes \in {v.bytes : v \in Weights}
  BY DEF Addresses
<1>2. host[w.host] \in Nat /\ generation \in Nat
  BY <1>1 DEF TypeOK
<1> QED BY <1>1, <1>2 DEF Entry, CacheEntry

LEMMA CacheAsItIs ==
  ASSUME IInv, NEW w \in Weights, NEW i \in 0..Len(cache),
         i # 0 => /\ cache[i].generation = generation
                  /\ cache[i].host = w.host
  PROVE  GoodBuffer(w, [cache |-> cache, entry |-> i])
<1>1. cache \in Seq(CacheEntry) /\ Len(cache) <= MaxEntries
  BY DEF IInv, TypeOK
<1>2. \A j \in 1..Len(cache) :
        /\ cache[j].generation <= generation
        /\ cache[j].generation = generation =>
             cache[j].contents = host[cache[j].host]
  BY DEF IInv, NotAhead, CurrentCopiesAgree
<1>3. i # 0 => cache[i].contents = host[w.host]
  BY <1>2
<1> QED BY <1>1, <1>2, <1>3 DEF GoodBuffer

LEMMA WeightBuffersAreGood ==
  ASSUME IInv, NEW w \in Weights, NEW b \in WeightBuffers(w)
  PROVE  GoodBuffer(w, b)
<1>1. /\ cache \in Seq(CacheEntry) /\ Len(cache) \in Nat
      /\ Len(cache) <= MaxEntries /\ generation \in Nat
  BY DEF IInv, TypeOK
<1>2. \A j \in 1..Len(cache) :
        /\ cache[j].generation <= generation
        /\ cache[j].generation = generation =>
             cache[j].contents = host[cache[j].host]
  BY DEF IInv, NotAhead, CurrentCopiesAgree
<1>3. /\ Entry(w) \in CacheEntry
      /\ Entry(w).host = w.host
      /\ Entry(w).generation = generation
      /\ Entry(w).contents = host[w.host]
  BY EntryType DEF IInv
<1>4. CASE Matches(w) = {}
  <2>1. b \in Missing(w)
    BY <1>4 DEF WeightBuffers
  <2>2. CASE b = [cache |-> cache, entry |-> 0]
    BY <2>2, <1>1, CacheAsItIs
  <2>3. CASE HasRoom /\ b = [cache |-> Append(cache, Entry(w)),
                             entry |-> Len(cache) + 1]
    <3> DEFINE e == Entry(w)
               grown == Append(cache, e)
    <3>1. /\ b.cache = grown /\ b.entry = Len(cache) + 1
          /\ Len(cache) < MaxEntries
      BY <2>3 DEF HasRoom
    <3>2. e \in CacheEntry /\ e.host = w.host /\ e.generation = generation
          /\ e.contents = host[w.host]
      BY <1>3
    <3> HIDE DEF e
    <3>3. /\ grown \in Seq(CacheEntry) /\ Len(grown) = Len(cache) + 1
          /\ grown[Len(cache) + 1] = e
          /\ \A j \in 1..Len(cache) : grown[j] = cache[j]
      BY <1>1, <3>2
    <3> HIDE DEF grown
    <3>4. \A j \in 1..Len(grown) : j = Len(cache) + 1 \/ j \in 1..Len(cache)
      BY <3>3, <1>1
    <3>5. Len(grown) <= MaxEntries
      BY <3>1, <3>3, <1>1, GpuWeightsAssumption
    <3>6. b.entry \in 0..Len(b.cache) /\ b.cache[b.entry].contents = host[w.host]
      BY <3>1, <3>2, <3>3, <1>1
    <3>7. ASSUME NEW j \in 1..Len(grown)
          PROVE  /\ grown[j].generation <= generation
                 /\ grown[j].generation = generation =>
                      /\ grown[j].contents = host[grown[j].host]
                      /\ \/ grown[j].host = w.host
                         \/ /\ j \in 1..Len(cache)
                            /\ cache[j].host = grown[j].host
                            /\ cache[j].generation = generation
      BY <3>2, <3>3, <3>4, <1>1, <1>2
    <3> QED BY <3>1, <3>3, <3>5, <3>6, <3>7 DEF GoodBuffer
  <2> QED BY <2>1, <2>2, <2>3 DEF Missing
<1>5. CASE Matches(w) # {}
  <2>1. PICK i \in Matches(w) : b \in Found(i, w)
    BY <1>5 DEF WeightBuffers
  <2>2. i \in 1..Len(cache) /\ cache[i].host = w.host
    BY DEF Matches
  <2>3. CASE cache[i].generation = generation
    <3>1. b = [cache |-> cache, entry |-> i]
      BY <2>1, <2>3 DEF Found
    <3> QED BY <3>1, <2>2, <2>3, <1>1, CacheAsItIs
  <2>4. CASE /\ cache[i].generation # generation
             /\ b = [cache |-> [cache EXCEPT ![i] = Entry(w)], entry |-> i]
    <3> DEFINE e == Entry(w)
               updated == [cache EXCEPT ![i] = e]
    <3>1. b.cache = updated /\ b.entry = i
      BY <2>4
    <3>2. e \in CacheEntry /\ e.host = w.host /\ e.generation = generation
          /\ e.contents = host[w.host]
      BY <1>3
    <3> HIDE DEF e
    <3>3. /\ updated \in Seq(CacheEntry) /\ Len(updated) = Len(cache)
          /\ updated[i] = e
          /\ \A j \in 1..Len(cache) : j # i => updated[j] = cache[j]
      BY <1>1, <2>2, <3>2
    <3> HIDE DEF updated
    <3>4. ASSUME NEW j \in 1..Len(updated)
          PROVE  /\ updated[j].generation <= generation
                 /\ updated[j].generation = generation =>
                      /\ updated[j].contents = host[updated[j].host]
                      /\ \/ updated[j].host = w.host
                         \/ /\ j \in 1..Len(cache)
                            /\ cache[j].host = updated[j].host
                            /\ cache[j].generation = generation
      BY <3>2, <3>3, <1>1, <1>2
    <3> QED BY <3>1, <3>2, <3>3, <3>4, <1>1, <2>2 DEF GoodBuffer
  <2>5. CASE /\ cache[i].generation # generation
             /\ b = [cache |-> FailedCopy(i), entry |-> 0]
    <3> DEFINE e == [cache[i] EXCEPT !.contents = Unknown]
               updated == [cache EXCEPT ![i] = e]
    <3>1. b.cache = updated /\ b.entry = 0
      BY <2>5 DEF FailedCopy
    <3>2. cache[i] \in CacheEntry
      BY <1>1, <2>2
    <3>3. /\ e \in CacheEntry
          /\ e.host = cache[i].host /\ e.generation = cache[i].generation
      BY <3>2 DEF CacheEntry
    <3> HIDE DEF e
    <3>4. /\ updated \in Seq(CacheEntry) /\ Len(updated) = Len(cache)
          /\ updated[i] = e
          /\ \A j \in 1..Len(cache) : j # i => updated[j] = cache[j]
      BY <1>1, <2>2, <3>3
    <3> HIDE DEF updated
    <3>5. ASSUME NEW j \in 1..Len(updated)
          PROVE  /\ updated[j].generation <= generation
                 /\ updated[j].generation = generation =>
                      /\ updated[j].contents = host[updated[j].host]
                      /\ \/ updated[j].host = w.host
                         \/ /\ j \in 1..Len(cache)
                            /\ cache[j].host = updated[j].host
                            /\ cache[j].generation = generation
      BY <2>5, <3>3, <3>4, <1>1, <1>2
    <3> QED BY <3>1, <3>4, <3>5, <1>1 DEF GoodBuffer
  <2> QED BY <2>1, <2>3, <2>4, <2>5 DEF Found
<1> QED BY <1>4, <1>5

-----------------------------------------------------------------------------
(* Steps of the host.                                                      *)

LEMMA WriteFacts ==
  ASSUME TypeOK, NEW l \in Layouts, Write(l)
  PROVE  /\ host' \in [Addresses -> Nat] /\ writes' \in Nat
         /\ product' = None
         /\ \A a \in Addresses : a \notin HostsOf(l) => host'[a] = host[a]
<1>1. writes \in Nat /\ host \in [Addresses -> Nat]
  BY DEF TypeOK
<1>2. writes' = writes + 1
  BY DEF Write
<1> QED BY <1>1, <1>2 DEF Write

(* After an invalidation nothing in the cache is trusted.                  *)
LEMMA InvalidateFacts ==
  ASSUME IInv, UNCHANGED cache, Invalidate
  PROVE  /\ generation' \in Nat
         /\ \A i \in 1..Len(cache) : cache[i].generation # generation'
         /\ CurrentCopiesAgree' /\ NotAhead' /\ FreshUncached'
<1>1. generation \in Nat /\ generation' = generation + 1 /\ cache' = cache
  BY DEF IInv, TypeOK, Invalidate
<1>2. \A i \in 1..Len(cache) : /\ cache[i].generation \in Nat
                               /\ cache[i].generation <= generation
  BY CachedEntry DEF IInv, NotAhead
<1>3. \A i \in 1..Len(cache) : /\ cache[i].generation # generation'
                               /\ cache[i].generation <= generation'
  BY <1>1, <1>2
<1> QED BY <1>1, <1>3 DEF CurrentCopiesAgree, NotAhead, FreshUncached

LEMMA NewModelIInv ==
  ASSUME IInv, NEW l \in Layouts, NewModel(l)
  PROVE  IInv'
<1>1. /\ UNCHANGED <<deviceVars, gradientVars>> /\ UNCHANGED cache
      /\ Write(l) /\ Invalidate
      /\ live' = live \cup {l} /\ fresh' = fresh \cup {l}
  BY DEF NewModel, deviceVars
<1>2. /\ host' \in [Addresses -> Nat] /\ writes' \in Nat /\ product' = None
  BY <1>1, WriteFacts DEF IInv
<1>3. generation' \in Nat /\ CurrentCopiesAgree' /\ NotAhead' /\ FreshUncached'
  BY <1>1, InvalidateFacts
<1>4. TypeOK'
  BY <1>1, <1>2, <1>3 DEF IInv, TypeOK, deviceVars, gradientVars
<1>5. Apart'
  BY <1>1 DEF IInv, Apart, NewModel
<1>6. ProductsUseCurrentWeights' /\ GradientIsComplete'
  BY <1>1, <1>2 DEF IInv, ProductsUseCurrentWeights, GradientIsComplete,
     gradientVars
<1> QED BY <1>3, <1>4, <1>5, <1>6 DEF IInv

(* Nothing is invalidated, but no trusted entry has an address of l.       *)
LEMMA ReadParametersIInv ==
  ASSUME IInv, ~Reloads, NEW l \in Layouts, ReadParameters(l)
  PROVE  IInv'
<1>1. /\ UNCHANGED <<live, fresh, deviceVars, generation, gradientVars>>
      /\ cache' = cache /\ generation' = generation
      /\ Write(l) /\ l \in fresh
  BY DEF ReadParameters, deviceVars
<1>2. /\ host' \in [Addresses -> Nat] /\ writes' \in Nat /\ product' = None
      /\ \A a \in Addresses : a \notin HostsOf(l) => host'[a] = host[a]
  BY <1>1, WriteFacts DEF IInv
<1>3. TypeOK'
  BY <1>1, <1>2 DEF IInv, TypeOK, deviceVars, gradientVars
<1>4. CurrentCopiesAgree'
  <2> SUFFICES ASSUME NEW i \in 1..Len(cache), cache[i].generation = generation
               PROVE  cache[i].contents = host'[cache[i].host]
    BY <1>1 DEF CurrentCopiesAgree
  <2>1. cache[i].host \notin HostsOf(l)
    BY <1>1 DEF IInv, FreshUncached
  <2>2. cache[i].host \in Addresses
    BY CachedEntry DEF IInv
  <2>3. cache[i].contents = host[cache[i].host]
    BY DEF IInv, CurrentCopiesAgree
  <2> QED BY <1>2, <2>1, <2>2, <2>3
<1>5. NotAhead' /\ Apart' /\ FreshUncached'
  BY <1>1 DEF IInv, NotAhead, Apart, FreshUncached
<1>6. ProductsUseCurrentWeights' /\ GradientIsComplete'
  BY <1>1, <1>2 DEF IInv, ProductsUseCurrentWeights, GradientIsComplete,
     gradientVars
<1> QED BY <1>3, <1>4, <1>5, <1>6 DEF IInv

LEMMA UpdateIInv ==
  ASSUME IInv, NEW l \in Layouts, Update(l)
  PROVE  IInv'
<1>1. /\ UNCHANGED <<live, deviceVars, gradientVars>> /\ UNCHANGED cache
      /\ Write(l) /\ Invalidate /\ fresh' = fresh \ {l}
  BY DEF Update, AfterUpdate, deviceVars
<1>2. /\ host' \in [Addresses -> Nat] /\ writes' \in Nat /\ product' = None
  BY <1>1, WriteFacts DEF IInv
<1>3. generation' \in Nat /\ CurrentCopiesAgree' /\ NotAhead' /\ FreshUncached'
  BY <1>1, InvalidateFacts
<1>4. TypeOK'
  BY <1>1, <1>2, <1>3 DEF IInv, TypeOK, deviceVars, gradientVars
<1>5. Apart'
  BY <1>1 DEF IInv, Apart
<1>6. ProductsUseCurrentWeights' /\ GradientIsComplete'
  BY <1>1, <1>2 DEF IInv, ProductsUseCurrentWeights, GradientIsComplete,
     gradientVars
<1> QED BY <1>3, <1>4, <1>5, <1>6 DEF IInv

LEMMA FreeModelIInv ==
  ASSUME IInv, NEW l \in Layouts, FreeModel(l)
  PROVE  IInv'
<1>1. /\ UNCHANGED <<host, writes, deviceVars, gradientVars>>
      /\ UNCHANGED cache /\ Invalidate /\ product' = None
      /\ live' = live \ {l} /\ fresh' = fresh \ {l}
  BY DEF FreeModel, deviceVars
<1>2. generation' \in Nat /\ CurrentCopiesAgree' /\ NotAhead' /\ FreshUncached'
  BY <1>1, InvalidateFacts
<1>3. TypeOK'
  BY <1>1, <1>2 DEF IInv, TypeOK, deviceVars, gradientVars
<1>4. Apart'
  BY <1>1 DEF IInv, Apart
<1>5. ProductsUseCurrentWeights' /\ GradientIsComplete'
  BY <1>1 DEF IInv, ProductsUseCurrentWeights, GradientIsComplete, gradientVars
<1> QED BY <1>2, <1>3, <1>4, <1>5 DEF IInv

-----------------------------------------------------------------------------
(* Steps of the device.                                                    *)

LEMMA ProbedType ==
  ASSUME TypeOK, NEW sent
  PROVE  Probed(sent) \subseteq {"untried", "ready", "unavailable"}
BY DEF TypeOK, Probed

LEMMA GrownType ==
  ASSUME NEW bytes \in Sizes \cup {0}, NEW needed \in Sizes,
         NEW n \in Grown(bytes, needed)
  PROVE  n \in Sizes \cup {0}
BY DEF Grown

(* What a product with the weight w leaves of the cache keeps it sound:    *)
(* the only model whose addresses can be trusted now is no longer fresh.   *)
LEMMA UsedCache ==
  ASSUME IInv, NEW w \in Weights, UseModelOf(w),
         UNCHANGED <<host, live, generation>>,
         NEW b, GoodBuffer(w, b), cache' = b.cache
  PROVE  /\ cache' \in Seq(CacheEntry) /\ Len(cache') <= MaxEntries
         /\ CurrentCopiesAgree' /\ NotAhead' /\ FreshUncached'
<1>1. /\ cache' \in Seq(CacheEntry) /\ Len(cache') <= MaxEntries
      /\ \A i \in 1..Len(cache') :
           /\ cache'[i].generation <= generation
           /\ cache'[i].generation = generation =>
                /\ cache'[i].contents = host[cache'[i].host]
                /\ \/ cache'[i].host = w.host
                   \/ /\ i \in 1..Len(cache)
                      /\ cache[i].host = cache'[i].host
                      /\ cache[i].generation = generation
  BY DEF GoodBuffer
<1>2. CurrentCopiesAgree' /\ NotAhead'
  BY <1>1 DEF CurrentCopiesAgree, NotAhead
<1>3. FreshUncached'
  <2> SUFFICES ASSUME NEW l \in fresh', NEW i \in 1..Len(cache'),
                      cache'[i].host \in HostsOf(l),
                      cache'[i].generation = generation
               PROVE  FALSE
    BY DEF FreshUncached
  <2>1. l \in fresh /\ w \notin l /\ l \in live
    BY DEF UseModelOf, IInv, TypeOK
  <2>2. PICK m \in live : w \in m
    BY DEF UseModelOf
  <2>3. w.host \notin HostsOf(l)
    <3>1. w.host \in HostsOf(m) /\ m # l
      BY <2>1, <2>2 DEF HostsOf
    <3> QED BY <2>1, <2>2, <3>1 DEF IInv, Apart
  <2>4. /\ i \in 1..Len(cache) /\ cache[i].host \in HostsOf(l)
        /\ cache[i].generation = generation
    BY <1>1, <2>3
  <2> QED BY <2>1, <2>4 DEF IInv, FreshUncached
<1> QED BY <1>1, <1>2, <1>3

(* A product that used no device copy.                                     *)
LEMMA UsedNoCache ==
  ASSUME IInv, fresh' \subseteq fresh, UNCHANGED <<host, live, generation, cache>>
  PROVE  CurrentCopiesAgree' /\ NotAhead' /\ FreshUncached'
BY DEF IInv, CurrentCopiesAgree, NotAhead, FreshUncached

(* What a contribution leaves of a gradient's history.                     *)
GradientSound ==
  /\ gradient \in Nat \cup {Unknown} /\ due \in Nat /\ torn \in BOOLEAN
  /\ destination \in Nat \cup {Unknown}
  /\ GradientIsComplete

(* Whatever fails, one contribution is added to a gradient no download has *)
(* failed over.                                                            *)
LEMMA ContributionAdded ==
  ASSUME GradientSound, NEW attempted \in BOOLEAN, NEW works \in BOOLEAN,
         AddContribution(attempted, works)
  PROVE  GradientSound'
<1>2. due \in Nat /\ due' = due + 1
  BY DEF AddContribution, GradientSound
<1>3. Added(gradient) \in Nat \cup {Unknown}
  BY DEF Added, GradientSound
<1>4. ~torn => Added(gradient) = due'
  BY <1>2 DEF Added, Unknown, GradientSound, GradientIsComplete
<1>5. destination' \in Nat \cup {Unknown}
  BY <1>3 DEF AddContribution, SentUp, GradientSound
<1>6. PICK spoilt \in BOOLEAN :
        /\ torn' = (torn \/ spoilt)
        /\ gradient' = IF works THEN Added(gradient)
                       ELSE IF spoilt THEN Unknown ELSE Added(gradient)
        /\ spoilt => ~works
  BY DEF AddContribution, SentUp
<1>7. torn' \in BOOLEAN
  BY <1>6 DEF GradientSound
<1>8. gradient' \in Nat \cup {Unknown}
  BY <1>3, <1>6
<1>9. ~torn' => gradient' = due'
  BY <1>4, <1>6
<1> QED BY <1>2, <1>5, <1>7, <1>8, <1>9 DEF GradientSound, GradientIsComplete

LEMMA MultiplyIInv ==
  ASSUME IInv, NEW w \in Weights, Multiply(w)
  PROVE  IInv'
<1>1. /\ UNCHANGED <<host, writes, live, destination, generation, gradientVars>>
      /\ UseModelOf(w) /\ \E sent \in BOOLEAN : device' \in Probed(sent)
  BY DEF Multiply
<1>2. /\ fresh' \subseteq fresh /\ fresh' \subseteq live'
      /\ device' \in {"untried", "ready", "unavailable"}
      /\ host[w.host] \in Nat
  BY <1>1, ProbedType DEF IInv, TypeOK, UseModelOf, Addresses
<1>3. Apart' /\ GradientIsComplete'
  BY <1>1 DEF IInv, Apart, GradientIsComplete, gradientVars
<1>4. ASSUME cache' \in Seq(CacheEntry), Len(cache') <= MaxEntries,
             scratch' \in [{"A", "C", "D"} -> Sizes \cup {0}],
             product' = [weight |-> w, contents |-> host[w.host]]
      PROVE  TypeOK' /\ ProductsUseCurrentWeights'
  <2>1. product' \in [weight : Weights, contents : Nat \cup {Unknown}]
    BY <1>2, <1>4
  <2>2. product'.contents = host[product'.weight.host]
    BY <1>4
  <2>3. TypeOK'
    BY <1>1, <1>2, <1>4, <2>1 DEF IInv, TypeOK, gradientVars
  <2> QED BY <1>1, <2>2, <2>3 DEF ProductsUseCurrentWeights
<1>5. CASE /\ product' = [weight |-> w, contents |-> host[w.host]]
           /\ UNCHANGED <<cache, scratch>>
  <2>1. /\ product' = [weight |-> w, contents |-> host[w.host]]
        /\ cache' = cache /\ scratch' = scratch
    BY <1>5
  <2>2. TypeOK' /\ ProductsUseCurrentWeights'
    BY <1>4, <2>1 DEF IInv, TypeOK
  <2>3. CurrentCopiesAgree' /\ NotAhead' /\ FreshUncached'
    BY <1>1, <1>2, <2>1, UsedNoCache
  <2> QED BY <1>3, <2>2, <2>3 DEF IInv
<1>6. CASE \E b \in WeightBuffers(w), needed \in Sizes, works \in BOOLEAN :
          /\ cache' = b.cache
          /\ IF b.entry = 0 THEN UNCHANGED scratch
             ELSE \E a \in Grown(scratch.A, needed), c \in Grown(scratch.C, needed) :
                    scratch' = [scratch EXCEPT !.A = a, !.C = c]
          /\ product' =
               [weight |-> w,
                contents |-> Contents(w, b, b.entry # 0 /\ scratch'.A > 0
                                              /\ scratch'.C > 0 /\ works)]
  <2>1. PICK b \in WeightBuffers(w), needed \in Sizes, works \in BOOLEAN :
          /\ cache' = b.cache
          /\ IF b.entry = 0 THEN UNCHANGED scratch
             ELSE \E a \in Grown(scratch.A, needed), c \in Grown(scratch.C, needed) :
                    scratch' = [scratch EXCEPT !.A = a, !.C = c]
          /\ product' =
               [weight |-> w,
                contents |-> Contents(w, b, b.entry # 0 /\ scratch'.A > 0
                                              /\ scratch'.C > 0 /\ works)]
    BY <1>6
  <2>2. GoodBuffer(w, b)
    BY WeightBuffersAreGood
  <2>3. /\ cache' \in Seq(CacheEntry) /\ Len(cache') <= MaxEntries
        /\ CurrentCopiesAgree' /\ NotAhead' /\ FreshUncached'
    BY <1>1, <2>1, <2>2, UsedCache
  <2>4. scratch' \in [{"A", "C", "D"} -> Sizes \cup {0}]
    <3>1. scratch \in [{"A", "C", "D"} -> Sizes \cup {0}]
      BY DEF IInv, TypeOK
    <3>2. scratch["A"] \in Sizes \cup {0} /\ scratch["C"] \in Sizes \cup {0}
      BY <3>1
    <3> QED BY <2>1, <3>1, <3>2, GrownType
  <2>5. product' = [weight |-> w, contents |-> host[w.host]]
    BY <2>1, <2>2 DEF Contents, GoodBuffer
  <2>6. TypeOK' /\ ProductsUseCurrentWeights'
    BY <1>4, <2>3, <2>4, <2>5
  <2> QED BY <1>3, <2>3, <2>6 DEF IInv
<1> QED BY <1>5, <1>6 DEF Multiply

LEMMA BackwardInputIInv ==
  ASSUME IInv, NEW w \in Weights, BackwardInput(w)
  PROVE  IInv'
<1>1. /\ UNCHANGED <<host, writes, live, generation>> /\ UseModelOf(w)
      /\ \E sent \in BOOLEAN : device' \in Probed(sent)
  BY DEF BackwardInput
<1>2. /\ fresh' \subseteq fresh /\ fresh' \subseteq live'
      /\ device' \in {"untried", "ready", "unavailable"}
      /\ host[w.host] \in Nat
  BY <1>1, ProbedType DEF IInv, TypeOK, UseModelOf, Addresses
<1>3. Apart'
  BY <1>1 DEF IInv, Apart
<1>4. ASSUME cache' \in Seq(CacheEntry), Len(cache') <= MaxEntries,
             scratch' \in [{"A", "C", "D"} -> Sizes \cup {0}],
             product' = [weight |-> w, contents |-> host[w.host]],
             NEW attempted \in BOOLEAN, NEW works \in BOOLEAN,
             AddContribution(attempted, works)
      PROVE  TypeOK' /\ ProductsUseCurrentWeights' /\ GradientIsComplete'
  <2>1. product' \in [weight : Weights, contents : Nat \cup {Unknown}]
    BY <1>2, <1>4
  <2>2. product'.contents = host[product'.weight.host]
    BY <1>4
  <2>3. GradientSound'
    BY <1>4, ContributionAdded DEF IInv, TypeOK, GradientSound
  <2>4. TypeOK'
    BY <1>1, <1>2, <1>4, <2>1, <2>3 DEF IInv, TypeOK, GradientSound
  <2> QED BY <1>1, <2>2, <2>3, <2>4 DEF ProductsUseCurrentWeights, GradientSound
<1>5. CASE /\ product' = [weight |-> w, contents |-> host[w.host]]
           /\ AddContribution(FALSE, FALSE)
           /\ UNCHANGED <<cache, scratch>>
  <2>1. /\ cache' \in Seq(CacheEntry) /\ Len(cache') <= MaxEntries
        /\ scratch' \in [{"A", "C", "D"} -> Sizes \cup {0}]
    BY <1>5 DEF IInv, TypeOK
  <2>2. TypeOK' /\ ProductsUseCurrentWeights' /\ GradientIsComplete'
    BY <1>4, <1>5, <2>1
  <2>3. CurrentCopiesAgree' /\ NotAhead' /\ FreshUncached'
    BY <1>1, <1>2, <1>5, UsedNoCache
  <2> QED BY <1>3, <2>2, <2>3 DEF IInv
<1>6. CASE \E b \in WeightBuffers(w), needed \in Sizes, works \in BOOLEAN :
             /\ cache' = b.cache
             /\ IF b.entry = 0 THEN UNCHANGED scratch
                ELSE \E a \in Grown(scratch.A, needed), d \in Grown(scratch.D, needed) :
                       scratch' = [scratch EXCEPT !.A = a, !.D = d]
             /\ AddContribution(
                  b.entry # 0 /\ scratch'.A > 0 /\ scratch'.D > 0, works)
             /\ product' = [weight |-> w, contents |-> Contents(w, b, works)]
  <2>1. PICK b \in WeightBuffers(w), needed \in Sizes, works \in BOOLEAN :
          /\ cache' = b.cache
          /\ IF b.entry = 0 THEN UNCHANGED scratch
             ELSE \E a \in Grown(scratch.A, needed), d \in Grown(scratch.D, needed) :
                    scratch' = [scratch EXCEPT !.A = a, !.D = d]
          /\ AddContribution(
               b.entry # 0 /\ scratch'.A > 0 /\ scratch'.D > 0, works)
          /\ product' = [weight |-> w, contents |-> Contents(w, b, works)]
    BY <1>6
  <2>2. GoodBuffer(w, b)
    BY WeightBuffersAreGood
  <2>3. /\ cache' \in Seq(CacheEntry) /\ Len(cache') <= MaxEntries
        /\ CurrentCopiesAgree' /\ NotAhead' /\ FreshUncached'
    BY <1>1, <2>1, <2>2, UsedCache
  <2>4. scratch' \in [{"A", "C", "D"} -> Sizes \cup {0}]
    <3>1. scratch \in [{"A", "C", "D"} -> Sizes \cup {0}]
      BY DEF IInv, TypeOK
    <3>2. scratch["A"] \in Sizes \cup {0} /\ scratch["D"] \in Sizes \cup {0}
      BY <3>1
    <3> QED BY <2>1, <3>1, <3>2, GrownType
  <2>5. works => b.entry # 0
    BY <2>1 DEF AddContribution
  <2>6. product' = [weight |-> w, contents |-> host[w.host]]
    BY <2>1, <2>2, <2>5 DEF Contents, GoodBuffer
  <2>7. (b.entry # 0 /\ scratch'.A > 0 /\ scratch'.D > 0) \in BOOLEAN
    OBVIOUS
  <2>8. TypeOK' /\ ProductsUseCurrentWeights' /\ GradientIsComplete'
    BY <1>4, <2>1, <2>3, <2>4, <2>6, <2>7
  <2> QED BY <1>3, <2>3, <2>8 DEF IInv
<1> QED BY <1>5, <1>6 DEF BackwardInput

LEMMA BackwardWeightIInv ==
  ASSUME IInv, NEW l \in Layouts, BackwardWeight(l)
  PROVE  IInv'
<1>1. /\ UNCHANGED <<host, writes, live, cache, generation, product>>
      /\ fresh' = fresh \ {l} /\ \E sent \in BOOLEAN : device' \in Probed(sent)
  BY DEF BackwardWeight
<1>2. device' \in {"untried", "ready", "unavailable"} /\ fresh' \subseteq live'
  BY <1>1, ProbedType DEF IInv, TypeOK
<1>3. PICK attempted \in BOOLEAN, works \in BOOLEAN :
        AddContribution(attempted, works)
  <2>1. \A x : (\A s \in {"A", "C", "D"} : x[s] > 0) \in BOOLEAN
    OBVIOUS
  <2> QED BY <2>1 DEF BackwardWeight
<1>4. scratch' \in [{"A", "C", "D"} -> Sizes \cup {0}]
  <2>1. /\ scratch \in [{"A", "C", "D"} -> Sizes \cup {0}]
        /\ scratch["A"] \in Sizes \cup {0}
        /\ scratch["C"] \in Sizes \cup {0}
        /\ scratch["D"] \in Sizes \cup {0}
    BY DEF IInv, TypeOK
  <2>2. CASE UNCHANGED scratch
    BY <2>1, <2>2
  <2>3. CASE \E needed \in Sizes :
               \E a \in Grown(scratch.A, needed), c \in Grown(scratch.C, needed),
                  d \in Grown(scratch.D, needed) :
                 scratch' = [A |-> a, C |-> c, D |-> d]
    <3>1. PICK needed \in Sizes :
            \E a \in Grown(scratch.A, needed), c \in Grown(scratch.C, needed),
               d \in Grown(scratch.D, needed) :
              scratch' = [A |-> a, C |-> c, D |-> d]
      BY <2>3
    <3>2. PICK a \in Grown(scratch.A, needed), c \in Grown(scratch.C, needed),
               d \in Grown(scratch.D, needed) :
            scratch' = [A |-> a, C |-> c, D |-> d]
      BY <3>1
    <3>3. a \in Sizes \cup {0} /\ c \in Sizes \cup {0} /\ d \in Sizes \cup {0}
      BY <2>1, <3>2, GrownType
    <3> QED BY <3>2, <3>3
  <2>4. \/ UNCHANGED scratch
        \/ \E needed \in Sizes :
             \E a \in Grown(scratch.A, needed), c \in Grown(scratch.C, needed),
                d \in Grown(scratch.D, needed) :
               scratch' = [A |-> a, C |-> c, D |-> d]
    BY Zenon DEF BackwardWeight
  <2> QED BY <2>2, <2>3, <2>4
<1>5. GradientSound'
  BY <1>3, ContributionAdded DEF IInv, TypeOK, GradientSound
<1>6. TypeOK'
  BY <1>1, <1>2, <1>4, <1>5 DEF IInv, TypeOK, GradientSound
<1>7. CurrentCopiesAgree' /\ NotAhead' /\ FreshUncached'
  BY <1>1, UsedNoCache
<1>8. Apart' /\ ProductsUseCurrentWeights'
  BY <1>1 DEF IInv, Apart, ProductsUseCurrentWeights
<1> QED BY <1>5, <1>6, <1>7, <1>8 DEF IInv, GradientSound

LEMMA ShutdownIInv ==
  ASSUME IInv, Shutdown
  PROVE  IInv'
<1>1. /\ device' = "untried" /\ generation' = 1 /\ cache' = << >>
      /\ scratch' = NoScratch /\ destination' = Unknown
      /\ UNCHANGED <<host, writes, live, fresh, product, gradient, due, torn>>
  BY DEF Shutdown, hostVars, gradientVars
<1>2. /\ cache' \in Seq(CacheEntry) /\ Len(cache') = 0 /\ Len(cache') <= MaxEntries
      /\ scratch' \in [{"A", "C", "D"} -> Sizes \cup {0}]
  BY <1>1, GpuWeightsAssumption DEF NoScratch
<1>3. TypeOK'
  BY <1>1, <1>2 DEF IInv, TypeOK
<1>4. CurrentCopiesAgree' /\ NotAhead' /\ FreshUncached'
  BY <1>2 DEF CurrentCopiesAgree, NotAhead, FreshUncached
<1>5. Apart' /\ ProductsUseCurrentWeights' /\ GradientIsComplete'
  BY <1>1 DEF IInv, Apart, ProductsUseCurrentWeights, GradientIsComplete
<1> QED BY <1>3, <1>4, <1>5 DEF IInv

LEMMA ZeroGradientsIInv ==
  ASSUME IInv, ZeroGradients
  PROVE  IInv'
BY DEF IInv, ZeroGradients, TypeOK, CurrentCopiesAgree, NotAhead, Apart,
   FreshUncached, ProductsUseCurrentWeights, GradientIsComplete, hostVars,
   deviceVars

LEMMA StutterIInv ==
  ASSUME IInv, UNCHANGED vars
  PROVE  IInv'
BY DEF IInv, vars, TypeOK, CurrentCopiesAgree, NotAhead, Apart,
   FreshUncached, ProductsUseCurrentWeights, GradientIsComplete, hostVars,
   deviceVars, gradientVars

LEMMA InitIInv == Init => IInv
<1> SUFFICES ASSUME Init PROVE IInv
  OBVIOUS
<1>1. cache \in Seq(CacheEntry) /\ Len(cache) = 0 /\ Len(cache) <= MaxEntries
  BY GpuWeightsAssumption DEF Init
<1>2. scratch \in [{"A", "C", "D"} -> Sizes \cup {0}]
  BY DEF Init, NoScratch
<1>3. TypeOK
  BY <1>1, <1>2 DEF Init, TypeOK
<1>4. CurrentCopiesAgree /\ NotAhead /\ FreshUncached
  BY <1>1 DEF CurrentCopiesAgree, NotAhead, FreshUncached
<1>5. Apart /\ ProductsUseCurrentWeights /\ GradientIsComplete
  BY DEF Init, Apart, ProductsUseCurrentWeights, GradientIsComplete
<1> QED BY <1>3, <1>4, <1>5 DEF IInv

-----------------------------------------------------------------------------
(* The invariant holds of every behaviour in which no model in use is      *)
(* loaded over.                                                            *)
THEOREM Invariance ==
  ASSUME ~Reloads
  PROVE  Spec => []IInv
<1>1. IInv /\ [Next]_vars => IInv'
  BY NewModelIInv, ReadParametersIInv, UpdateIInv, FreeModelIInv,
     ZeroGradientsIInv, MultiplyIInv, BackwardInputIInv, BackwardWeightIInv,
     ShutdownIInv, StutterIInv DEF Next
<1> QED BY InitIInv, <1>1, PTL DEF Spec

(* gpu_matmul.c: a product is computed from the weights the host has now,  *)
(* whichever models were created, updated and freed before and whatever    *)
(* failed on the device.                                                   *)
THEOREM WeightsAreCurrent ==
  ASSUME ~Reloads
  PROVE  Spec => []ProductsUseCurrentWeights
<1>1. IInv => ProductsUseCurrentWeights
  BY DEF IInv
<1> QED BY Invariance, <1>1, PTL

(* A device copy that would be trusted equals its host's, also after       *)
(* failed copies and between a model's creation and its loading.           *)
THEOREM CopiesAgree ==
  ASSUME ~Reloads
  PROVE  Spec => []CurrentCopiesAgree
<1>1. IInv => CurrentCopiesAgree
  BY DEF IInv
<1> QED BY Invariance, <1>1, PTL

(* The dispatch's fallback neither loses nor repeats a contribution, as    *)
(* long as no download has failed over the gradient since it was zeroed.   *)
THEOREM NoContributionLost == Spec => []GradientIsComplete
<1>1. Init => GradientSound
  <2> SUFFICES ASSUME Init PROVE GradientSound
    OBVIOUS
  <2>1. gradient = 0 /\ due = 0 /\ torn = FALSE /\ destination = Unknown
    BY DEF Init
  <2>2. torn \in BOOLEAN
    BY <2>1
  <2> QED BY <2>1, <2>2 DEF GradientSound, GradientIsComplete
<1>2. ASSUME GradientSound, [Next]_vars
      PROVE  GradientSound'
  <2> USE DEF gradientVars, deviceVars
  <2>1. CASE UNCHANGED <<destination, gradient, due, torn>>
    BY <1>2, <2>1 DEF GradientSound, GradientIsComplete
  <2>2. CASE \E l \in Layouts : \/ NewModel(l) \/ ReadParameters(l) \/ Update(l)
                               \/ FreeModel(l)
    BY <2>1, <2>2 DEF NewModel, ReadParameters, Update, FreeModel
  <2>3. CASE \E w \in Weights : Multiply(w)
    BY <2>1, <2>3 DEF Multiply
  <2>4. CASE ZeroGradients
    BY <1>2, <2>4 DEF ZeroGradients, GradientSound, GradientIsComplete
  <2>5. CASE Shutdown
    BY <1>2, <2>5 DEF Shutdown, GradientSound, GradientIsComplete
  <2>6. ASSUME NEW w \in Weights, BackwardInput(w)
        PROVE  GradientSound'
    <3>1. PICK attempted \in BOOLEAN, works \in BOOLEAN :
            AddContribution(attempted, works)
      <4>1. \A x : (x.entry # 0 /\ scratch'.A > 0 /\ scratch'.D > 0) \in BOOLEAN
        OBVIOUS
      <4> QED BY <2>6, <4>1 DEF BackwardInput
    <3> QED BY <1>2, <3>1, ContributionAdded
  <2>7. ASSUME NEW l \in Layouts, BackwardWeight(l)
        PROVE  GradientSound'
    <3>1. PICK attempted \in BOOLEAN, works \in BOOLEAN :
            AddContribution(attempted, works)
      <4>1. \A x : (\A s \in {"A", "C", "D"} : x[s] > 0) \in BOOLEAN
        OBVIOUS
      <4> QED BY <2>7, <4>1 DEF BackwardWeight
    <3> QED BY <1>2, <3>1, ContributionAdded
  <2>8. CASE UNCHANGED vars
    BY <2>1, <2>8 DEF vars
  <2> QED BY <1>2, <2>2, <2>3, <2>4, <2>5, <2>6, <2>7, <2>8 DEF Next
<1>3. GradientSound => GradientIsComplete
  BY DEF GradientSound
<1> QED BY <1>1, <1>2, <1>3, PTL DEF Spec

(* Every variable keeps its type, and the cache its size.                  *)
THEOREM TypeCorrect ==
  ASSUME ~Reloads
  PROVE  Spec => []TypeOK
<1>1. IInv => TypeOK
  BY DEF IInv
<1> QED BY Invariance, <1>1, PTL

-----------------------------------------------------------------------------
(* The products on the CPU. A set of parts partitions a range of rows or   *)
(* columns, the rectangles of two partitions tile a region, and the blocks *)
(* of every kernel are such tilings.                                       *)

(* Every element of S is in exactly one part, and the parts are in S.      *)
Partitions(parts, S) ==
  /\ \A p \in parts : p \subseteq S
  /\ \A x \in S : \E p \in parts : x \in p /\ \A q \in parts : x \in q => q = p

(* Every place of R \X C is in exactly one tile, and the tiles are in it.  *)
Tiles(tiles, R, C) ==
  /\ \A t \in tiles : t.rows \subseteq R /\ t.cols \subseteq C
  /\ \A i \in R, j \in C :
       \E t \in tiles : /\ i \in t.rows /\ j \in t.cols
                        /\ \A u \in tiles : (i \in u.rows /\ j \in u.cols) => u = t

LEMMA PartitionUnion ==
  ASSUME NEW P, NEW Q, NEW A, NEW B, Partitions(P, A), Partitions(Q, B), A \cap B = {}
  PROVE  Partitions(P \cup Q, A \cup B)
<1>1. \A p \in P \cup Q : p \subseteq A \cup B
  BY DEF Partitions
<1>2. ASSUME NEW x \in A
      PROVE  \E p \in P \cup Q : x \in p /\ \A q \in P \cup Q : x \in q => q = p
  <2>1. PICK p \in P : x \in p /\ \A q \in P : x \in q => q = p
    BY DEF Partitions
  <2>2. \A q \in Q : x \notin q
    BY DEF Partitions
  <2> QED BY <2>1, <2>2
<1>3. ASSUME NEW x \in B
      PROVE  \E p \in P \cup Q : x \in p /\ \A q \in P \cup Q : x \in q => q = p
  <2>1. PICK p \in Q : x \in p /\ \A q \in Q : x \in q => q = p
    BY DEF Partitions
  <2>2. \A q \in P : x \notin q
    BY DEF Partitions
  <2> QED BY <2>1, <2>2
<1> QED BY <1>1, <1>2, <1>3 DEF Partitions

LEMMA PartitionWhole ==
  ASSUME NEW S
  PROVE  Partitions({S}, S)
  BY DEF Partitions

LEMMA PartitionSingles ==
  ASSUME NEW lo \in Int, NEW hi \in Int
  PROVE  Partitions(EachRow(lo, hi), lo..(hi - 1))
<1> DEFINE parts == {{i} : i \in lo..(hi - 1)}
<1>1. \A p \in parts : p \subseteq lo..(hi - 1)
  OBVIOUS
<1>2. ASSUME NEW x \in lo..(hi - 1)
      PROVE  \E p \in parts : x \in p /\ \A q \in parts : x \in q => q = p
  <2>1. {x} \in parts /\ x \in {x}
    OBVIOUS
  <2>2. \A q \in parts : x \in q => q = {x}
    OBVIOUS
  <2> QED BY <2>1, <2>2
<1> QED BY <1>1, <1>2 DEF Partitions, EachRow

LEMMA TileFields ==
  ASSUME NEW r, NEW c
  PROVE  [rows |-> r, cols |-> c].rows = r /\ [rows |-> r, cols |-> c].cols = c
  OBVIOUS

LEMMA TilesOfParts ==
  ASSUME NEW P, NEW Q, NEW R, NEW C, Partitions(P, R), Partitions(Q, C)
  PROVE  Tiles(Rectangles(P, Q), R, C)
<1>1. \A t \in Rectangles(P, Q) :
         /\ t.rows \in P /\ t.cols \in Q
         /\ t = [rows |-> t.rows, cols |-> t.cols]
  <2> SUFFICES ASSUME NEW t \in Rectangles(P, Q)
               PROVE  /\ t.rows \in P /\ t.cols \in Q
                      /\ t = [rows |-> t.rows, cols |-> t.cols]
    OBVIOUS
  <2>1. PICK r \in P, c \in Q : t = [rows |-> r, cols |-> c]
    BY DEF Rectangles
  <2>2. t.rows = r /\ t.cols = c
    BY ONLY <2>1, TileFields
  <2> QED BY <2>1, <2>2
<1>2. \A p \in P, q \in Q : [rows |-> p, cols |-> q] \in Rectangles(P, Q)
  BY DEF Rectangles
<1>3. \A t \in Rectangles(P, Q) : t.rows \subseteq R /\ t.cols \subseteq C
  BY <1>1 DEF Partitions
<1>4. ASSUME NEW i \in R, NEW j \in C
      PROVE  \E t \in Rectangles(P, Q) :
               /\ i \in t.rows /\ j \in t.cols
               /\ \A u \in Rectangles(P, Q) : (i \in u.rows /\ j \in u.cols) => u = t
  <2>1. PICK p \in P : i \in p /\ \A q \in P : i \in q => q = p
    BY DEF Partitions
  <2>2. PICK q \in Q : j \in q /\ \A o \in Q : j \in o => o = q
    BY DEF Partitions
  <2> DEFINE t == [rows |-> p, cols |-> q]
  <2>3. t \in Rectangles(P, Q) /\ t.rows = p /\ t.cols = q
    BY <1>2, TileFields
  <2>4. ASSUME NEW u \in Rectangles(P, Q), i \in u.rows, j \in u.cols
        PROVE  u = t
    <3>1. u.rows = p /\ u.cols = q
      BY <1>1, <2>1, <2>2, <2>4
    <3>2. u = [rows |-> u.rows, cols |-> u.cols]
      BY <1>1
    <3> QED BY <3>1, <3>2
  <2> HIDE DEF t
  <2> QED BY <2>1, <2>2, <2>3, <2>4
<1> QED BY <1>3, <1>4 DEF Tiles

LEMMA TilesUnion ==
  ASSUME NEW T, NEW U, NEW R, NEW S, NEW C, Tiles(T, R, C), Tiles(U, S, C), R \cap S = {}
  PROVE  Tiles(T \cup U, R \cup S, C)
<1>1. \A t \in T \cup U : t.rows \subseteq R \cup S /\ t.cols \subseteq C
  BY DEF Tiles
<1>2. ASSUME NEW i \in R, NEW j \in C
      PROVE  \E t \in T \cup U : /\ i \in t.rows /\ j \in t.cols
                /\ \A u \in T \cup U : (i \in u.rows /\ j \in u.cols) => u = t
  <2>1. PICK t \in T : /\ i \in t.rows /\ j \in t.cols
                       /\ \A u \in T : (i \in u.rows /\ j \in u.cols) => u = t
    BY DEF Tiles
  <2>2. \A u \in U : i \notin u.rows
    BY DEF Tiles
  <2> QED BY <2>1, <2>2
<1>3. ASSUME NEW i \in S, NEW j \in C
      PROVE  \E t \in T \cup U : /\ i \in t.rows /\ j \in t.cols
                /\ \A u \in T \cup U : (i \in u.rows /\ j \in u.cols) => u = t
  <2>1. PICK t \in U : /\ i \in t.rows /\ j \in t.cols
                       /\ \A u \in U : (i \in u.rows /\ j \in u.cols) => u = t
    BY DEF Tiles
  <2>2. \A u \in T : i \notin u.rows
    BY DEF Tiles
  <2> QED BY <2>1, <2>2
<1> QED BY <1>1, <1>2, <1>3 DEF Tiles

(* Products with the quotient.                                             *)
LEMMA StripOrder ==
  ASSUME NEW w \in Nat \ {0}, NEW a \in Nat, NEW b \in Nat, a < b
  PROVE  w * a + w <= w * b
<1>1. PICK d \in Nat : b = a + 1 + d
  <2>1. b - a - 1 \in Nat /\ b = a + 1 + (b - a - 1)
    OBVIOUS
  <2> QED BY <2>1
<1>2. w * (a + 1 + d) = w * a + w + w * d /\ w * d \in Nat /\ w * a \in Nat
  BY SMT
<1> QED BY <1>1, <1>2

LEMMA PartitionVectors ==
  ASSUME NEW lo \in Nat, NEW hi \in Nat, lo <= hi, NEW w \in Nat \ {0}
  PROVE  /\ RestFrom(lo, hi, w) \in lo..hi
         /\ hi - RestFrom(lo, hi, w) < w
         /\ Partitions(Vectors(lo, hi, w), lo..(RestFrom(lo, hi, w) - 1))
<1> DEFINE full == (hi - lo) \div w
           rest == lo + w * full
<1>1. hi - lo \in Nat
  OBVIOUS
<1>2. full \in Nat /\ hi - lo = w * full + ((hi - lo) % w) /\ (hi - lo) % w \in 0..(w - 1)
  BY <1>1, DivMod
<1>3. PICK f \in Nat : f = full
  BY <1>2
<1>4. w * f \in Nat /\ rest = lo + w * f
  BY <1>3, SMT
<1>5. PICK r \in Nat : r = rest
  BY <1>4
<1>6. r = lo + w * f /\ r <= hi /\ hi - r < w /\ r >= lo
  BY <1>2, <1>3, <1>4, <1>5
<1>7. RestFrom(lo, hi, w) = r
  BY <1>5 DEF RestFrom
<1>8. Vectors(lo, hi, w) = {(lo + w * s)..(lo + w * s + w - 1) : s \in 0..(f - 1)}
  BY <1>3 DEF Vectors, Strips
<1> HIDE DEF full, rest
<1>9. ASSUME NEW s \in 0..(f - 1)
      PROVE  w * s \in Nat /\ lo + w * s + w <= r
  <2>1. s \in Nat /\ s < f
    OBVIOUS
  <2>2. w * s \in Nat
    BY <2>1, SMT
  <2>3. w * s + w <= w * f
    BY <2>1, StripOrder
  <2> QED BY <2>2, <2>3, <1>4, <1>6
<1>10. \A p \in Vectors(lo, hi, w) : p \subseteq lo..(r - 1)
  <2> SUFFICES ASSUME NEW p \in Vectors(lo, hi, w), NEW x \in p PROVE x \in lo..(r - 1)
    OBVIOUS
  <2>1. PICK s \in 0..(f - 1) : p = (lo + w * s)..(lo + w * s + w - 1)
    BY <1>8
  <2>2. w * s \in Nat /\ lo + w * s + w <= r
    BY <1>9
  <2>3. PICK z \in Nat : z = w * s
    BY <2>2
  <2>4. x \in (lo + z)..(lo + z + w - 1)
    BY <2>1, <2>3
  <2> QED BY <2>2, <2>3, <2>4
<1>11. ASSUME NEW x \in lo..(r - 1)
       PROVE  \E p \in Vectors(lo, hi, w) :
                x \in p /\ \A q \in Vectors(lo, hi, w) : x \in q => q = p
  <2>1. x - lo \in Nat
    OBVIOUS
  <2>2. PICK s \in Nat, y \in 0..(w - 1) : x - lo = w * s + y
    BY <2>1, DivMod, ZenonT(40)
  <2>3. w * s \in Nat
    BY <2>2, SMT
  <2>4. s < f
    <3> SUFFICES ASSUME f <= s PROVE FALSE
      BY <2>2
    <3>1. w * f <= w * s
      <4>1. CASE f = s
        BY <4>1, <1>4
      <4>2. CASE f < s
        BY <4>2, StripOrder, <2>2, <2>3, <1>4
      <4> QED BY <4>1, <4>2, <2>2
    <3> QED BY <3>1, <2>2, <2>3, <1>4, <1>6
  <2>5. s \in 0..(f - 1)
    BY <2>2, <2>4
  <2> DEFINE p == (lo + w * s)..(lo + w * s + w - 1)
  <2>6. p \in Vectors(lo, hi, w)
    BY <1>8, <2>5
  <2>7. x \in p
    <3>1. PICK z \in Nat : z = w * s
      BY <2>3
    <3>2. x \in (lo + z)..(lo + z + w - 1)
      BY <3>1, <2>2
    <3> QED BY <3>1, <3>2
  <2>8. ASSUME NEW q \in Vectors(lo, hi, w), x \in q PROVE q = p
    <3>1. PICK o \in 0..(f - 1) : q = (lo + w * o)..(lo + w * o + w - 1)
      BY <1>8
    <3>2. w * o \in Nat /\ o \in Nat
      BY <3>1, <1>9
    <3>3. ~(o < s)
      <4> SUFFICES ASSUME o < s PROVE FALSE
        OBVIOUS
      <4>1. w * o + w <= w * s
        BY StripOrder, <3>2, <2>2
      <4> QED BY <4>1, <3>1, <3>2, <2>2, <2>3, <2>8
    <3>4. ~(s < o)
      <4> SUFFICES ASSUME s < o PROVE FALSE
        OBVIOUS
      <4>1. w * s + w <= w * o
        BY StripOrder, <3>2, <2>2
      <4> QED BY <4>1, <3>1, <3>2, <2>2, <2>3, <2>8
    <3>5. o = s
      BY <3>2, <3>3, <3>4, <2>2
    <3> QED BY <3>1, <3>5
  <2> HIDE DEF p
  <2> QED BY <2>6, <2>7, <2>8
<1>12. Partitions(Vectors(lo, hi, w), lo..(r - 1))
  BY <1>10, <1>11 DEF Partitions
<1> QED BY <1>6, <1>7, <1>12

(* The union of two neighbouring intervals.                                *)
LEMMA Neighbours ==
  ASSUME NEW lo \in Int, NEW r \in Int, NEW hi \in Int, lo <= r, r <= hi
  PROVE  /\ (lo..(r - 1)) \cup (r..(hi - 1)) = lo..(hi - 1)
         /\ (lo..(r - 1)) \cap (r..(hi - 1)) = {}
  OBVIOUS

(* Vectors, and what is left one by one.                                   *)
LEMMA PartitionStrips ==
  ASSUME NEW lo \in Nat, NEW hi \in Nat, lo <= hi, NEW w \in Nat \ {0}
  PROVE  Partitions(Vectors(lo, hi, w) \cup Singles(lo, hi, w), lo..(hi - 1))
<1>1. PICK r \in lo..hi : r = RestFrom(lo, hi, w)
  BY PartitionVectors
<1>2. Partitions(Vectors(lo, hi, w), lo..(r - 1))
  BY <1>1, PartitionVectors
<1>3. Partitions(Singles(lo, hi, w), r..(hi - 1))
  <2>1. Singles(lo, hi, w) = EachRow(r, hi)
    BY <1>1 DEF Singles, EachRow
  <2> QED BY <2>1, PartitionSingles
<1>4. (lo..(r - 1)) \cup (r..(hi - 1)) = lo..(hi - 1) /\ (lo..(r - 1)) \cap (r..(hi - 1)) = {}
  BY Neighbours
<1> QED BY <1>2, <1>3, <1>4, PartitionUnion

(* The mask of the first count lanes selects the first count lanes.        *)
LEMMA MaskSelectsFirst ==
  ASSUME NEW count \in 0..15
  PROVE  MaskLanes(count) = 0..(count - 1)
<1>1. CASE count = 0
  BY <1>1 DEF MaskLanes, Shifted, PowersOfTwo
<1>2. CASE count = 1
  BY <1>2 DEF MaskLanes, Shifted, PowersOfTwo
<1>3. CASE count = 2
  BY <1>3 DEF MaskLanes, Shifted, PowersOfTwo
<1>4. CASE count = 3
  BY <1>4 DEF MaskLanes, Shifted, PowersOfTwo
<1>5. CASE count = 4
  BY <1>5 DEF MaskLanes, Shifted, PowersOfTwo
<1>6. CASE count = 5
  BY <1>6 DEF MaskLanes, Shifted, PowersOfTwo
<1>7. CASE count = 6
  BY <1>7 DEF MaskLanes, Shifted, PowersOfTwo
<1>8. CASE count = 7
  BY <1>8 DEF MaskLanes, Shifted, PowersOfTwo
<1>9. CASE count = 8
  BY <1>9 DEF MaskLanes, Shifted, PowersOfTwo
<1>10. CASE count = 9
  BY <1>10 DEF MaskLanes, Shifted, PowersOfTwo
<1>11. CASE count = 10
  BY <1>11 DEF MaskLanes, Shifted, PowersOfTwo
<1>12. CASE count = 11
  BY <1>12 DEF MaskLanes, Shifted, PowersOfTwo
<1>13. CASE count = 12
  BY <1>13 DEF MaskLanes, Shifted, PowersOfTwo
<1>14. CASE count = 13
  BY <1>14 DEF MaskLanes, Shifted, PowersOfTwo
<1>15. CASE count = 14
  BY <1>15 DEF MaskLanes, Shifted, PowersOfTwo
<1>16. CASE count = 15
  BY <1>16 DEF MaskLanes, Shifted, PowersOfTwo
<1> QED BY <1>1, <1>2, <1>3, <1>4, <1>5, <1>6, <1>7, <1>8, <1>9, <1>10, <1>11, <1>12, <1>13, <1>14, <1>15, <1>16

(* Vectors of sixteen and a masked tail.                                   *)
LEMMA PartitionMasked ==
  ASSUME NEW lo \in Nat, NEW hi \in Nat, lo <= hi
  PROVE  Partitions(Vectors(lo, hi, 16) \cup MaskedTail(lo, hi), lo..(hi - 1))
<1>1. PICK r \in lo..hi : r = RestFrom(lo, hi, 16)
  BY PartitionVectors
<1>2. Partitions(Vectors(lo, hi, 16), lo..(r - 1)) /\ hi - r < 16
  BY <1>1, PartitionVectors
<1>3. Partitions(MaskedTail(lo, hi), r..(hi - 1))
  <2>1. CASE r < hi
    <3>1. hi - r \in 0..15
      BY <1>2
    <3>2. MaskLanes(hi - r) = 0..(hi - r - 1)
      BY <3>1, MaskSelectsFirst
    <3>3. {r + lane : lane \in 0..(hi - r - 1)} = r..(hi - 1)
      <4>1. ASSUME NEW x \in r..(hi - 1) PROVE x \in {r + lane : lane \in 0..(hi - r - 1)}
        <5>1. x - r \in 0..(hi - r - 1) /\ x = r + (x - r)
          OBVIOUS
        <5> QED BY <5>1
      <4>2. ASSUME NEW lane \in 0..(hi - r - 1) PROVE r + lane \in r..(hi - 1)
        OBVIOUS
      <4> QED BY <4>1, <4>2
    <3>4. MaskedTail(lo, hi) = {r..(hi - 1)}
      BY <1>1, <2>1, <3>2, <3>3 DEF MaskedTail
    <3> QED BY <3>4, PartitionWhole
  <2>2. CASE ~(r < hi)
    <3>1. MaskedTail(lo, hi) = {} /\ r..(hi - 1) = {}
      BY <1>1, <2>2 DEF MaskedTail
    <3> QED BY <3>1 DEF Partitions
  <2> QED BY <2>1, <2>2
<1>4. (lo..(r - 1)) \cup (r..(hi - 1)) = lo..(hi - 1) /\ (lo..(r - 1)) \cap (r..(hi - 1)) = {}
  BY Neighbours
<1> QED BY <1>2, <1>3, <1>4, PartitionUnion

LEMMA BlocksTile ==
  ASSUME NEW i0 \in Nat, NEW i1 \in Nat, NEW j0 \in Nat, NEW j1 \in Nat, i0 <= i1, j0 <= j1
  PROVE  /\ Tiles(BlockScalar(i0, i1, j0, j1), i0..(i1 - 1), j0..(j1 - 1))
         /\ Tiles(BlockMr4(i0, i1, j0, j1), i0..(i1 - 1), j0..(j1 - 1))
         /\ Tiles(BlockAvx2(i0, i1, j0, j1), i0..(i1 - 1), j0..(j1 - 1))
         /\ Tiles(BlockAvx512(i0, i1, j0, j1), i0..(i1 - 1), j0..(j1 - 1))
         /\ Tiles(BlockNeon(i0, i1, j0, j1), i0..(i1 - 1), j0..(j1 - 1))
<1>1. Partitions(RowGroups(i0, i1), i0..(i1 - 1))
  BY PartitionStrips DEF RowGroups
<1>2. Partitions(EachRow(i0, i1), i0..(i1 - 1))
  BY PartitionSingles
<1>3. Partitions({j0..(j1 - 1)}, j0..(j1 - 1))
  BY PartitionWhole
<1>4. Partitions(Vectors(j0, j1, 8) \cup Singles(j0, j1, 8), j0..(j1 - 1))
  BY PartitionStrips
<1>5. Partitions(Vectors(j0, j1, 4) \cup Singles(j0, j1, 4), j0..(j1 - 1))
  BY PartitionStrips, SMTT(30)
<1>6. Partitions(Vectors(j0, j1, 16) \cup MaskedTail(j0, j1), j0..(j1 - 1))
  BY PartitionMasked
<1>7. Tiles(BlockScalar(i0, i1, j0, j1), i0..(i1 - 1), j0..(j1 - 1))
  BY <1>2, <1>3, TilesOfParts DEF BlockScalar
<1>8. Tiles(BlockMr4(i0, i1, j0, j1), i0..(i1 - 1), j0..(j1 - 1))
  BY <1>1, <1>3, TilesOfParts DEF BlockMr4
<1>9. Tiles(BlockAvx2(i0, i1, j0, j1), i0..(i1 - 1), j0..(j1 - 1))
  BY <1>1, <1>4, TilesOfParts DEF BlockAvx2
<1>10. Tiles(BlockAvx512(i0, i1, j0, j1), i0..(i1 - 1), j0..(j1 - 1))
  BY <1>1, <1>6, TilesOfParts DEF BlockAvx512
<1>11. Tiles(BlockNeon(i0, i1, j0, j1), i0..(i1 - 1), j0..(j1 - 1))
  BY <1>1, <1>5, TilesOfParts DEF BlockNeon
<1> QED BY <1>7, <1>8, <1>9, <1>10, <1>11

LEMMA QuantizedBlockTiles ==
  ASSUME NEW i0 \in Nat, NEW i1 \in Nat, NEW j0 \in Nat, NEW j1 \in Nat, i0 <= i1, j0 <= j1,
         NEW w \in Nat \ {0}
  PROVE  Tiles(QuantizedBlock(i0, i1, j0, j1, w), i0..(i1 - 1), j0..(j1 - 1))
<1>1. PICK r \in i0..i1 : r = RestFrom(i0, i1, 4)
  BY PartitionVectors
<1>2. PICK x \in j0..j1 : x = RestFrom(j0, j1, w)
  BY PartitionVectors
<1>3. Partitions(Vectors(i0, i1, 4), i0..(r - 1)) /\ Partitions(Vectors(j0, j1, w), j0..(x - 1))
  BY <1>1, <1>2, PartitionVectors
<1>4. Partitions(Vectors(j0, j1, w) \cup {x..(j1 - 1)}, j0..(j1 - 1))
  <2>1. (j0..(x - 1)) \cup (x..(j1 - 1)) = j0..(j1 - 1) /\ (j0..(x - 1)) \cap (x..(j1 - 1)) = {}
    BY Neighbours
  <2>2. Partitions({x..(j1 - 1)}, x..(j1 - 1))
    BY PartitionWhole
  <2> QED BY <2>1, <2>2, <1>3, PartitionUnion
<1>5. Tiles(Rectangles(Vectors(i0, i1, 4), Vectors(j0, j1, w) \cup {x..(j1 - 1)}),
            i0..(r - 1), j0..(j1 - 1))
  BY <1>3, <1>4, TilesOfParts
<1>6. Tiles(Rectangles(EachRow(r, i1), {j0..(j1 - 1)}), r..(i1 - 1), j0..(j1 - 1))
  <2>1. Partitions(EachRow(r, i1), r..(i1 - 1))
    <3>1. r \in Int /\ i1 \in Int
      BY <1>1
    <3> QED BY ONLY <3>1, PartitionSingles
  <2>2. Partitions({j0..(j1 - 1)}, j0..(j1 - 1))
    BY PartitionWhole
  <2> QED BY ONLY <2>1, <2>2, TilesOfParts
<1>7. (i0..(r - 1)) \cup (r..(i1 - 1)) = i0..(i1 - 1) /\ (i0..(r - 1)) \cap (r..(i1 - 1)) = {}
  BY Neighbours
<1>8. QuantizedBlock(i0, i1, j0, j1, w)
        = Rectangles(Vectors(i0, i1, 4), Vectors(j0, j1, w) \cup {x..(j1 - 1)})
            \cup Rectangles(EachRow(r, i1), {j0..(j1 - 1)})
  BY <1>1, <1>2 DEF QuantizedBlock
<1> DEFINE upper == Rectangles(Vectors(i0, i1, 4), Vectors(j0, j1, w) \cup {x..(j1 - 1)})
           lower == Rectangles(EachRow(r, i1), {j0..(j1 - 1)})
<1> HIDE DEF upper, lower
<1>9. Tiles(upper, i0..(r - 1), j0..(j1 - 1)) /\ Tiles(lower, r..(i1 - 1), j0..(j1 - 1))
  BY <1>5, <1>6 DEF upper, lower
<1>10. Tiles(upper \cup lower, (i0..(r - 1)) \cup (r..(i1 - 1)), j0..(j1 - 1))
  BY ONLY <1>7, <1>9, TilesUnion
<1>11. QuantizedBlock(i0, i1, j0, j1, w) = upper \cup lower
  BY <1>8 DEF upper, lower
<1> QED BY ONLY <1>7, <1>10, <1>11

Widths == {"baseline", "avx2", "avx512"}

LEMMA EncodedBlocksTile ==
  ASSUME NEW i0 \in Nat, NEW i1 \in Nat, NEW j0 \in Nat, NEW j1 \in Nat, i0 <= i1, j0 <= j1,
         NEW op \in {"bf16", "quantized"}, NEW isa \in Widths
  PROVE  Tiles(Block(op, isa, i0, i1, j0, j1), i0..(i1 - 1), j0..(j1 - 1))
<1>1. CASE op = "quantized"
  <2>1. CASE isa = "avx512"
    <3>1. Block(op, isa, i0, i1, j0, j1) = QuantizedBlock(i0, i1, j0, j1, 16)
      BY <1>1, <2>1 DEF Block
    <3> QED BY <3>1, QuantizedBlockTiles
  <2>2. CASE isa = "avx2"
    <3>1. Block(op, isa, i0, i1, j0, j1) = QuantizedBlock(i0, i1, j0, j1, 8)
      BY <1>1, <2>2 DEF Block
    <3> QED BY <3>1, QuantizedBlockTiles
  <2>3. CASE isa = "baseline"
    <3>1. Block(op, isa, i0, i1, j0, j1) = BlockScalar(i0, i1, j0, j1)
      BY <1>1, <2>3 DEF Block
    <3> QED BY <3>1, BlocksTile
  <2> QED BY <2>1, <2>2, <2>3 DEF Widths
<1>2. CASE op = "bf16"
  <2>1. CASE isa = "avx512"
    <3>1. Block(op, isa, i0, i1, j0, j1) = BlockAvx512(i0, i1, j0, j1)
      BY <1>2, <2>1 DEF Block, Bf16BlockAvx512, BlockAvx512
    <3> QED BY <3>1, BlocksTile
  <2>2. CASE isa = "avx2"
    <3>1. Block(op, isa, i0, i1, j0, j1) = BlockAvx2(i0, i1, j0, j1)
      BY <1>2, <2>2 DEF Block, Bf16BlockAvx2, BlockAvx2
    <3> QED BY <3>1, BlocksTile
  <2>3. CASE isa = "baseline"
    <3>1. Block(op, isa, i0, i1, j0, j1) = BlockScalar(i0, i1, j0, j1)
      BY <1>2, <2>3 DEF Block, Bf16BlockPortable
    <3> QED BY <3>1, BlocksTile
  <2> QED BY <2>1, <2>2, <2>3 DEF Widths
<1> QED BY <1>1, <1>2

-----------------------------------------------------------------------------
(* A chunk serves the elements it owns: its tiles hold each of them once   *)
(* and no other.                                                           *)

(* The chunk that owns element (i, j) of the output.                       *)
Owner(c, name, i, j) ==
  CASE c.op = "input" -> i
    [] c.op = "weight" -> i \div 4
    [] c.op = "forward" /\ name = "scalar" -> 0
    [] c.op = "forward" /\ name = "rowwise" -> i
    [] OTHER -> (i \div c.tile) * Blocks(c, c.n) + (j \div c.tile)

(* The tiles of a chunk hold each of its elements once and no other.       *)
Serves(c, name, tiles, b) ==
  /\ \A t \in tiles : t.rows \subseteq 0..(Rows(c) - 1) /\ t.cols \subseteq 0..(Cols(c) - 1)
  /\ \A i \in 0..(Rows(c) - 1), j \in 0..(Cols(c) - 1) :
       IF Owner(c, name, i, j) = b
       THEN \E t \in tiles : /\ i \in t.rows /\ j \in t.cols
                             /\ \A u \in tiles : (i \in u.rows /\ j \in u.cols) => u = t
       ELSE \A t \in tiles : ~(i \in t.rows /\ j \in t.cols)

LEMMA ServesRegion ==
  ASSUME NEW c, NEW name, NEW tiles, NEW b, NEW R, NEW C,
         Tiles(tiles, R, C), R \subseteq 0..(Rows(c) - 1), C \subseteq 0..(Cols(c) - 1),
         \A i \in 0..(Rows(c) - 1), j \in 0..(Cols(c) - 1) :
           Owner(c, name, i, j) = b <=> i \in R /\ j \in C
  PROVE  Serves(c, name, tiles, b)
<1>1. \A t \in tiles : t.rows \subseteq R /\ t.cols \subseteq C
  BY DEF Tiles
<1>2. \A t \in tiles : t.rows \subseteq 0..(Rows(c) - 1) /\ t.cols \subseteq 0..(Cols(c) - 1)
  BY <1>1
<1>3. ASSUME NEW i \in 0..(Rows(c) - 1), NEW j \in 0..(Cols(c) - 1)
      PROVE  IF Owner(c, name, i, j) = b
             THEN \E t \in tiles : /\ i \in t.rows /\ j \in t.cols
                                   /\ \A u \in tiles : (i \in u.rows /\ j \in u.cols) => u = t
             ELSE \A t \in tiles : ~(i \in t.rows /\ j \in t.cols)
  <2>1. CASE Owner(c, name, i, j) = b
    <3>1. i \in R /\ j \in C
      BY <2>1
    <3>2. \E t \in tiles : /\ i \in t.rows /\ j \in t.cols
                           /\ \A u \in tiles : (i \in u.rows /\ j \in u.cols) => u = t
      BY <3>1 DEF Tiles
    <3> QED BY <2>1, <3>2
  <2>2. CASE Owner(c, name, i, j) # b
    <3>1. ~(i \in R /\ j \in C)
      BY <2>2
    <3> QED BY <2>2, <3>1, <1>1
  <2> QED BY <2>1, <2>2
<1> QED BY <1>2, <1>3 DEF Serves

-----------------------------------------------------------------------------
(* Cutting a dimension into tiles.                                         *)

Least2(x, y) == IF x < y THEN x ELSE y

(* Place i lies in the tile of its quotient and in no other.               *)
LEMMA CutAt ==
  ASSUME NEW T \in Nat \ {0}, NEW x \in Nat, NEW i \in 0..(x - 1), NEW p \in Nat
  PROVE  i \in (p * T)..(Least2(p * T + T, x) - 1) <=> i \div T = p
<1>1. i \in Nat
  OBVIOUS
<1>2. PICK q \in Nat, r \in 0..(T - 1) : i = T * q + r /\ q = i \div T
  BY <1>1, DivMod
<1>3. T * q \in Nat /\ p * T \in Nat /\ p * T = T * p
  BY SMT
<1>4. CASE p = q
  BY <1>2, <1>3, <1>4 DEF Least2
<1>5. CASE p < q
  <2>1. T * p + T <= T * q
    BY <1>5, StripOrder
  <2> QED BY <2>1, <1>2, <1>3, <1>5 DEF Least2
<1>6. CASE q < p
  <2>1. T * q + T <= T * p
    BY <1>6, StripOrder
  <2> QED BY <2>1, <1>2, <1>3, <1>6 DEF Least2
<1> QED BY <1>4, <1>5, <1>6

(* A dimension x is cut into (x - 1) div T + 1 tiles; the last starts      *)
(* before its end.                                                         *)
LEMMA CutCount ==
  ASSUME NEW T \in Nat \ {0}, NEW x \in Nat \ {0}
  PROVE  /\ (x + T - 1) \div T = ((x - 1) \div T) + 1
         /\ (x - 1) \div T \in Nat
         /\ \A i \in 0..(x - 1) : i \div T \in 0..((x - 1) \div T)
         /\ \A p \in 0..((x - 1) \div T) : p * T \in 0..(x - 1)
<1>1. x - 1 \in Nat
  OBVIOUS
<1>2. PICK q \in Nat, r \in 0..(T - 1) : x - 1 = T * q + r /\ q = (x - 1) \div T
  BY <1>1, DivMod
<1>3. T * q \in Nat /\ T * (q + 1) = T * q + T
  BY SMT
<1>4. (x + T - 1) \div T = q + 1
  <2>1. x + T - 1 = T * (q + 1) + r /\ x + T - 1 \in Nat
    BY <1>2, <1>3
  <2>2. PICK s \in Nat, y \in 0..(T - 1) : x + T - 1 = T * s + y /\ s = (x + T - 1) \div T
    BY <2>1, DivMod
  <2>3. T * s \in Nat /\ T * (q + 1) \in Nat /\ q + 1 \in Nat
    BY SMT
  <2>4. ~(s < q + 1)
    <3> SUFFICES ASSUME s < q + 1 PROVE FALSE
      OBVIOUS
    <3>1. T * s + T <= T * (q + 1)
      BY StripOrder, <2>3
    <3> QED BY <3>1, <2>1, <2>2, <2>3
  <2>5. ~(q + 1 < s)
    <3> SUFFICES ASSUME q + 1 < s PROVE FALSE
      OBVIOUS
    <3>1. T * (q + 1) + T <= T * s
      BY StripOrder, <2>3
    <3> QED BY <3>1, <2>1, <2>2, <2>3
  <2> QED BY <2>2, <2>3, <2>4, <2>5
<1>5. ASSUME NEW i \in 0..(x - 1) PROVE i \div T \in 0..q
  <2>1. PICK s \in Nat, y \in 0..(T - 1) : i = T * s + y /\ s = i \div T
    BY DivMod, i \in Nat
  <2>2. ~(q < s)
    <3> SUFFICES ASSUME q < s PROVE FALSE
      OBVIOUS
    <3>1. T * q + T <= T * s
      BY StripOrder
    <3>2. T * s \in Nat
      BY SMT
    <3> QED BY <3>1, <3>2, <2>1, <1>2, <1>3
  <2> QED BY <2>1, <2>2
<1>6. ASSUME NEW p \in 0..q PROVE p * T \in 0..(x - 1)
  <2>1. p \in Nat /\ p * T = T * p /\ T * p \in Nat
    BY SMT
  <2>2. T * p <= T * q
    <3>1. CASE p = q
      BY <3>1, <1>3
    <3>2. CASE p < q
      BY <3>2, StripOrder, <2>1, <1>3
    <3> QED BY <3>1, <3>2, <2>1
  <2> QED BY <2>1, <2>2, <1>2, <1>3
<1> QED BY <1>2, <1>4, <1>5, <1>6

(* A pair of tile numbers and the number of the block it is.               *)
LEMMA GridNumber ==
  ASSUME NEW P \in Nat \ {0}, NEW Q \in Nat \ {0}, NEW b \in 0..(P * Q - 1)
  PROVE  /\ b \div Q \in 0..(P - 1) /\ b % Q \in 0..(Q - 1)
         /\ \A p \in Nat, q \in 0..(Q - 1) :
              p * Q + q = b <=> b \div Q = p /\ b % Q = q
<1>0. P * Q \in Nat /\ b \in Nat /\ P * Q = Q * P
  BY SMT
<1>1. PICK d \in Nat, r \in 0..(Q - 1) : b = Q * d + r /\ d = b \div Q /\ r = b % Q
  BY <1>0, DivMod
<1>2. d < P
  <2> SUFFICES ASSUME P <= d PROVE FALSE
    BY <1>1
  <2>1. Q * P <= Q * d
    <3>1. CASE P = d
      BY <3>1, <1>0
    <3>2. CASE P < d
      <4>1. Q * P + Q <= Q * d /\ Q * d \in Nat
        BY <3>2, StripOrder, SMT
      <4> QED BY <4>1, <1>0
    <3> QED BY <3>1, <3>2
  <2>2. Q * d \in Nat
    BY SMT
  <2> QED BY <2>1, <2>2, <1>0, <1>1
<1>3. ASSUME NEW p \in Nat, NEW q \in 0..(Q - 1)
      PROVE  p * Q + q = b <=> d = p /\ r = q
  <2>1. p * Q = Q * p /\ Q * p \in Nat /\ Q * d \in Nat
    BY SMT
  <2>2. ASSUME p * Q + q = b PROVE d = p /\ r = q
    <3>1. ~(d < p)
      <4> SUFFICES ASSUME d < p PROVE FALSE
        OBVIOUS
      <4>1. Q * d + Q <= Q * p
        BY StripOrder
      <4> QED BY <4>1, <2>1, <2>2, <1>1
    <3>2. ~(p < d)
      <4> SUFFICES ASSUME p < d PROVE FALSE
        OBVIOUS
      <4>1. Q * p + Q <= Q * d
        BY StripOrder
      <4> QED BY <4>1, <2>1, <2>2, <1>1
    <3>3. d = p
      BY <3>1, <3>2
    <3> QED BY <3>3, <2>1, <2>2, <1>1
  <2>3. ASSUME d = p, r = q PROVE p * Q + q = b
    BY <2>1, <2>3, <1>1
  <2> QED BY <2>2, <2>3
<1>4. d \in 0..(P - 1)
  BY <1>1, <1>2
<1>5. b \div Q \in 0..(P - 1) /\ b % Q \in 0..(Q - 1)
  BY ONLY <1>1, <1>4
<1>6. \A p \in Nat, q \in 0..(Q - 1) : p * Q + q = b <=> d = p /\ r = q
  BY ONLY <1>3
<1>7. \A p \in Nat, q \in 0..(Q - 1) : p * Q + q = b <=> b \div Q = p /\ b % Q = q
  BY ONLY <1>1, <1>6, Zenon
<1> QED BY ONLY <1>5, <1>7

(* And back: every pair of tile numbers is a block.                        *)
LEMMA GridFits ==
  ASSUME NEW P \in Nat \ {0}, NEW Q \in Nat \ {0}, NEW p \in 0..(P - 1), NEW q \in 0..(Q - 1)
  PROVE  p * Q + q \in 0..(P * Q - 1)
<1>1. P * Q = Q * P /\ p * Q = Q * p /\ Q * p \in Nat /\ p \in Nat /\ Q * P \in Nat
  BY SMT
<1>2. Q * p + Q <= Q * P
  BY StripOrder, <1>1
<1> QED BY <1>1, <1>2

(* A product the program may be asked for, with something to compute.      *)
Asked(c) ==
  /\ c.op \in Operations
  /\ c.m \in Nat /\ c.k \in Nat /\ c.n \in Nat /\ c.tile \in Nat \ {0}
  /\ c.op = "quantized" => c.k > 0
  /\ c.op # "quantized" => \A x \in {c.m, c.k, c.n} : x + c.tile <= Modulus
  /\ c.op = "weight" => c.k + 4 <= Modulus
  /\ Modulus \in Nat

(* What the kernel of a product may be.                                    *)
Runs(c, name) ==
  CASE c.op = "forward" -> name \in KernelNames
    [] c.op \in {"input", "weight"} -> name \in Widths
    [] OTHER -> name = "encoded"

(* And the instruction set of its chunks.                                  *)
ChunkRuns(c, name, isa) ==
  CASE c.op = "forward" -> isa = KernelIsa(name)
    [] c.op \in {"input", "weight"} -> isa = name
    [] OTHER -> isa \in Widths

LEMMA ModBelow ==
  ASSUME NEW x \in Nat, NEW M \in Nat, x < M
  PROVE  x % M = x
<1>1. M \in Nat \ {0} /\ x \in 0..(M - 1)
  OBVIOUS
<1> QED BY <1>1, ModSmall

(* The sum of a ceiling does not overflow.                                 *)
LEMMA CeilIsPlain ==
  ASSUME NEW x \in Nat, NEW T \in Nat \ {0}, Modulus \in Nat, x + T <= Modulus
  PROVE  CeilDiv(x, T) = (x + T - 1) \div T
<1>1. x + T - 1 \in Nat /\ x + T - 1 < Modulus
  OBVIOUS
<1>2. (x + T - 1) % Modulus = x + T - 1
  BY <1>1, ModBelow
<1> QED BY <1>2 DEF CeilDiv

(* The tiles a dimension is cut into, and where one ends.                  *)
LEMMA BlocksOfDimension ==
  ASSUME NEW c, Asked(c), NEW x \in {c.m, c.k, c.n}, x # 0
  PROVE  Blocks(c, x) = ((x - 1) \div c.tile) + 1
<1>1. x \in Nat \ {0} /\ c.tile \in Nat \ {0}
  BY DEF Asked
<1>2. CASE c.op = "quantized"
  BY <1>2 DEF Blocks
<1>3. CASE c.op # "quantized"
  <2>1. x + c.tile <= Modulus /\ Modulus \in Nat
    BY <1>3 DEF Asked
  <2>2. CeilDiv(x, c.tile) = (x + c.tile - 1) \div c.tile
    BY <1>1, <2>1, CeilIsPlain
  <2>3. (x + c.tile - 1) \div c.tile = ((x - 1) \div c.tile) + 1
    BY <1>1, CutCount
  <2> QED BY <1>3, <2>2, <2>3 DEF Blocks
<1> QED BY <1>2, <1>3

LEMMA LimitIsLeast ==
  ASSUME NEW c, Asked(c), NEW x \in {c.m, c.k, c.n}, NEW start \in 0..(x - 1)
  PROVE  Limit(c, start, x) = Least2(start + c.tile, x)
<1>1. x \in Nat /\ c.tile \in Nat \ {0} /\ start \in Nat
  BY DEF Asked
<1>2. CASE c.op = "quantized"
  BY <1>1, <1>2 DEF Limit, Least2
<1>3. CASE c.op # "quantized"
  <2>1. x + c.tile <= Modulus /\ Modulus \in Nat
    BY <1>3 DEF Asked
  <2>2. start + c.tile \in Nat /\ start + c.tile < Modulus
    BY <1>1, <2>1
  <2>3. (start + c.tile) % Modulus = start + c.tile
    BY <2>1, <2>2, ModBelow
  <2> QED BY <1>1, <1>3, <2>3 DEF Limit, Least2
<1> QED BY <1>2, <1>3

(* Products whose output is cut into square tiles.                         *)
Gridded(c, name) ==
  Encoded(c) \/ (c.op = "forward" /\ Blocked(name))

LEMMA GriddedTiles ==
  ASSUME NEW c, Asked(c), NEW name, Runs(c, name), Gridded(c, name),
         NEW isa, ChunkRuns(c, name, isa),
         NEW i0 \in Nat, NEW i1 \in Nat, NEW j0 \in Nat, NEW j1 \in Nat,
         i0 <= i1, j0 <= j1, NEW blk,
         i0 = (blk \div Blocks(c, c.n)) * c.tile, j0 = (blk % Blocks(c, c.n)) * c.tile,
         i1 = Limit(c, i0, c.m), j1 = Limit(c, j0, c.n)
  PROVE  Tiles(TilesOf(c, name, isa, blk), i0..(i1 - 1), j0..(j1 - 1))
<1>1. TilesOf(c, name, isa, blk) = TileOf(c, name, isa, blk)
  BY DEF TilesOf, Gridded, Encoded, Blocked
<1>2. CASE Encoded(c)
  <2>1. TileOf(c, name, isa, blk) = Block(c.op, isa, i0, i1, j0, j1)
    <3>1. name = "encoded"
      BY <1>2 DEF Runs, Encoded
    <3> QED BY <1>2, <3>1, Zenon DEF TileOf
  <2>2. c.op \in {"bf16", "quantized"} /\ isa \in Widths
    BY <1>2 DEF Encoded, ChunkRuns
  <2> QED BY <1>1, <2>1, <2>2, EncodedBlocksTile, SMTT(30)
<1>3. CASE ~Encoded(c)
  <2>1. name \in {"tiled", "tiled_mr4", "avx2_mr4", "avx512_mr4", "neon_mr4"}
    BY <1>3 DEF Gridded, Blocked, Runs, KernelNames
  <2>2. \/ TileOf(c, name, isa, blk) = BlockScalar(i0, i1, j0, j1)
        \/ TileOf(c, name, isa, blk) = BlockMr4(i0, i1, j0, j1)
        \/ TileOf(c, name, isa, blk) = BlockAvx2(i0, i1, j0, j1)
        \/ TileOf(c, name, isa, blk) = BlockAvx512(i0, i1, j0, j1)
        \/ TileOf(c, name, isa, blk) = BlockNeon(i0, i1, j0, j1)
    BY <1>3, <2>1 DEF TileOf
  <2> QED BY <1>1, <2>2, BlocksTile, SMTT(30)
<1> QED BY <1>2, <1>3

LEMMA OwnerOfGridded ==
  ASSUME NEW c, NEW name, Asked(c), Gridded(c, name), NEW i, NEW j
  PROVE  Owner(c, name, i, j) = (i \div c.tile) * Blocks(c, c.n) + (j \div c.tile)
  BY DEF Owner, Gridded, Encoded, Blocked, Asked

LEMMA GriddedServes ==
  ASSUME NEW c, Asked(c), NEW name, Runs(c, name), Gridded(c, name), c.m # 0, c.n # 0,
         NEW isa, ChunkRuns(c, name, isa),
         NEW blk \in 0..(Blocks(c, c.m) * Blocks(c, c.n) - 1)
  PROVE  Serves(c, name, TilesOf(c, name, isa, blk), blk)
<1>1. PICK T \in Nat \ {0}, m \in Nat \ {0}, n \in Nat \ {0} : T = c.tile /\ m = c.m /\ n = c.n
  BY DEF Asked
<1>2. PICK P \in Nat \ {0} : P = Blocks(c, c.m) /\ P = ((m - 1) \div T) + 1
  BY <1>1, CutCount, BlocksOfDimension
<1>3. PICK Q \in Nat \ {0} : Q = Blocks(c, c.n) /\ Q = ((n - 1) \div T) + 1
  BY <1>1, CutCount, BlocksOfDimension
<1>4. blk \in 0..(P * Q - 1)
  BY <1>2, <1>3
<1>5. PICK p \in 0..(P - 1), q \in 0..(Q - 1) : p = blk \div Q /\ q = blk % Q
  BY <1>4, GridNumber
<1>16. PICK u \in Nat, v \in Nat : u = (m - 1) \div T /\ v = (n - 1) \div T
  BY CutCount
<1>17. P = u + 1 /\ Q = v + 1
  BY <1>2, <1>3, <1>16
<1>6. p * T \in 0..(m - 1) /\ q * T \in 0..(n - 1)
  <2>1. p \in 0..((m - 1) \div T) /\ q \in 0..((n - 1) \div T)
    <3>1. p \in 0..u /\ q \in 0..v
      BY <1>5, <1>17
    <3> QED BY ONLY <3>1, <1>16
  <2> QED BY <2>1, CutCount
<1>7. PICK i0 \in 0..(m - 1), j0 \in 0..(n - 1) : i0 = p * T /\ j0 = q * T
  BY <1>6
<1> DEFINE i1 == Least2(i0 + T, m)
           j1 == Least2(j0 + T, n)
<1>8. i1 = Limit(c, i0, c.m) /\ j1 = Limit(c, j0, c.n)
  BY <1>1, <1>7, LimitIsLeast
<1>9. /\ i0 \in Nat /\ j0 \in Nat /\ i1 \in Nat /\ j1 \in Nat
      /\ i0 <= i1 /\ j0 <= j1 /\ i1 <= m /\ j1 <= n
  BY <1>1, <1>7 DEF Least2
<1>10. i0 = (blk \div Blocks(c, c.n)) * c.tile /\ j0 = (blk % Blocks(c, c.n)) * c.tile
  BY <1>1, <1>3, <1>5, <1>7
<1>11. ASSUME NEW i \in 0..(m - 1), NEW j \in 0..(n - 1)
       PROVE  Owner(c, name, i, j) = blk <=> i \in i0..(i1 - 1) /\ j \in j0..(j1 - 1)
  <2>1. i \in i0..(i1 - 1) <=> i \div T = p
    BY <1>1, <1>7, CutAt, p \in Nat
  <2>2. j \in j0..(j1 - 1) <=> j \div T = q
    BY <1>1, <1>7, CutAt, q \in Nat
  <2>3. PICK x \in 0..(P - 1), y \in 0..(Q - 1) : x = i \div T /\ y = j \div T
    <3>1. i \div T \in 0..((m - 1) \div T)
      BY CutCount
    <3>2. j \div T \in 0..((n - 1) \div T)
      BY CutCount
    <3>3. i \div T \in 0..u /\ j \div T \in 0..v
      BY ONLY <3>1, <3>2, <1>16
    <3>4. P - 1 = u /\ Q - 1 = v
      BY <1>17
    <3> QED BY ONLY <3>3, <3>4
  <2>4. Owner(c, name, i, j) = x * Q + y
    BY <2>3, <1>1, <1>3, OwnerOfGridded
  <2>5. x * Q + y = blk <=> p = x /\ q = y
    <3>1. x \in Nat
      OBVIOUS
    <3>2. x * Q + y = blk <=> blk \div Q = x /\ blk % Q = y
      BY <1>4, <3>1, GridNumber
    <3> QED BY <1>5, <3>2
  <2> QED BY <2>1, <2>2, <2>3, <2>4, <2>5
<1> HIDE DEF i1, j1
<1>12. Tiles(TilesOf(c, name, isa, blk), i0..(i1 - 1), j0..(j1 - 1))
  BY <1>8, <1>9, <1>10, GriddedTiles
<1>13. Rows(c) = m /\ Cols(c) = n
  BY <1>1 DEF Rows, Cols, Gridded, Encoded
<1>14. i0..(i1 - 1) \subseteq 0..(Rows(c) - 1) /\ j0..(j1 - 1) \subseteq 0..(Cols(c) - 1)
  BY <1>9, <1>13
<1> QED BY <1>11, <1>12, <1>13, <1>14, ServesRegion

LEMMA InputServes ==
  ASSUME NEW c, Asked(c), c.op = "input", NEW name, NEW isa, NEW blk \in 0..(c.m - 1)
  PROVE  Serves(c, name, TilesOf(c, name, isa, blk), blk)
<1>1. PICK m \in Nat, k \in Nat : m = c.m /\ k = c.k
  BY DEF Asked
<1>2. Rows(c) = m /\ Cols(c) = k
  BY <1>1 DEF Rows, Cols
<1> DEFINE columns == IF isa = "baseline" THEN EachRow(0, k) ELSE RowGroups(0, k)
<1>3. TilesOf(c, name, isa, blk) = Rectangles({{blk}}, columns)
  BY <1>1 DEF TilesOf, BackwardInputTiles
<1>4. Partitions(columns, 0..(k - 1))
  <2>1. Partitions(EachRow(0, k), 0..(k - 1))
    BY PartitionSingles
  <2>2. Partitions(RowGroups(0, k), 0..(k - 1))
    BY PartitionStrips DEF RowGroups
  <2> QED BY <2>1, <2>2
<1>5. Partitions({{blk}}, {blk})
  BY PartitionWhole
<1> HIDE DEF columns
<1>6. Tiles(TilesOf(c, name, isa, blk), {blk}, 0..(k - 1))
  BY <1>3, <1>4, <1>5, TilesOfParts
<1>7. \A i \in 0..(Rows(c) - 1), j \in 0..(Cols(c) - 1) :
        Owner(c, name, i, j) = blk <=> i \in {blk} /\ j \in 0..(k - 1)
  BY <1>2 DEF Owner
<1>8. {blk} \subseteq 0..(Rows(c) - 1) /\ 0..(k - 1) \subseteq 0..(Cols(c) - 1)
  BY <1>1, <1>2
<1> QED BY <1>6, <1>7, <1>8, ServesRegion

LEMMA WeightServes ==
  ASSUME NEW c, Asked(c), c.op = "weight", NEW name, NEW isa \in Widths, NEW blk \in Nat
  PROVE  Serves(c, name, BackwardWeightTiles(c, isa, blk), blk)
<1>1. PICK k \in Nat, n \in Nat : k = c.k /\ n = c.n
  BY DEF Asked
<1>2. Rows(c) = k /\ Cols(c) = n
  BY <1>1 DEF Rows, Cols
<1> DEFINE columns == BackwardWeightColumns(n, isa)
           l == blk * 4
           end == Least2(l + 4, k)
<1>3. Partitions(columns, 0..(n - 1))
  <2>1. CASE isa = "avx512"
    <3>1. columns = Vectors(0, n, 16) \cup MaskedTail(0, n)
      BY <2>1 DEF BackwardWeightColumns
    <3> QED BY <3>1, PartitionMasked
  <2>2. CASE isa = "avx2"
    <3>1. columns = Vectors(0, n, 8) \cup Singles(0, n, 8)
      BY <2>2 DEF BackwardWeightColumns
    <3> QED BY <3>1, PartitionStrips
  <2>3. CASE isa = "baseline"
    <3>1. columns = {0..(n - 1)}
      BY <2>3 DEF BackwardWeightColumns
    <3> QED BY <3>1, PartitionWhole
  <2> QED BY <2>1, <2>2, <2>3 DEF Widths
<1>4. BackwardWeightTiles(c, isa, blk)
        = IF l + 4 <= k THEN Rectangles({l..(l + 3)}, columns)
          ELSE Rectangles(EachRow(l, k), columns)
  BY <1>1 DEF BackwardWeightTiles
<1>5. l \in Nat
  OBVIOUS
<1> HIDE DEF l, columns
<1>6. Tiles(BackwardWeightTiles(c, isa, blk), l..(end - 1), 0..(n - 1))
  <2>1. CASE l + 4 <= k
    <3>1. end - 1 = l + 3
      BY <1>5, <2>1 DEF Least2
    <3>2. Partitions({l..(l + 3)}, l..(l + 3))
      BY PartitionWhole
    <3>3. Tiles(Rectangles({l..(l + 3)}, columns), l..(l + 3), 0..(n - 1))
      BY <3>2, <1>3, TilesOfParts
    <3> HIDE DEF end
    <3> QED BY <3>1, <3>3, <2>1, <1>4
  <2>2. CASE ~(l + 4 <= k)
    <3>1. end = k
      BY <1>5, <2>2 DEF Least2
    <3>2. Partitions(EachRow(l, k), l..(k - 1))
      BY <1>5, PartitionSingles
    <3>3. Tiles(Rectangles(EachRow(l, k), columns), l..(k - 1), 0..(n - 1))
      BY <3>2, <1>3, TilesOfParts
    <3> HIDE DEF end
    <3> QED BY <3>1, <3>3, <2>2, <1>4
  <2> QED BY <2>1, <2>2
<1>7. ASSUME NEW i \in 0..(k - 1), NEW j \in 0..(n - 1)
      PROVE  Owner(c, name, i, j) = blk <=> i \in l..(end - 1) /\ j \in 0..(n - 1)
  <2>1. i \in l..(end - 1) <=> i \div 4 = blk
    <3>1. \A T \in Nat \ {0}, p \in Nat :
            i \in (p * T)..(Least2(p * T + T, k) - 1) <=> i \div T = p
      BY CutAt
    <3>2. i \in (blk * 4)..(Least2(blk * 4 + 4, k) - 1) <=> i \div 4 = blk
      <4>1. 4 \in Nat \ {0}
        OBVIOUS
      <4> QED BY ONLY <3>1, <4>1, blk \in Nat, Zenon
    <3> QED BY ONLY <3>2 DEF l, end
  <2>2. Owner(c, name, i, j) = i \div 4
    BY DEF Owner
  <2> QED BY <2>1, <2>2
<1>8. l..(end - 1) \subseteq 0..(Rows(c) - 1) /\ 0..(n - 1) \subseteq 0..(Cols(c) - 1)
  BY <1>2, <1>5 DEF Least2
<1> HIDE DEF end
<1> QED BY <1>2, <1>6, <1>7, <1>8, ServesRegion

(* The chunks of the weight gradient, and what is left after them.         *)
LEMMA WeightChunks ==
  ASSUME NEW c, Asked(c), c.op = "weight", NEW name \in Widths
  PROVE  /\ Chunks(c, name) \in Nat
         /\ \A i \in 0..(c.k - 1) :
              /\ i \div 4 \in 0..Chunks(c, name)
              /\ name = "baseline" \/ c.k % 4 = 0 => i \div 4 # Chunks(c, name)
         /\ name # "baseline" => Chunks(c, name) = c.k \div 4
<1>1. PICK k \in Nat : k = c.k /\ k + 4 <= Modulus /\ Modulus \in Nat
  BY DEF Asked
<1>2. CASE name = "baseline"
  <2>1. Chunks(c, name) = CeilDiv(k, 4)
    BY <1>1, <1>2 DEF Chunks
  <2>2. CeilDiv(k, 4) = (k + 4 - 1) \div 4
    BY <1>1, CeilIsPlain
  <2> QED BY <1>1, <1>2, <2>1, <2>2
<1>3. CASE name # "baseline"
  <2>1. Chunks(c, name) = k \div 4
    BY <1>1, <1>3 DEF Chunks
  <2> QED BY <1>1, <1>3, <2>1
<1> QED BY <1>2, <1>3

LEMMA RemainderServes ==
  ASSUME NEW c, Asked(c), c.op = "weight", NEW name \in Widths
  PROVE  Serves(c, name, Remainder(c, name), Chunks(c, name))
<1>1. CASE name # "baseline" /\ c.k % 4 # 0
  <2>1. Remainder(c, name) = BackwardWeightTiles(c, name, c.k \div 4)
    BY <1>1 DEF Remainder
  <2>2. Chunks(c, name) = c.k \div 4 /\ Chunks(c, name) \in Nat
    BY <1>1, WeightChunks
  <2> QED BY <2>1, <2>2, WeightServes
<1>2. CASE ~(name # "baseline" /\ c.k % 4 # 0)
  <2>1. Remainder(c, name) = {}
    BY <1>2 DEF Remainder
  <2>2. ASSUME NEW i \in 0..(Rows(c) - 1), NEW j
        PROVE  Owner(c, name, i, j) # Chunks(c, name)
    <3>1. i \in 0..(c.k - 1) /\ Owner(c, name, i, j) = i \div 4
      BY DEF Rows, Owner
    <3> QED BY <3>1, <1>2, WeightChunks
  <2> QED BY <2>1, <2>2 DEF Serves
<1> QED BY <1>1, <1>2

LEMMA PlainServes ==
  ASSUME NEW c, Asked(c), c.op = "forward", NEW name, ~Blocked(name), NEW isa,
         NEW blk \in 0..(Chunks(c, name) - 1)
  PROVE  Serves(c, name, TilesOf(c, name, isa, blk), blk)
<1>1. PICK m \in Nat, n \in Nat : m = c.m /\ n = c.n
  BY DEF Asked
<1>2. Rows(c) = m /\ Cols(c) = n
  BY <1>1 DEF Rows, Cols
<1>3. CASE name = "scalar"
  <2>1. blk = 0 /\ TilesOf(c, name, isa, blk) = BlockScalar(0, m, 0, n)
    BY <1>1, <1>3 DEF Chunks, TilesOf
  <2>2. Tiles(BlockScalar(0, m, 0, n), 0..(m - 1), 0..(n - 1))
    BY BlocksTile
  <2>3. \A i \in 0..(Rows(c) - 1), j \in 0..(Cols(c) - 1) :
          Owner(c, name, i, j) = blk <=> i \in 0..(m - 1) /\ j \in 0..(n - 1)
    BY <1>2, <1>3, <2>1 DEF Owner
  <2> QED BY <1>2, <2>1, <2>2, <2>3, ServesRegion
<1>4. CASE name = "rowwise"
  <2>1. blk \in 0..(m - 1) /\ TilesOf(c, name, isa, blk) = BlockScalar(blk, blk + 1, 0, n)
    BY <1>1, <1>4 DEF Chunks, TilesOf
  <2>2. Tiles(BlockScalar(blk, blk + 1, 0, n), blk..(blk + 1 - 1), 0..(n - 1))
    <3>1. PICK end \in Nat : end = blk + 1 /\ blk <= end /\ blk \in Nat
      BY <2>1
    <3>2. Tiles(BlockScalar(blk, end, 0, n), blk..(end - 1), 0..(n - 1))
      <4>1. PICK first \in Nat, zero \in Nat, width \in Nat :
              first = blk /\ zero = 0 /\ width = n /\ first <= end /\ zero <= width
        BY <3>1
      <4>2. Tiles(BlockScalar(first, end, zero, width), first..(end - 1), zero..(width - 1))
        BY ONLY <4>1, BlocksTile, end \in Nat, first \in Nat, zero \in Nat, width \in Nat
      <4> QED BY <4>1, <4>2
    <3> QED BY <3>1, <3>2
  <2>3. \A i \in 0..(Rows(c) - 1), j \in 0..(Cols(c) - 1) :
          Owner(c, name, i, j) = blk <=> i \in blk..(blk + 1 - 1) /\ j \in 0..(n - 1)
    BY <1>2, <1>4, <2>1 DEF Owner
  <2>4. blk..(blk + 1 - 1) \subseteq 0..(m - 1)
    BY <2>1
  <2> QED BY <1>2, <2>1, <2>2, <2>3, <2>4, ServesRegion
<1> QED BY <1>3, <1>4 DEF Blocked

LEMMA GriddedChunks ==
  ASSUME NEW c, Asked(c), NEW name, Gridded(c, name)
  PROVE  Chunks(c, name) = Blocks(c, c.m) * Blocks(c, c.n)
  BY DEF Chunks, Gridded, Encoded, Blocked

(* Every chunk computes its own elements, each in one tile.                *)
LEMMA ChunkServes ==
  ASSUME NEW c, Asked(c), ~Empty(c), NEW name, Runs(c, name),
         NEW isa, ChunkRuns(c, name, isa), NEW blk \in 0..(Chunks(c, name) - 1)
  PROVE  Serves(c, name, TilesOf(c, name, isa, blk), blk)
<1>1. CASE c.op = "input"
  <2>1. Chunks(c, name) = c.m
    BY <1>1 DEF Chunks
  <2> QED BY <1>1, <2>1, InputServes
<1>2. CASE c.op = "weight"
  <2>1. TilesOf(c, name, isa, blk) = BackwardWeightTiles(c, isa, blk)
    BY <1>2 DEF TilesOf
  <2>2. isa \in Widths
    BY <1>2 DEF Runs, ChunkRuns
  <2>3. blk \in Nat
    OBVIOUS
  <2> QED BY <1>2, <2>1, <2>2, <2>3, WeightServes
<1>3. CASE c.op = "forward" /\ ~Blocked(name)
  BY <1>3, PlainServes
<1>4. CASE Gridded(c, name)
  <2>1. c.m # 0 /\ c.n # 0
    BY DEF Empty
  <2> QED BY <1>4, <2>1, GriddedChunks, GriddedServes
<1> QED BY <1>1, <1>2, <1>3, <1>4 DEF Gridded, Encoded, Asked, Operations

(* And every element has its chunk; what has none is the remainder's.      *)
LEMMA OwnerInRange ==
  ASSUME NEW c, Asked(c), ~Empty(c), NEW name, Runs(c, name),
         NEW i \in 0..(Rows(c) - 1), NEW j \in 0..(Cols(c) - 1)
  PROVE  /\ Chunks(c, name) \in Nat
         /\ Owner(c, name, i, j) \in 0..Chunks(c, name)
         /\ c.op # "weight" => Owner(c, name, i, j) # Chunks(c, name)
<1>1. CASE c.op = "input"
  BY <1>1 DEF Chunks, Owner, Rows, Asked
<1>2. CASE c.op = "weight"
  <2>1. i \in 0..(c.k - 1) /\ Owner(c, name, i, j) = i \div 4 /\ name \in Widths
    BY <1>2 DEF Owner, Rows, Runs
  <2> QED BY <1>2, <2>1, WeightChunks
<1>3. CASE c.op = "forward" /\ ~Blocked(name)
  BY <1>3 DEF Chunks, Owner, Rows, Asked, Blocked
<1>4. CASE Gridded(c, name)
  <2>1. PICK T \in Nat \ {0}, m \in Nat \ {0}, n \in Nat \ {0} :
          T = c.tile /\ m = c.m /\ n = c.n
    BY DEF Asked, Empty
  <2>2. Rows(c) = m /\ Cols(c) = n
    BY <1>4, <2>1 DEF Rows, Cols, Gridded, Encoded
  <2>3. PICK u \in Nat, v \in Nat : u = (m - 1) \div T /\ v = (n - 1) \div T
    BY CutCount
  <2>4. Blocks(c, c.m) = u + 1 /\ Blocks(c, c.n) = v + 1
    BY <2>1, <2>3, BlocksOfDimension
  <2>5. i \div T \in 0..u /\ j \div T \in 0..v
    BY <2>2, <2>3, CutCount
  <2>6. PICK p \in 0..u, q \in 0..v : p = i \div T /\ q = j \div T
    BY <2>5
  <2>7. Owner(c, name, i, j) = p * (v + 1) + q
    BY <1>4, <2>1, <2>4, <2>6, OwnerOfGridded
  <2>8. Chunks(c, name) = (u + 1) * (v + 1)
    BY <1>4, <2>4, GriddedChunks
  <2>9. p * (v + 1) + q \in 0..((u + 1) * (v + 1) - 1)
    <3>1. u + 1 \in Nat \ {0} /\ v + 1 \in Nat \ {0} /\ p \in 0..(u + 1 - 1) /\ q \in 0..(v + 1 - 1)
      OBVIOUS
    <3> QED BY ONLY <3>1, GridFits
  <2>10. (u + 1) * (v + 1) \in Nat
    BY SMT
  <2>11. PICK total \in Nat : total = (u + 1) * (v + 1)
    BY <2>10
  <2>12. Owner(c, name, i, j) \in 0..(total - 1) /\ Chunks(c, name) = total
    BY ONLY <2>7, <2>8, <2>9, <2>11
  <2> QED BY ONLY <2>12, total \in Nat
<1> QED BY <1>1, <1>2, <1>3, <1>4 DEF Gridded, Encoded, Asked, Operations

-----------------------------------------------------------------------------
(* The terms of an element, and the passes that add them.                  *)

(* Sequences of terms.                                                     *)
Terms == Seq(SUBSET Int)

LEMMA Joined2 ==
  ASSUME NEW s \in Terms, NEW t \in Terms
  PROVE  /\ s \o t \in Terms /\ Len(s \o t) = Len(s) + Len(t)
         /\ Len(s) \in Nat /\ Len(t) \in Nat
         /\ \A q \in 1..Len(s) : (s \o t)[q] = s[q]
         /\ \A q \in 1..Len(t) : (s \o t)[Len(s) + q] = t[q]
  BY DEF Terms

LEMMA JoinedAt ==
  ASSUME NEW s \in Terms, NEW t \in Terms, NEW a \in Nat, NEW b \in Nat, Len(s) = a, Len(t) = b
  PROVE  /\ s \o t \in Terms /\ Len(s \o t) = a + b
         /\ \A q \in 1..a : (s \o t)[q] = s[q]
         /\ \A q \in 1..b : (s \o t)[a + q] = t[q]
  BY Joined2

LEMMA SameTerms ==
  ASSUME NEW s \in Terms, NEW t \in Terms, Len(s) = Len(t), \A q \in 1..Len(s) : s[q] = t[q]
  PROVE  s = t
  BY SeqEqual DEF Terms

LEMMA InnerTermsAre ==
  ASSUME NEW lo \in Nat, NEW hi \in Nat, lo <= hi
  PROVE  /\ InnerTerms(lo, hi) \in Terms /\ Len(InnerTerms(lo, hi)) = hi - lo
         /\ \A q \in 1..(hi - lo) : InnerTerms(lo, hi)[q] = {lo + q - 1}
<1>1. PICK n \in Nat : n = hi - lo
  OBVIOUS
<1>2. InnerTerms(lo, hi) = [q \in 1..n |-> {lo + q - 1}]
  BY <1>1 DEF InnerTerms
<1>3. \A q \in 1..n : {lo + q - 1} \in SUBSET Int
  OBVIOUS
<1>4. InnerTerms(lo, hi) \in Seq(SUBSET Int) /\ Len(InnerTerms(lo, hi)) = n
  BY <1>2, <1>3
<1> QED BY <1>1, <1>2, <1>4 DEF Terms

LEMMA FirstTerms ==
  ASSUME NEW b \in Nat
  PROVE  /\ InnerTerms(0, b) \in Terms /\ Len(InnerTerms(0, b)) = b
         /\ \A q \in 1..b : InnerTerms(0, b)[q] = {q - 1}
<1>1. InnerTerms(0, b) = [q \in 1..b |-> {q - 1}]
  BY DEF InnerTerms
<1>2. \A q \in 1..b : {q - 1} \in SUBSET Int
  OBVIOUS
<1>3. InnerTerms(0, b) \in Seq(SUBSET Int) /\ Len(InnerTerms(0, b)) = b
  BY <1>1, <1>2
<1> QED BY <1>1, <1>3 DEF Terms

(* One pass goes on where the last ended.                                  *)
LEMMA InnerTermsJoin ==
  ASSUME NEW a \in Nat, NEW b \in Nat, a <= b
  PROVE  InnerTerms(0, a) \o InnerTerms(a, b) = InnerTerms(0, b)
<1>1. PICK s \in Terms : s = InnerTerms(0, a) /\ Len(s) = a /\ \A q \in 1..a : s[q] = {q - 1}
  BY FirstTerms
<1>2. PICK t \in Terms : /\ t = InnerTerms(a, b) /\ Len(t) = b - a
                         /\ \A q \in 1..(b - a) : t[q] = {a + q - 1}
  <2>1. /\ InnerTerms(a, b) \in Terms /\ Len(InnerTerms(a, b)) = b - a
        /\ \A q \in 1..(b - a) : InnerTerms(a, b)[q] = {a + q - 1}
    BY ONLY InnerTermsAre, a \in Nat, b \in Nat, a <= b
  <2> QED BY ONLY <2>1
<1>3. PICK u \in Terms : u = InnerTerms(0, b) /\ Len(u) = b /\ \A q \in 1..b : u[q] = {q - 1}
  BY FirstTerms
<1>4. PICK v \in Terms : /\ v = s \o t /\ Len(v) = b
                         /\ \A q \in 1..a : v[q] = s[q]
                         /\ \A q \in 1..(b - a) : v[a + q] = t[q]
  <2>1. /\ s \o t \in Terms /\ Len(s \o t) = a + (b - a)
        /\ \A q \in 1..a : (s \o t)[q] = s[q]
        /\ \A q \in 1..(b - a) : (s \o t)[a + q] = t[q]
    <3>1. PICK d \in Nat : d = b - a
      OBVIOUS
    <3>2. Len(s) = a /\ Len(t) = d
      BY <3>1, <1>1, <1>2
    <3>3. /\ s \o t \in Terms /\ Len(s \o t) = a + d
          /\ \A q \in 1..a : (s \o t)[q] = s[q]
          /\ \A q \in 1..d : (s \o t)[a + q] = t[q]
      <4>1. /\ s \o t \in Terms /\ Len(s \o t) = Len(s) + Len(t)
            /\ \A q \in 1..Len(s) : (s \o t)[q] = s[q]
            /\ \A q \in 1..Len(t) : (s \o t)[Len(s) + q] = t[q]
        BY ONLY Joined2, s \in Terms, t \in Terms
      <4> QED BY ONLY <4>1, <3>2, Zenon
    <3> QED BY ONLY <3>1, <3>3
  <2>2. a + (b - a) = b
    OBVIOUS
  <2> QED BY <2>1, <2>2
<1>5. ASSUME NEW q \in 1..b PROVE v[q] = u[q]
  <2>1. CASE q <= a
    <3>1. q \in 1..a
      BY <2>1
    <3> QED BY <3>1, <1>1, <1>3, <1>4
  <2>2. CASE a < q
    <3>1. PICK d \in 1..(b - a) : q = a + d
      <4>1. q - a \in 1..(b - a) /\ q = a + (q - a)
        BY <2>2
      <4> QED BY <4>1
    <3>2. v[q] = {a + d - 1} /\ u[q] = {q - 1}
      BY <3>1, <1>2, <1>3, <1>4
    <3> QED BY <3>1, <3>2
  <2> QED BY <2>1, <2>2
<1>6. v = u
  BY <1>3, <1>4, <1>5, SameTerms
<1> QED BY <1>1, <1>2, <1>3, <1>4, <1>6

LEMMA NoTerms ==
  InnerTerms(0, 0) = << >>
<1>1. InnerTerms(0, 0) \in Terms /\ Len(InnerTerms(0, 0)) = 0
  BY InnerTermsAre
<1> QED BY <1>1 DEF Terms

LEMMA StaleIs ==
  Stale \in Terms /\ Len(Stale) = 1 /\ Stale[1] = {-1}
  BY DEF Stale, Terms

LEMMA NothingJoined ==
  ASSUME NEW s \in Terms
  PROVE  << >> \o s = s /\ s \o << >> = s
  BY DEF Terms

(* Every inner index is in one term of a dot product.                      *)
Covers(s, n) ==
  /\ s \in Terms
  /\ \A q \in 1..Len(s) : s[q] \subseteq 0..(n - 1)
  /\ \A x \in 0..(n - 1) : \E q \in 1..Len(s) : x \in s[q]
  /\ \A p, q \in 1..Len(s) : p # q => s[p] \cap s[q] = {}

(* Vectors up to the rest, and any terms after it.                         *)
LEMMA VectorsThen ==
  ASSUME NEW n \in Nat, NEW w \in {8, 16}, NEW full \in Nat, NEW rest \in Nat,
         rest = full * w, rest <= n,
         NEW t \in Terms,
         \A q \in 1..Len(t) : t[q] \subseteq rest..(n - 1),
         \A x \in rest..(n - 1) : \E q \in 1..Len(t) : x \in t[q],
         \A p, q \in 1..Len(t) : p # q => t[p] \cap t[q] = {}
  PROVE  Covers([q \in 1..full |-> (w * (q - 1))..(w * q - 1)] \o t, n)
<1> DEFINE s == [q \in 1..full |-> (w * (q - 1))..(w * q - 1)]
<1>1. \A q \in 1..full : (w * (q - 1))..(w * q - 1) \in SUBSET Int
  OBVIOUS
<1>2. s \in Terms /\ Len(s) = full /\ \A q \in 1..full : s[q] = (w * (q - 1))..(w * q - 1)
  BY <1>1 DEF Terms
<1> HIDE DEF s
<1>3. \A q \in 1..full : w * (q - 1) \in Nat /\ w * q <= rest /\ w * q \in Nat
  <2>1. CASE w = 8
    BY <2>1
  <2>2. CASE w = 16
    BY <2>2
  <2> QED BY <2>1, <2>2
<1>4. \A q \in 1..full : s[q] \subseteq 0..(rest - 1)
  <2> SUFFICES ASSUME NEW q \in 1..full, NEW x \in s[q] PROVE x \in 0..(rest - 1)
    OBVIOUS
  <2>1. x \in (w * (q - 1))..(w * q - 1)
    BY <1>2
  <2> QED BY <2>1, <1>3
<1>5. ASSUME NEW x \in 0..(rest - 1) PROVE \E q \in 1..full : x \in s[q]
  <2>1. (x \div w) + 1 \in 1..full
    <3>1. CASE w = 8
      BY <3>1
    <3>2. CASE w = 16
      BY <3>2
    <3> QED BY <3>1, <3>2
  <2>2. PICK q \in 1..full : q = (x \div w) + 1
    BY <2>1
  <2>3. x \in (w * (q - 1))..(w * q - 1)
    <3>1. CASE w = 8
      BY <2>2, <3>1
    <3>2. CASE w = 16
      BY <2>2, <3>2
    <3> QED BY <3>1, <3>2
  <2> QED BY <2>3, <1>2, ZenonT(40)
<1>6. \A p, q \in 1..full : p # q => s[p] \cap s[q] = {}
  <2> SUFFICES ASSUME NEW p \in 1..full, NEW q \in 1..full, p # q, NEW x \in s[p], x \in s[q]
               PROVE  FALSE
    OBVIOUS
  <2>1. x \in (w * (p - 1))..(w * p - 1) /\ x \in (w * (q - 1))..(w * q - 1)
    BY <1>2
  <2>2. CASE w = 8
    BY <2>1, <2>2
  <2>3. CASE w = 16
    BY <2>1, <2>3
  <2> QED BY <2>2, <2>3
<1>7. PICK u \in Terms : /\ u = s \o t /\ Len(u) = full + Len(t) /\ Len(t) \in Nat
                         /\ \A q \in 1..full : u[q] = s[q]
                         /\ \A q \in 1..Len(t) : u[full + q] = t[q]
  <2>1. Len(t) \in Nat
    BY DEF Terms
  <2>2. s \in Terms /\ Len(s) = full
    BY <1>2
  <2>3. /\ s \o t \in Terms /\ Len(s \o t) = full + Len(t)
        /\ \A q \in 1..full : (s \o t)[q] = s[q]
        /\ \A q \in 1..Len(t) : (s \o t)[full + q] = t[q]
    BY ONLY <2>1, <2>2, JoinedAt, t \in Terms, full \in Nat, SMT
  <2> QED BY ONLY <2>1, <2>3
<1>8. \A q \in 1..Len(u) :
        \/ q \in 1..full /\ u[q] = s[q]
        \/ \E d \in 1..Len(t) : q = full + d /\ u[q] = t[d]
  <2> SUFFICES ASSUME NEW q \in 1..Len(u), ~(q \in 1..full)
               PROVE  \E d \in 1..Len(t) : q = full + d /\ u[q] = t[d]
    BY <1>7
  <2>1. q - full \in 1..Len(t) /\ q = full + (q - full)
    BY <1>7
  <2> QED BY <2>1, <1>7
<1>9. \A q \in 1..Len(u) : u[q] \subseteq 0..(n - 1)
  <2> SUFFICES ASSUME NEW q \in 1..Len(u), NEW x \in u[q] PROVE x \in 0..(n - 1)
    OBVIOUS
  <2>1. CASE q \in 1..full /\ u[q] = s[q]
    BY <2>1, <1>4
  <2>2. CASE \E d \in 1..Len(t) : q = full + d /\ u[q] = t[d]
    <3>1. x \in rest..(n - 1)
      <4>1. PICK d \in 1..Len(t) : u[q] = t[d]
        BY <2>2
      <4>2. t[d] \subseteq rest..(n - 1)
        BY <4>1
      <4> QED BY ONLY <4>1, <4>2, x \in u[q]
    <3> QED BY <3>1
  <2> QED BY <2>1, <2>2, <1>8
<1>10. ASSUME NEW x \in 0..(n - 1) PROVE \E q \in 1..Len(u) : x \in u[q]
  <2>1. CASE x < rest
    <3>1. PICK q \in 1..full : x \in s[q]
      <4>1. x \in 0..(rest - 1)
        BY <2>1
      <4> QED BY <4>1, <1>5
    <3> QED BY <3>1, <1>7
  <2>2. CASE rest <= x
    <3>1. PICK d \in 1..Len(t) : x \in t[d]
      BY <2>2
    <3>2. full + d \in 1..Len(u)
      BY <1>7
    <3> QED BY <3>1, <3>2, <1>7
  <2> QED BY <2>1, <2>2
<1>11. ASSUME NEW p \in 1..Len(u), NEW q \in 1..Len(u), p # q PROVE u[p] \cap u[q] = {}
  <2>1. CASE p \in 1..full /\ u[p] = s[p] /\ q \in 1..full /\ u[q] = s[q]
    BY <2>1, <1>6, <1>11
  <2>2. CASE /\ p \in 1..full /\ u[p] = s[p]
             /\ \E d \in 1..Len(t) : q = full + d /\ u[q] = t[d]
    <3>1. u[p] \subseteq 0..(rest - 1) /\ u[q] \subseteq rest..(n - 1)
      BY <2>2, <1>4
    <3> QED BY <3>1, SMTT(30)
  <2>3. CASE /\ q \in 1..full /\ u[q] = s[q]
             /\ \E d \in 1..Len(t) : p = full + d /\ u[p] = t[d]
    <3>1. u[q] \subseteq 0..(rest - 1) /\ u[p] \subseteq rest..(n - 1)
      BY <2>3, <1>4
    <3> QED BY <3>1
  <2>4. CASE /\ \E d \in 1..Len(t) : p = full + d /\ u[p] = t[d]
             /\ \E d \in 1..Len(t) : q = full + d /\ u[q] = t[d]
    <3>1. PICK d \in 1..Len(t), e \in 1..Len(t) :
            p = full + d /\ u[p] = t[d] /\ q = full + e /\ u[q] = t[e]
      BY <2>4
    <3>2. d # e
      BY <3>1, <1>11
    <3> QED BY <3>1, <3>2
  <2> QED BY <2>1, <2>2, <2>3, <2>4, <1>8
<1> QED BY <1>7, <1>9, <1>10, <1>11 DEF Covers, s

-----------------------------------------------------------------------------
(* How often a chunk's tiles hold an element, and what a dot product adds. *)

LEMMA DotTermsCover ==
  ASSUME NEW n \in Nat, NEW isa \in Widths
  PROVE  Covers(DotTerms(n, isa), n)
<1>1. CASE isa = "baseline"
  <2>1. DotTerms(n, isa) = InnerTerms(0, n)
    BY <1>1 DEF DotTerms
  <2>2. PICK s \in Terms : s = InnerTerms(0, n) /\ Len(s) = n /\ \A q \in 1..n : s[q] = {q - 1}
    BY FirstTerms
  <2>3. \A x \in 0..(n - 1) : x + 1 \in 1..n /\ x \in s[x + 1]
    BY <2>2
  <2>4. \A q \in 1..n : s[q] \subseteq 0..(n - 1)
    BY <2>2
  <2>5. \A p, q \in 1..n : p # q => s[p] \cap s[q] = {}
    BY <2>2
  <2> QED BY <2>1, <2>2, <2>3, <2>4, <2>5, SMTT(30) DEF Covers
<1>2. CASE isa = "avx2"
  <2>1. PICK full \in Nat, rest \in 0..n : full = n \div 8 /\ rest = full * 8
    <3>1. n \div 8 \in Nat /\ (n \div 8) * 8 \in 0..n
      OBVIOUS
    <3> QED BY <3>1
  <2>2. PICK t \in Terms : /\ t = InnerTerms(rest, n) /\ Len(t) = n - rest
                           /\ \A q \in 1..(n - rest) : t[q] = {rest + q - 1}
    <3>1. PICK r \in Nat : r = rest /\ r <= n
      OBVIOUS
    <3>2. /\ InnerTerms(r, n) \in Terms /\ Len(InnerTerms(r, n)) = n - r
          /\ \A q \in 1..(n - r) : InnerTerms(r, n)[q] = {r + q - 1}
      BY <3>1, InnerTermsAre
    <3> QED BY ONLY <3>1, <3>2
  <2>3. DotTerms(n, isa) = [q \in 1..full |-> (8 * (q - 1))..(8 * q - 1)] \o t
    BY <1>2, <2>1, <2>2 DEF DotTerms
  <2>4. \A q \in 1..Len(t) : t[q] \subseteq rest..(n - 1)
    BY <2>2
  <2>5. ASSUME NEW x \in rest..(n - 1) PROVE \E q \in 1..Len(t) : x \in t[q]
    <3>1. PICK q \in 1..(n - rest) : q = x - rest + 1
      OBVIOUS
    <3>2. rest + q - 1 = x
      BY <3>1
    <3>3. t[q] = {x} /\ q \in 1..Len(t)
      BY <3>2, <2>2
    <3> QED BY <3>3
  <2>6. \A p, q \in 1..Len(t) : p # q => t[p] \cap t[q] = {}
    BY <2>2
  <2>7. rest \in Nat /\ rest <= n
    OBVIOUS
  <2>8. PICK w \in {8, 16} : w = 8
    OBVIOUS
  <2>9. rest = full * w
    BY <2>1, <2>8
  <2>10. Covers([q \in 1..full |-> (w * (q - 1))..(w * q - 1)] \o t, n)
    BY ONLY ZenonT(40), <2>4, <2>5, <2>6, <2>7, <2>9, VectorsThen, n \in Nat, full \in Nat, t \in Terms,
            w \in {8, 16}
  <2> QED BY ONLY <2>3, <2>8, <2>10
<1>3. CASE isa = "avx512"
  <2>1. PICK full \in Nat, rest \in 0..n : full = n \div 16 /\ rest = full * 16 /\ n - rest < 16
    <3>1. n \div 16 \in Nat /\ (n \div 16) * 16 \in 0..n /\ n - (n \div 16) * 16 < 16
      OBVIOUS
    <3> QED BY <3>1
  <2> DEFINE t == IF rest < n THEN << rest..(n - 1) >> ELSE << >>
  <2>2. DotTerms(n, isa) = [q \in 1..full |-> (16 * (q - 1))..(16 * q - 1)] \o t
    <3>1. rest < n => {rest + lane : lane \in MaskLanes(n - rest)} = rest..(n - 1)
      <4> SUFFICES ASSUME rest < n
                   PROVE  {rest + lane : lane \in MaskLanes(n - rest)} = rest..(n - 1)
        OBVIOUS
      <4>1. n - rest \in 0..15
        BY <2>1
      <4>2. MaskLanes(n - rest) = 0..(n - rest - 1)
        BY <4>1, MaskSelectsFirst
      <4>3. ASSUME NEW x \in rest..(n - 1)
            PROVE  x \in {rest + lane : lane \in 0..(n - rest - 1)}
        <5>1. x - rest \in 0..(n - rest - 1) /\ x = rest + (x - rest)
          OBVIOUS
        <5> QED BY <5>1
      <4>4. ASSUME NEW lane \in 0..(n - rest - 1) PROVE rest + lane \in rest..(n - 1)
        OBVIOUS
      <4> QED BY <4>2, <4>3, <4>4
    <3>2. DotTerms(n, isa) = [q \in 1..full |-> (16 * (q - 1))..(16 * q - 1)] \o
            (IF rest < n THEN <<{rest + lane : lane \in MaskLanes(n - rest)}>> ELSE << >>)
      BY <1>3, <2>1 DEF DotTerms
    <3> QED BY <3>1, <3>2
  <2>3. t \in Terms
    <3>1. PICK r \in SUBSET Int : r = rest..(n - 1)
      OBVIOUS
    <3>2. <<r>> \in Seq(SUBSET Int) /\ << >> \in Seq(SUBSET Int)
      OBVIOUS
    <3>3. t = <<r>> \/ t = << >>
      BY <3>1
    <3> HIDE DEF t
    <3> QED BY ONLY <3>2, <3>3 DEF Terms
  <2>4. \A q \in 1..Len(t) : t[q] \subseteq rest..(n - 1)
    OBVIOUS
  <2>5. ASSUME NEW x \in rest..(n - 1) PROVE \E q \in 1..Len(t) : x \in t[q]
    <3>1. t = << rest..(n - 1) >>
      OBVIOUS
    <3> HIDE DEF t
    <3>2. Len(t) = 1 /\ t[1] = rest..(n - 1)
      BY <3>1
    <3>3. 1 \in 1..Len(t) /\ x \in t[1]
      BY <3>2
    <3> QED BY ONLY <3>3
  <2>6. \A p, q \in 1..Len(t) : p # q => t[p] \cap t[q] = {}
    OBVIOUS
  <2>7. rest \in Nat /\ rest <= n
    OBVIOUS
  <2> HIDE DEF t
  <2>8. PICK w \in {8, 16} : w = 16
    OBVIOUS
  <2>9. rest = full * w
    BY <2>1, <2>8
  <2>10. Covers([q \in 1..full |-> (w * (q - 1))..(w * q - 1)] \o t, n)
    BY ONLY ZenonT(40), <2>3, <2>4, <2>5, <2>6, <2>7, <2>9, VectorsThen, n \in Nat, full \in Nat,
            w \in {8, 16}
  <2> QED BY ONLY <2>2, <2>8, <2>10
<1> QED BY <1>1, <1>2, <1>3 DEF Widths

-----------------------------------------------------------------------------
(* Element (i, j) has an address of its own.                               *)
LEMMA AddressUnique ==
  ASSUME NEW R \in Nat, NEW C \in Nat, NEW i \in 0..(R - 1), NEW j \in 0..(C - 1),
         NEW x \in 0..(R - 1), NEW y \in 0..(C - 1), x * C + y = i * C + j
  PROVE  x = i /\ y = j
<1>1. R \in Nat \ {0} /\ C \in Nat \ {0} /\ i \in Nat /\ x \in Nat
  OBVIOUS
<1>2. PICK b \in 0..(R * C - 1) : b = i * C + j
  BY <1>1, GridFits
<1>3. b \div C = i /\ b % C = j
  BY ONLY <1>1, <1>2, GridNumber, j \in 0..(C - 1), C \in Nat, R \in Nat
<1>4. b \div C = x /\ b % C = y
  BY ONLY <1>1, <1>2, GridNumber, y \in 0..(C - 1), C \in Nat, R \in Nat, x * C + y = i * C + j
<1> QED BY ONLY <1>3, <1>4

(* The tiles that hold the element at address a.                           *)
Holding(c, tiles, a) == {t \in tiles : \E i \in t.rows, j \in t.cols : i * Cols(c) + j = a}

LEMMA SizesOf ==
  ASSUME NEW c, Asked(c)
  PROVE  Rows(c) \in Nat /\ Cols(c) \in Nat
  BY DEF Asked, Rows, Cols

LEMMA HoldingServed ==
  ASSUME NEW c, Asked(c), NEW name, NEW tiles, NEW b, Serves(c, name, tiles, b),
         NEW i \in 0..(Rows(c) - 1), NEW j \in 0..(Cols(c) - 1), NEW t \in tiles
  PROVE  t \in Holding(c, tiles, i * Cols(c) + j) <=> i \in t.rows /\ j \in t.cols
<1>1. ASSUME NEW x \in t.rows, NEW y \in t.cols, x * Cols(c) + y = i * Cols(c) + j
      PROVE  x = i /\ y = j
  <2>1. x \in 0..(Rows(c) - 1) /\ y \in 0..(Cols(c) - 1)
    BY DEF Serves
  <2>2. PICK R \in Nat, C \in Nat : R = Rows(c) /\ C = Cols(c)
    BY SizesOf
  <2>3. /\ x \in 0..(R - 1) /\ y \in 0..(C - 1) /\ i \in 0..(R - 1) /\ j \in 0..(C - 1)
        /\ x * C + y = i * C + j
    BY <2>1, <2>2, <1>1
  <2> QED BY ONLY <2>3, AddressUnique, R \in Nat, C \in Nat
<1>2. ASSUME i \in t.rows, j \in t.cols PROVE t \in Holding(c, tiles, i * Cols(c) + j)
  BY <1>2 DEF Holding
<1>3. ASSUME t \in Holding(c, tiles, i * Cols(c) + j) PROVE i \in t.rows /\ j \in t.cols
  <2>1. PICK x \in t.rows, y \in t.cols : x * Cols(c) + y = i * Cols(c) + j
    BY <1>3 DEF Holding
  <2> QED BY <2>1, <1>1
<1> QED BY <1>2, <1>3

LEMMA CopiesOf ==
  ASSUME NEW c, Asked(c), NEW name, NEW tiles, NEW b, Serves(c, name, tiles, b),
         NEW i \in 0..(Rows(c) - 1), NEW j \in 0..(Cols(c) - 1)
  PROVE  Cardinality(Holding(c, tiles, i * Cols(c) + j))
           = IF Owner(c, name, i, j) = b THEN 1 ELSE 0
<1> DEFINE held == Holding(c, tiles, i * Cols(c) + j)
<1>0. held \subseteq tiles
  BY DEF Holding
<1>1. \A t \in tiles : t \in held <=> i \in t.rows /\ j \in t.cols
  BY HoldingServed
<1> HIDE DEF held
<1>2. CASE Owner(c, name, i, j) = b
  <2>1. PICK t \in tiles : /\ i \in t.rows /\ j \in t.cols
                           /\ \A u \in tiles : (i \in u.rows /\ j \in u.cols) => u = t
    BY <1>2 DEF Serves
  <2>2. held = {t}
    BY <2>1, <1>0, <1>1
  <2>3. Cardinality({t}) = 1
    BY FS_Singleton
  <2> QED BY <1>2, <2>2, <2>3 DEF held
<1>3. CASE Owner(c, name, i, j) # b
  <2>1. \A t \in tiles : ~(i \in t.rows /\ j \in t.cols)
    BY <1>3 DEF Serves
  <2>2. held = {}
    BY <2>1, <1>0, <1>1
  <2> QED BY <1>3, <2>2, FS_EmptySet DEF held
<1> QED BY <1>2, <1>3

-----------------------------------------------------------------------------
(* The passes over one element.                                            *)

(* f accumulates passes on an element that copies tiles hold.              *)
Accumulation(f, last, e, segments, copies) ==
  f = [q \in 0..last |-> IF q = 0 THEN e ELSE f[q - 1] \o segments[((q - 1) \div copies) + 1]]

LEMMA AccumulationUnique ==
  ASSUME NEW last \in Nat, NEW e, NEW segments, NEW copies,
         NEW f, Accumulation(f, last, e, segments, copies),
         NEW g, Accumulation(g, last, e, segments, copies)
  PROVE  f[last] = g[last]
<1> DEFINE different == {q \in 0..last : f[q] # g[q]}
<1> SUFFICES ASSUME different # {} PROVE FALSE
  OBVIOUS
<1>0. different \subseteq Nat
  OBVIOUS
<1>1. PICK q \in different : \A p \in different : q <= p
  BY <1>0, LeastExists
<1>2. f[q] = IF q = 0 THEN e ELSE f[q - 1] \o segments[((q - 1) \div copies) + 1]
  BY DEF Accumulation
<1>3. g[q] = IF q = 0 THEN e ELSE g[q - 1] \o segments[((q - 1) \div copies) + 1]
  BY DEF Accumulation
<1>4. q # 0
  BY <1>2, <1>3
<1>5. q - 1 \in 0..last /\ ~(q <= q - 1)
  BY <1>1, <1>4
<1>6. f[q - 1] = g[q - 1]
  BY <1>1, <1>5
<1> QED BY <1>1, <1>2, <1>3, <1>4, <1>6

LEMMA AccumulatedIs ==
  ASSUME NEW c, NEW segments, NEW tiles, NEW a, NEW e, NEW last \in Nat, NEW copies,
         copies = Cardinality(Holding(c, tiles, a)), last = copies * Len(segments),
         NEW g, Accumulation(g, last, e, segments, copies)
  PROVE  Accumulated(c, segments, tiles, a, e) = g[last]
<1> DEFINE f == CHOOSE f : Accumulation(f, last, e, segments, copies)
<1>1. Accumulation(f, last, e, segments, copies)
  OBVIOUS
<1>2. Accumulated(c, segments, tiles, a, e) = f[last]
  BY DEF Accumulated, Accumulation, Holding
<1> HIDE DEF f
<1> QED BY <1>1, <1>2, AccumulationUnique

(* An output element before its chunk, and after.                          *)
Blank(c) == IF c.op \in {"input", "weight"} THEN Stale ELSE << >>

Complete(c, name) ==
  CASE c.op = "input" -> Stale \o DotTerms(c.n, name)
    [] c.op = "weight" -> Stale \o InnerTerms(0, c.m)
    [] OTHER -> InnerTerms(0, c.k)

(* Another chunk's tiles leave an element as it was.                       *)
LEMMA NoCopies ==
  ASSUME NEW c, NEW segments, NEW tiles, NEW a, NEW e, Len(segments) \in Nat,
         Cardinality(Holding(c, tiles, a)) = 0
  PROVE  Accumulated(c, segments, tiles, a, e) = e
<1> DEFINE g == [q \in 0..0 |-> e]
<1>1. Accumulation(g, 0, e, segments, 0)
  <2>1. \A q \in 0..0 : q = 0
    OBVIOUS
  <2> QED BY <2>1 DEF Accumulation
<1>2. 0 = 0 * Len(segments)
  OBVIOUS
<1>3. g[0] = e
  OBVIOUS
<1> HIDE DEF g
<1>4. Accumulated(c, segments, tiles, a, e) = g[0]
  BY <1>1, <1>2, AccumulatedIs, 0 \in Nat
<1> QED BY <1>3, <1>4

(* One pass of one tile.                                                   *)
LEMMA OnePass ==
  ASSUME NEW c, NEW s, NEW tiles, NEW a, NEW e, Cardinality(Holding(c, tiles, a)) = 1
  PROVE  Accumulated(c, <<s>>, tiles, a, e) = e \o s
<1> DEFINE g == [q \in 0..1 |-> IF q = 0 THEN e ELSE e \o s]
<1>1. Accumulation(g, 1, e, <<s>>, 1)
  <2>1. ASSUME NEW q \in 0..1
        PROVE  g[q] = IF q = 0 THEN e ELSE g[q - 1] \o <<s>>[((q - 1) \div 1) + 1]
    <3>1. CASE q = 0
      BY <3>1
    <3>2. CASE q = 1
      <4>1. ((q - 1) \div 1) + 1 = 1 /\ q - 1 = 0
        BY <3>2
      <4>2. <<s>>[1] = s /\ g[0] = e /\ g[1] = e \o s
        OBVIOUS
      <4> HIDE DEF g
      <4> QED BY <3>2, <4>1, <4>2
    <3> QED BY <3>1, <3>2
  <2>2. g = [q \in 0..1 |-> g[q]]
    OBVIOUS
  <2> HIDE DEF g
  <2> QED BY <2>1, <2>2, Zenon DEF Accumulation
<1>2. 1 = 1 * Len(<<s>>)
  OBVIOUS
<1>3. g[1] = e \o s
  OBVIOUS
<1> HIDE DEF g
<1>4. Accumulated(c, <<s>>, tiles, a, e) = g[1]
  BY <1>1, <1>2, AccumulatedIs, 1 \in Nat
<1> QED BY <1>3, <1>4

(* One pass per tile of the inner dimension.                               *)
PassPerTile(T, k, last) ==
  [q \in 1..last |-> InnerTerms((q - 1) * T, Least2((q - 1) * T + T, k))]

LEMMA TiledPasses ==
  ASSUME NEW c, NEW T \in Nat \ {0}, NEW k \in Nat \ {0}, NEW last \in Nat,
         last = ((k - 1) \div T) + 1,
         NEW segments, segments = PassPerTile(T, k, last),
         NEW tiles, NEW a, Cardinality(Holding(c, tiles, a)) = 1
  PROVE  Accumulated(c, segments, tiles, a, << >>) = InnerTerms(0, k)
<1> DEFINE g == [q \in 0..last |-> InnerTerms(0, Least2(q * T, k))]
<1>0. segments = [q \in 1..last |-> InnerTerms((q - 1) * T, Least2((q - 1) * T + T, k))]
  BY DEF PassPerTile
<1>1. PICK u \in Nat, r \in 0..(T - 1) : k - 1 = T * u + r /\ u = (k - 1) \div T
  BY k - 1 \in Nat, DivMod
<1>2. last = u + 1 /\ Len(segments) = last
  BY <1>0, <1>1
<1>3. g[0] = << >>
  <2>1. 0 * T = 0 /\ Least2(0, k) = 0
    BY DEF Least2
  <2> QED BY <2>1, NoTerms
<1>4. ASSUME NEW q \in 1..last
      PROVE  g[q] = g[q - 1] \o segments[((q - 1) \div 1) + 1]
  <2>1. PICK p \in 0..u : p = q - 1
    BY <1>2
  <2>2. ((q - 1) \div 1) + 1 = q /\ p \in 0..last /\ q \in 0..last
    BY <1>2, <2>1
  <2>3. p * T \in 0..(k - 1)
    BY <1>1, CutCount, p \in 0..((k - 1) \div T)
  <2>4. PICK lo \in Nat : lo = p * T /\ lo < k
    BY <2>3
  <2>5. q * T = lo + T
    <3>1. (p + 1) * T = p * T + T
      BY SMT
    <3>2. q = p + 1
      BY <2>1
    <3> QED BY <3>1, <3>2, <2>4
  <2>6. PICK hi \in Nat : hi = Least2(lo + T, k) /\ lo <= hi
    BY <2>4 DEF Least2
  <2>7. g[q] = InnerTerms(0, hi)
    BY <2>2, <2>5, <2>6
  <2>8. g[p] = InnerTerms(0, lo)
    <3>1. Least2(lo, k) = lo
      BY <2>4 DEF Least2
    <3> QED BY <2>2, <2>4, <3>1
  <2>9. segments[q] = InnerTerms(lo, hi)
    BY <1>0, <2>1, <2>4, <2>6
  <2>10. InnerTerms(0, lo) \o InnerTerms(lo, hi) = InnerTerms(0, hi)
    BY <2>6, InnerTermsJoin
  <2> HIDE DEF g
  <2> QED BY <2>1, <2>2, <2>7, <2>8, <2>9, <2>10
<1>5. g[last] = InnerTerms(0, k)
  <2>1. last * T = T * u + T /\ T * u \in Nat
    <3>1. (u + 1) * T = T * u + T /\ T * u \in Nat
      BY SMT
    <3> QED BY <3>1, <1>2
  <2>2. Least2(last * T, k) = k
    BY <2>1, <1>1 DEF Least2
  <2> QED BY <2>2
<1>6. g = [q \in 0..last |-> g[q]]
  OBVIOUS
<1> HIDE DEF g
<1>7. Accumulation(g, last, << >>, segments, 1)
  <2>1. \A q \in 0..last : g[q] = IF q = 0 THEN << >> ELSE g[q - 1] \o segments[((q - 1) \div 1) + 1]
    <3> SUFFICES ASSUME NEW q \in 0..last, q # 0
                 PROVE  g[q] = g[q - 1] \o segments[((q - 1) \div 1) + 1]
      BY <1>3
    <3>1. q \in 1..last
      OBVIOUS
    <3> QED BY <3>1, <1>4
  <2> QED BY <2>1, <1>6, Zenon DEF Accumulation
<1>8. last = 1 * Len(segments)
  BY <1>2
<1>9. Accumulated(c, segments, tiles, a, << >>) = g[last]
  BY ONLY <1>7, <1>8, AccumulatedIs, last \in Nat, Cardinality(Holding(c, tiles, a)) = 1
<1> QED BY <1>5, <1>9

(* The passes of a chunk.                                                  *)
LEMMA TiledPassesAre ==
  ASSUME NEW c, Asked(c), ~Empty(c), NEW name, Gridded(c, name), NEW isa
  PROVE  \E k \in Nat \ {0}, T \in Nat \ {0}, last \in Nat :
           /\ k = c.k /\ last = ((k - 1) \div T) + 1
           /\ Passes(c, name, isa) = PassPerTile(T, k, last)
<1> DEFINE last == ((c.k - 1) \div c.tile) + 1
<1>1. PICK k \in Nat \ {0}, T \in Nat \ {0} : k = c.k /\ T = c.tile
  BY DEF Asked, Empty, Gridded, Encoded
<1>2. PICK u \in Nat : u = (k - 1) \div T /\ last = u + 1
  BY <1>1, CutCount
<1>3. Passes(c, name, isa)
        = [q \in 1..last |-> InnerTerms((q - 1) * c.tile, Limit(c, (q - 1) * c.tile, c.k))]
  BY DEF Passes, Gridded, Encoded, Asked
<1>4. ASSUME NEW q \in 1..last
      PROVE  Limit(c, (q - 1) * c.tile, c.k) = Least2((q - 1) * c.tile + c.tile, c.k)
  <2>1. q - 1 \in 0..u
    BY <1>2
  <2>2. (q - 1) * T \in 0..(k - 1)
    BY <2>1, <1>2, CutCount
  <2> QED BY <2>2, <1>1, LimitIsLeast
<1> HIDE DEF last
<1>5. Passes(c, name, isa)
        = [q \in 1..last |-> InnerTerms((q - 1) * c.tile,
                                        Least2((q - 1) * c.tile + c.tile, c.k))]
  BY <1>3, <1>4, Zenon
<1>6. Passes(c, name, isa)
        = [q \in 1..last |-> InnerTerms((q - 1) * T, Least2((q - 1) * T + T, k))]
  BY ONLY <1>1, <1>5, Zenon
<1>7. last \in Nat
  BY <1>2
<1>8. last = ((k - 1) \div T) + 1
  BY <1>1, Zenon DEF last
<1>9. Passes(c, name, isa) = PassPerTile(T, k, last)
  BY <1>6 DEF PassPerTile
<1> QED BY ONLY <1>1, <1>9, <1>7, <1>8, Zenon

LEMMA PlainPassesAre ==
  ASSUME NEW c, Asked(c), NEW name, Runs(c, name), ~Gridded(c, name),
         NEW isa, ChunkRuns(c, name, isa)
  PROVE  \E s : Passes(c, name, isa) = <<s>> /\ Blank(c) \o s = Complete(c, name)
<1>1. CASE c.op = "input"
  <2>1. Passes(c, name, isa) = <<DotTerms(c.n, name)>>
    BY <1>1 DEF Passes, ChunkRuns
  <2>2. Complete(c, name) = Blank(c) \o DotTerms(c.n, name)
    BY <1>1 DEF Blank, Complete
  <2> QED BY <2>1, <2>2
<1>2. CASE c.op = "weight"
  <2>1. Passes(c, name, isa) = <<InnerTerms(0, c.m)>>
    BY <1>2 DEF Passes
  <2>2. Complete(c, name) = Blank(c) \o InnerTerms(0, c.m)
    BY <1>2 DEF Blank, Complete
  <2> QED BY <2>1, <2>2
<1>3. CASE c.op = "forward" /\ ~Blocked(name)
  <2>1. Passes(c, name, isa) = <<InnerTerms(0, c.k)>>
    BY <1>3 DEF Passes
  <2>2. Complete(c, name) = InnerTerms(0, c.k) /\ Blank(c) = << >>
    BY <1>3 DEF Blank, Complete
  <2>3. InnerTerms(0, c.k) \in Terms
    BY FirstTerms DEF Asked
  <2> QED BY <2>1, <2>2, <2>3, NothingJoined
<1> QED BY <1>1, <1>2, <1>3 DEF Gridded, Encoded, Asked, Operations

(* A chunk completes its own elements and leaves the others.               *)
LEMMA ChunkAccumulates ==
  ASSUME NEW c, Asked(c), ~Empty(c), NEW name, Runs(c, name),
         NEW isa, ChunkRuns(c, name, isa),
         NEW tiles, NEW b, Serves(c, name, tiles, b),
         NEW i \in 0..(Rows(c) - 1), NEW j \in 0..(Cols(c) - 1), NEW e
  PROVE  Accumulated(c, Passes(c, name, isa), tiles, i * Cols(c) + j, e)
           = IF Owner(c, name, i, j) # b THEN e
             ELSE IF e = Blank(c) THEN Complete(c, name)
             ELSE Accumulated(c, Passes(c, name, isa), tiles, i * Cols(c) + j, e)
<1> DEFINE segments == Passes(c, name, isa)
           a == i * Cols(c) + j
<1>0. Cardinality(Holding(c, tiles, a)) = IF Owner(c, name, i, j) = b THEN 1 ELSE 0
  BY CopiesOf
<1>1. CASE Gridded(c, name)
  <2>1. PICK k \in Nat \ {0}, T \in Nat \ {0}, last \in Nat :
          /\ k = c.k /\ last = ((k - 1) \div T) + 1
          /\ segments = PassPerTile(T, k, last)
    BY <1>1, TiledPassesAre
  <2>2. Len(segments) \in Nat
    BY <2>1 DEF PassPerTile
  <2>3. Blank(c) = << >> /\ Complete(c, name) = InnerTerms(0, k)
    BY <1>1, <2>1 DEF Blank, Complete, Gridded, Encoded
  <2> HIDE DEF segments, a
  <2>4. ASSUME Cardinality(Holding(c, tiles, a)) = 1
        PROVE  Accumulated(c, segments, tiles, a, << >>) = InnerTerms(0, k)
    <3>1. segments = PassPerTile(T, k, last) /\ last = ((k - 1) \div T) + 1
      BY <2>1
    <3> QED BY ONLY <3>1, <2>4, TiledPasses, k \in Nat \ {0}, T \in Nat \ {0}, last \in Nat
  <2>5. ASSUME Cardinality(Holding(c, tiles, a)) = 0
        PROVE  Accumulated(c, segments, tiles, a, e) = e
    BY <2>2, <2>5, NoCopies
  <2>6. Accumulated(c, segments, tiles, a, e)
          = IF Owner(c, name, i, j) # b THEN e
            ELSE IF e = Blank(c) THEN Complete(c, name)
            ELSE Accumulated(c, segments, tiles, a, e)
    BY ONLY <1>0, <2>3, <2>4, <2>5
  <2> QED BY ONLY <2>6 DEF segments, a
<1>2. CASE ~Gridded(c, name)
  <2>1. PICK s : segments = <<s>> /\ Blank(c) \o s = Complete(c, name)
    BY <1>2, PlainPassesAre
  <2>2. Len(segments) \in Nat
    BY <2>1
  <2> HIDE DEF segments, a
  <2>4. ASSUME Cardinality(Holding(c, tiles, a)) = 1
        PROVE  Accumulated(c, segments, tiles, a, Blank(c)) = Complete(c, name)
    BY <2>1, <2>4, OnePass
  <2>5. ASSUME Cardinality(Holding(c, tiles, a)) = 0
        PROVE  Accumulated(c, segments, tiles, a, e) = e
    BY <2>2, <2>5, NoCopies
  <2>6. Accumulated(c, segments, tiles, a, e)
          = IF Owner(c, name, i, j) # b THEN e
            ELSE IF e = Blank(c) THEN Complete(c, name)
            ELSE Accumulated(c, segments, tiles, a, e)
    BY ONLY <1>0, <2>4, <2>5
  <2> QED BY ONLY <2>6 DEF segments, a
<1> QED BY <1>1, <1>2

-----------------------------------------------------------------------------
(* The threads of a call share its chunks out, and an element is blank     *)
(* until the chunk that owns it is done.                                   *)

(* The static schedule gives every chunk to one thread.                    *)
LEMMA SharesPartition ==
  ASSUME NEW chunks \in Nat, NEW fork
  PROVE  LET dealt == Shares(chunks, fork)
         IN  /\ dealt \in [Threads -> SUBSET Nat]
             /\ \A t \in Threads : dealt[t] \subseteq 0..(chunks - 1)
             /\ \A s, t \in Threads : s # t => dealt[s] \cap dealt[t] = {}
             /\ \A b \in 0..(chunks - 1) : \E t \in Threads : b \in dealt[t]
<1> DEFINE team == Cardinality(Threads)
           each == (chunks + team - 1) \div team
           dealt == Shares(chunks, fork)
<1>1. team \in Nat \ {0} /\ Threads = 0..(team - 1)
  BY MatmulKernelsAssumption
<1>2. PICK n \in Nat \ {0} : n = team
  BY <1>1
<1>3. 0 \in Threads /\ Threads \subseteq Nat
  BY <1>1
<1>4. dealt = [t \in Threads |->
                 IF fork THEN {b \in 0..(chunks - 1) : b \div each = t}
                 ELSE IF t = 0 THEN 0..(chunks - 1) ELSE {}]
  BY DEF Shares
<1> HIDE DEF dealt
<1>5. \A t \in Threads : dealt[t] \subseteq 0..(chunks - 1)
  BY <1>4
<1>6. \A s, t \in Threads : s # t => dealt[s] \cap dealt[t] = {}
  BY <1>4
<1>7. ASSUME NEW b \in 0..(chunks - 1) PROVE \E t \in Threads : b \in dealt[t]
  <2>1. CASE fork
    <3>1. chunks + n - 1 \in Nat /\ chunks # 0
      OBVIOUS
    <3>2. PICK e \in Nat, r \in 0..(n - 1) : chunks + n - 1 = n * e + r /\ e = each
      BY <3>1, <1>2, DivMod
    <3>3. n * e \in Nat /\ n * e >= chunks /\ n * e = e * n
      <4>1. n * e \in Nat /\ n * e = e * n
        BY SMT
      <4> QED BY <4>1, <3>2
    <3>4. e # 0
      BY <3>3, <3>1
    <3>5. PICK q \in Nat, y \in 0..(e - 1) : b = e * q + y /\ q = b \div e
      BY <3>4, DivMod, b \in Nat, e \in Nat \ {0}
    <3>6. q < n
      <4> SUFFICES ASSUME n <= q PROVE FALSE
        OBVIOUS
      <4>1. e * n <= e * q
        <5>1. CASE n = q
          BY <5>1, <3>3
        <5>2. CASE n < q
          <6>1. e * n + e <= e * q /\ e * q \in Nat
            BY <5>2, <3>4, StripOrder, SMT
          <6> QED BY <6>1, <3>3
        <5> QED BY <5>1, <5>2
      <4>2. e * q \in Nat
        BY SMT
      <4> QED BY <4>1, <4>2, <3>3, <3>5
    <3>7. q \in Threads
      BY <3>6, <1>1, <1>2
    <3>8. b \div each = q
      BY <3>2, <3>5
    <3>9. b \in dealt[q]
      BY <3>7, <3>8, <2>1, <1>4
    <3> QED BY <3>7, <3>9
  <2>2. CASE ~fork
    <3>1. dealt[0] = 0..(chunks - 1)
      BY <2>2, <1>3, <1>4
    <3> QED BY <3>1, <1>3
  <2> QED BY <2>1, <2>2
<1>8. dealt \in [Threads -> SUBSET Nat]
  <2>1. \A t \in Threads : dealt[t] \in SUBSET Nat
    BY <1>5
  <2>2. dealt = [t \in Threads |-> dealt[t]]
    BY <1>4
  <2> QED BY <2>1, <2>2
<1> QED BY <1>5, <1>6, <1>7, <1>8 DEF dealt

(* The place of an address in the output.                                  *)
LEMMA PlaceOf ==
  ASSUME NEW c, Asked(c), NEW a \in 0..(Rows(c) * Cols(c) - 1)
  PROVE  \E i \in 0..(Rows(c) - 1), j \in 0..(Cols(c) - 1) :
           a = i * Cols(c) + j /\ i = a \div Cols(c) /\ j = a % Cols(c)
<1>1. PICK R \in Nat, C \in Nat : R = Rows(c) /\ C = Cols(c)
  BY SizesOf
<1>2. R * C \in Nat
  BY SMT
<1>3. a \in 0..(R * C - 1)
  BY <1>1
<1>4. R # 0 /\ C # 0
  <2>1. R * C # 0
    BY <1>2, <1>3
  <2>2. 0 * C = 0 /\ R * 0 = 0
    OBVIOUS
  <2> QED BY <2>1, <2>2
<1>5. a \div C \in 0..(R - 1) /\ a % C \in 0..(C - 1)
  BY ONLY <1>3, <1>4, GridNumber, R \in Nat \ {0}, C \in Nat \ {0}
<1>6. a = (a \div C) * C + (a % C)
  <2>1. a \in Nat
    BY <1>2, <1>3
  <2>2. PICK q \in Nat, r \in 0..(C - 1) : a = C * q + r /\ q = a \div C /\ r = a % C
    BY <2>1, <1>4, DivMod
  <2>3. C * q = q * C
    BY SMT
  <2> QED BY <2>2, <2>3
<1> QED BY <1>1, <1>5, <1>6

OwnerAt(c, name, a) == Owner(c, name, a \div Cols(c), a % Cols(c))

(* The number of chunks a call is cut into.                                *)
Count(c, name) == IF Empty(c) THEN 0 ELSE Chunks(c, name)

(* An output with nothing to compute.                                      *)
Left(c) == IF c.op = "forward" THEN << >> ELSE Stale

(* Chunk b is not taken, or it is in flight, or it is left to the end.     *)
Unfinished(c, name, dealt, air, at, b) ==
  \/ b = Chunks(c, name)
  \/ \E t \in Threads : b \in dealt[t] \/ (air[t].isa # NONE /\ b = at[t])

(* Threads have disjoint chunks to take; at says which one a thread has in *)
(* flight; and every element is blank or complete.                         *)
DealtOK(c, name, dealt) ==
  /\ \A t \in Threads : dealt[t] \subseteq 0..(Count(c, name) - 1)
  /\ \A s, t \in Threads : s # t => dealt[s] \cap dealt[t] = {}

InAirOK(c, name, dealt, air, at) ==
  \A t \in Threads : air[t].isa # NONE =>
    /\ at[t] \in 0..(Count(c, name) - 1)
    /\ ChunkRuns(c, name, air[t].isa)
    /\ air[t].tiles = TilesOf(c, name, air[t].isa, at[t])
    /\ \A s \in Threads : /\ at[t] \notin dealt[s]
                          /\ (s # t /\ air[s].isa # NONE) => at[s] # at[t]

ElementsOK(c, name, dealt, air, at, memory) ==
  \A a \in DOMAIN memory :
    memory[a] = IF Empty(c) THEN Left(c)
                ELSE IF Unfinished(c, name, dealt, air, at, OwnerAt(c, name, a))
                THEN Blank(c) ELSE Complete(c, name)

UnderWay(at) ==
  /\ Runs(call, kernel)
  /\ DealtOK(call, kernel, share)
  /\ InAirOK(call, kernel, share, flight, at)
  /\ ElementsOK(call, kernel, share, flight, at, out)

Resting == \A t \in Threads : share[t] = {} /\ flight[t].isa = NONE

ProductInv ==
  /\ call \in Calls
  /\ DOMAIN out = 0..(Rows(call) * Cols(call) - 1)
  /\ share \in [Threads -> SUBSET Nat]
  /\ flight = [t \in Threads |-> flight[t]]
  /\ kernel = NONE => Resting /\ \A a \in DOMAIN out : out[a] = Stale
  /\ kernel = "returned" => Resting /\ \A a \in DOMAIN out : Exact(call, out[a])
  /\ kernel \notin {NONE, "returned"} => \E at \in [Threads -> Nat] : UnderWay(at)

-----------------------------------------------------------------------------

LEMMA CallAsked ==
  ASSUME NEW c \in Calls
  PROVE  Asked(c)
  BY MatmulKernelsAssumption DEF Asked

LEMMA RunningNames ==
  ASSUME NEW c, Asked(c), NEW name, Runs(c, name)
  PROVE  name \notin {NONE, "returned"}
<1>1. name \in KernelNames \cup Widths \cup {"encoded"}
  BY DEF Runs, Asked, Operations
<1>2. name # "returned"
  BY <1>1 DEF KernelNames, Widths
<1>3. name # NONE
  BY <1>1, MatmulKernelsAssumption DEF Widths, Isas
<1> QED BY <1>2, <1>3

LEMMA RunningIsas ==
  ASSUME NEW c, Asked(c), NEW name, Runs(c, name), NEW isa, ChunkRuns(c, name, isa)
  PROVE  isa \in Isas /\ isa # NONE
<1>1. isa \in Isas
  BY DEF Runs, ChunkRuns, KernelIsa, Isas, Widths, Asked, Operations
<1> QED BY <1>1, MatmulKernelsAssumption

LEMMA OwnerOf ==
  ASSUME NEW c, Asked(c), NEW a \in 0..(Rows(c) * Cols(c) - 1), NEW name
  PROVE  \E i \in 0..(Rows(c) - 1), j \in 0..(Cols(c) - 1) :
           a = i * Cols(c) + j /\ OwnerAt(c, name, a) = Owner(c, name, i, j)
  BY PlaceOf DEF OwnerAt

LEMMA OwnerAtInRange ==
  ASSUME NEW c, Asked(c), ~Empty(c), NEW name, Runs(c, name),
         NEW a \in 0..(Rows(c) * Cols(c) - 1)
  PROVE  /\ Chunks(c, name) \in Nat /\ OwnerAt(c, name, a) \in 0..Chunks(c, name)
         /\ c.op # "weight" => OwnerAt(c, name, a) # Chunks(c, name)
  BY OwnerOf, OwnerInRange

LEMMA ElementAccumulates ==
  ASSUME NEW c, Asked(c), ~Empty(c), NEW name, Runs(c, name),
         NEW isa, ChunkRuns(c, name, isa),
         NEW tiles, NEW b, Serves(c, name, tiles, b),
         NEW a \in 0..(Rows(c) * Cols(c) - 1), NEW e
  PROVE  /\ OwnerAt(c, name, a) # b => Accumulated(c, Passes(c, name, isa), tiles, a, e) = e
         /\ (OwnerAt(c, name, a) = b /\ e = Blank(c)) =>
              Accumulated(c, Passes(c, name, isa), tiles, a, e) = Complete(c, name)
<1>1. PICK i \in 0..(Rows(c) - 1), j \in 0..(Cols(c) - 1) :
        a = i * Cols(c) + j /\ OwnerAt(c, name, a) = Owner(c, name, i, j)
  BY OwnerOf
<1>2. Accumulated(c, Passes(c, name, isa), tiles, i * Cols(c) + j, e)
        = IF Owner(c, name, i, j) # b THEN e
          ELSE IF e = Blank(c) THEN Complete(c, name)
          ELSE Accumulated(c, Passes(c, name, isa), tiles, i * Cols(c) + j, e)
  BY ChunkAccumulates
<1> QED BY ONLY <1>1, <1>2, Zenon

LEMMA Selected ==
  ASSUME NEW c \in Calls
  PROVE  /\ Resolved(c) \in KernelNames
         /\ Widest \in Widths
<1>1. Select(c.m, c.k, c.n) \in KernelNames
  BY DEF Select, KernelNames
<1>2. c.kernel = "auto" \/ c.kernel \in KernelNames
  BY MatmulKernelsAssumption
<1>3. "tiled_mr4" \in KernelNames
  BY DEF KernelNames
<1>4. Resolved(c) \in KernelNames
  BY <1>1, <1>2, <1>3 DEF Resolved
<1> QED BY <1>4 DEF Widest, Widths

LEMMA ChunksCounted ==
  ASSUME NEW c, Asked(c), ~Empty(c), NEW name, Runs(c, name)
  PROVE  Chunks(c, name) \in Nat
<1>1. CASE c.op = "weight"
  BY <1>1, WeightChunks DEF Runs
<1>2. CASE c.op = "input"
  BY <1>2 DEF Chunks, Asked
<1>3. CASE c.op = "forward" /\ ~Blocked(name)
  BY <1>3 DEF Chunks, Asked, Blocked
<1>4. CASE Gridded(c, name)
  <2>1. c.m \in Nat \ {0} /\ c.n \in Nat \ {0} /\ c.tile \in Nat \ {0}
    BY DEF Asked, Empty
  <2>2. Blocks(c, c.m) \in Nat /\ Blocks(c, c.n) \in Nat
    <3>1. PICK T \in Nat \ {0} : T = c.tile
      BY <2>1
    <3>2. ASSUME NEW x \in Nat \ {0}, x \in {c.m, c.n}
          PROVE  Blocks(c, x) \in Nat
      <4>1. Blocks(c, x) = ((x - 1) \div T) + 1
        BY <3>1, <3>2, BlocksOfDimension
      <4>2. (x - 1) \div T \in Nat
        BY CutCount
      <4> QED BY <4>1, <4>2
    <3> QED BY <2>1, <3>2
  <2>3. PICK x \in Nat, y \in Nat : x = Blocks(c, c.m) /\ y = Blocks(c, c.n)
    BY <2>2
  <2>4. x * y \in Nat
    BY SMT
  <2>5. Chunks(c, name) = Blocks(c, c.m) * Blocks(c, c.n)
    BY <1>4, GriddedChunks
  <2> QED BY <2>3, <2>4, <2>5
<1> QED BY <1>1, <1>2, <1>3, <1>4 DEF Gridded, Encoded, Asked, Operations

-----------------------------------------------------------------------------

LEMMA InitProductInv == ProductInit => ProductInv
<1> SUFFICES ASSUME ProductInit PROVE ProductInv
  OBVIOUS
<1>1. kernel # "returned"
  BY MatmulKernelsAssumption DEF ProductInit
<1>2. share \in [Threads -> SUBSET Nat] /\ flight = [t \in Threads |-> flight[t]]
  BY DEF ProductInit
<1>3. Resting
  BY DEF ProductInit, Resting, Idling
<1>4. DOMAIN out = 0..(Rows(call) * Cols(call) - 1) /\ \A a \in DOMAIN out : out[a] = Stale
  BY DEF ProductInit
<1> QED BY <1>1, <1>2, <1>3, <1>4 DEF ProductInit, ProductInv

LEMMA EnterProductInv == ProductInv /\ Enter => ProductInv'
<1> SUFFICES ASSUME ProductInv, Enter PROVE ProductInv'
  OBVIOUS
<1> DEFINE name == CASE call.op = "forward" -> Resolved(call)
                     [] Encoded(call) -> "encoded"
                     [] OTHER -> Widest
           chunks == IF Empty(call) THEN 0 ELSE Chunks(call, name)
           fork == ShouldFork(chunks, call.m * call.k * call.n)
           zeroed == IF call.op = "forward" THEN TRUE ELSE Encoded(call) /\ ~Empty(call)
<1>1. /\ kernel = NONE /\ kernel' = name
      /\ out' = IF zeroed THEN [a \in DOMAIN out |-> << >>] ELSE out
      /\ share' = Shares(chunks, fork)
      /\ call' = call /\ flight' = flight
  BY DEF Enter, detection
<1>2. call \in Calls /\ Asked(call)
  BY CallAsked DEF ProductInv
<1>3. Runs(call, name)
  <2>1. CASE call.op = "forward"
    <3>1. name = Resolved(call)
      BY <2>1 DEF Encoded
    <3>2. Resolved(call) \in KernelNames
      BY <1>2, Selected
    <3> HIDE DEF name
    <3> QED BY <3>1, <3>2, <2>1 DEF Runs
  <2>2. CASE call.op \in {"input", "weight"}
    <3>1. name = Widest
      BY <2>2 DEF Encoded
    <3>2. Widest \in Widths
      BY <1>2, Selected
    <3> HIDE DEF name
    <3> QED BY <3>1, <3>2, <2>2 DEF Runs
  <2>3. CASE call.op \in {"bf16", "quantized"}
    <3>1. name = "encoded"
      BY <2>3 DEF Encoded
    <3> HIDE DEF name
    <3> QED BY <3>1, <2>3 DEF Runs
  <2> QED BY <2>1, <2>2, <2>3, <1>2 DEF Asked, Operations
<1> HIDE DEF name, fork
<1>4. chunks = Count(call, name)
  BY DEF Count
<1>5. chunks \in Nat
  <2>1. CASE Empty(call)
    BY <2>1
  <2>2. CASE ~Empty(call)
    <3>1. Chunks(call, name) \in Nat
      BY <1>2, <1>3, <2>2, ChunksCounted
    <3> QED BY <2>2, <3>1
  <2> QED BY <2>1, <2>2
<1> HIDE DEF chunks
<1>6. /\ share' \in [Threads -> SUBSET Nat]
      /\ \A t \in Threads : share'[t] \subseteq 0..(chunks - 1)
      /\ \A s, t \in Threads : s # t => share'[s] \cap share'[t] = {}
      /\ \A b \in 0..(chunks - 1) : \E t \in Threads : b \in share'[t]
  BY <1>1, <1>5, SharesPartition
<1>7. DOMAIN out' = DOMAIN out
  BY <1>1
<1>8. \A a \in DOMAIN out : out[a] = Stale
  BY <1>1 DEF ProductInv
<1>9. \A t \in Threads : flight'[t].isa = NONE
  BY <1>1 DEF ProductInv, Resting
<1>10. name \notin {NONE, "returned"}
  BY <1>2, <1>3, RunningNames
<1> DEFINE at == [t \in Threads |-> 0]
<1>11. at \in [Threads -> Nat]
  OBVIOUS
<1>12. ASSUME NEW a \in DOMAIN out'
       PROVE  out'[a] = IF Empty(call) THEN Left(call)
                        ELSE IF Unfinished(call, name, share', flight', at, OwnerAt(call, name, a))
                        THEN Blank(call) ELSE Complete(call, name)
  <2>1. out'[a] = IF zeroed THEN << >> ELSE Stale
    BY <1>1, <1>7, <1>8
  <2>2. CASE Empty(call)
    BY <2>1, <2>2 DEF Left, Encoded
  <2>3. CASE ~Empty(call)
    <3>1. out'[a] = Blank(call)
      BY <2>1, <2>3, <1>2 DEF Blank, Encoded, Asked, Operations
    <3>2. a \in 0..(Rows(call) * Cols(call) - 1)
      BY <1>7 DEF ProductInv
    <3>3. chunks = Chunks(call, name)
      BY <2>3 DEF chunks
    <3>4. OwnerAt(call, name, a) \in 0..chunks
      BY <3>2, <3>3, <1>2, <1>3, <2>3, OwnerAtInRange
    <3>5. OwnerAt(call, name, a) = Chunks(call, name) \/ OwnerAt(call, name, a) \in 0..(chunks - 1)
      BY <3>3, <3>4, <1>5
    <3>6. Unfinished(call, name, share', flight', at, OwnerAt(call, name, a))
      BY <3>5, <1>6 DEF Unfinished
    <3> QED BY <2>3, <3>1, <3>6
  <2> QED BY <2>2, <2>3
<1> HIDE DEF at, zeroed
<1>13. DealtOK(call, name, share')
  BY <1>4, <1>6 DEF DealtOK
<1>14. InAirOK(call, name, share', flight', at)
  BY <1>9 DEF InAirOK
<1>15. ElementsOK(call, name, share', flight', at, out')
  BY <1>12 DEF ElementsOK
<1>16. UnderWay(at)'
  <2>1. Runs(call', kernel') /\ DealtOK(call', kernel', share')
    BY <1>1, <1>3, <1>13
  <2>2. InAirOK(call', kernel', share', flight', at)
    BY <1>1, <1>14
  <2>3. ElementsOK(call', kernel', share', flight', at, out')
    BY <1>1, <1>15
  <2> QED BY <2>1, <2>2, <2>3 DEF UnderWay
<1>17. kernel' \notin {NONE, "returned"}
  BY <1>1, <1>10
<1>18. /\ call' \in Calls
       /\ DOMAIN out' = 0..(Rows(call') * Cols(call') - 1)
       /\ flight' = [t \in Threads |-> flight'[t]]
  BY <1>1, <1>7 DEF ProductInv
<1> QED BY <1>6, <1>11, <1>16, <1>17, <1>18 DEF ProductInv

(* Thread t takes chunk blk.                                               *)
Takes(c, name, t, blk, dealt, air, at, dealt2, air2, at2) ==
  /\ DealtOK(c, name, dealt) /\ InAirOK(c, name, dealt, air, at)
  /\ t \in Threads /\ air[t].isa = NONE /\ blk \in dealt[t]
  /\ dealt2[t] = dealt[t] \ {blk} /\ at2[t] = blk
  /\ air2[t].isa # NONE /\ ChunkRuns(c, name, air2[t].isa)
  /\ air2[t].tiles = TilesOf(c, name, air2[t].isa, blk)
  /\ \A s \in Threads : s # t => dealt2[s] = dealt[s] /\ air2[s] = air[s] /\ at2[s] = at[s]

(* Nothing is finished by that.                                            *)
LEMMA TakeChunk ==
  ASSUME NEW c, NEW name, NEW t, NEW blk, NEW dealt, NEW air, NEW at,
         NEW dealt2, NEW air2, NEW at2,
         Takes(c, name, t, blk, dealt, air, at, dealt2, air2, at2)
  PROVE  /\ DealtOK(c, name, dealt2)
         /\ InAirOK(c, name, dealt2, air2, at2)
         /\ \A b : Unfinished(c, name, dealt2, air2, at2, b) <=> Unfinished(c, name, dealt, air, at, b)
<1> USE DEF Takes
<1>1. DealtOK(c, name, dealt2)
  BY DEF DealtOK
<1>2. \A s \in Threads : s # t => blk \notin dealt[s]
  BY DEF DealtOK
<1>3. \A s \in Threads : air[s].isa # NONE => at[s] \notin dealt[t]
  BY DEF InAirOK
<1>4. ASSUME NEW x \in Threads, air2[x].isa # NONE
      PROVE  /\ at2[x] \in 0..(Count(c, name) - 1)
             /\ ChunkRuns(c, name, air2[x].isa)
             /\ air2[x].tiles = TilesOf(c, name, air2[x].isa, at2[x])
             /\ \A s \in Threads : /\ at2[x] \notin dealt2[s]
                                   /\ (s # x /\ air2[s].isa # NONE) => at2[s] # at2[x]
  <2>1. CASE x = t
    <3>1. at2[x] \in 0..(Count(c, name) - 1)
      BY <2>1 DEF DealtOK
    <3>2. ASSUME NEW s \in Threads
          PROVE  at2[x] \notin dealt2[s] /\ ((s # x /\ air2[s].isa # NONE) => at2[s] # at2[x])
      BY <2>1, <1>2, <1>3
    <3> QED BY <2>1, <3>1, <3>2
  <2>2. CASE x # t
    <3>1. air[x].isa # NONE /\ air2[x] = air[x] /\ at2[x] = at[x]
      BY <2>2, <1>4
    <3>2. at[x] \in 0..(Count(c, name) - 1)
      BY <3>1 DEF InAirOK
    <3>3. ChunkRuns(c, name, air[x].isa) /\ air[x].tiles = TilesOf(c, name, air[x].isa, at[x])
      BY <3>1 DEF InAirOK
    <3>4. ASSUME NEW s \in Threads
          PROVE  at2[x] \notin dealt2[s] /\ ((s # x /\ air2[s].isa # NONE) => at2[s] # at2[x])
      <4>1. at[x] \notin dealt[s] /\ ((s # x /\ air[s].isa # NONE) => at[s] # at[x])
        BY <3>1 DEF InAirOK
      <4>2. CASE s = t
        BY <4>1, <4>2, <3>1
      <4>3. CASE s # t
        BY <4>1, <4>3, <3>1
      <4> QED BY <4>2, <4>3
    <3> QED BY <3>1, <3>2, <3>3, <3>4
  <2> QED BY <2>1, <2>2
<1>5. InAirOK(c, name, dealt2, air2, at2)
  BY <1>4 DEF InAirOK
<1>6. ASSUME NEW b
      PROVE  Unfinished(c, name, dealt2, air2, at2, b) <=> Unfinished(c, name, dealt, air, at, b)
  <2>1. ASSUME NEW s \in Threads, s # t
        PROVE  (b \in dealt2[s] \/ (air2[s].isa # NONE /\ b = at2[s]))
                 <=> (b \in dealt[s] \/ (air[s].isa # NONE /\ b = at[s]))
    BY <2>1
  <2>2. (b \in dealt2[t] \/ (air2[t].isa # NONE /\ b = at2[t]))
          <=> (b \in dealt[t] \/ (air[t].isa # NONE /\ b = at[t]))
    OBVIOUS
  <2> QED BY <2>1, <2>2 DEF Unfinished
<1> QED BY <1>1, <1>5, <1>6

(* Thread t is done with its chunk.                                        *)
Hands(c, name, t, dealt, air, at, air2) ==
  /\ Chunks(c, name) \in Nat /\ ~Empty(c)
  /\ InAirOK(c, name, dealt, air, at)
  /\ t \in Threads /\ air[t].isa # NONE /\ air2[t].isa = NONE
  /\ \A s \in Threads : s # t => air2[s] = air[s]

(* That finishes this chunk and no other.                                  *)
LEMMA ChunkDone ==
  ASSUME NEW c, NEW name, NEW t, NEW dealt, NEW air, NEW at, NEW air2,
         Hands(c, name, t, dealt, air, at, air2)
  PROVE  /\ InAirOK(c, name, dealt, air2, at)
         /\ Unfinished(c, name, dealt, air, at, at[t])
         /\ ~Unfinished(c, name, dealt, air2, at, at[t])
         /\ \A b : b # at[t] =>
              (Unfinished(c, name, dealt, air2, at, b) <=> Unfinished(c, name, dealt, air, at, b))
<1> USE DEF Hands
<1>1. InAirOK(c, name, dealt, air2, at)
  <2> SUFFICES ASSUME NEW x \in Threads, air2[x].isa # NONE
               PROVE  /\ at[x] \in 0..(Count(c, name) - 1)
                      /\ ChunkRuns(c, name, air2[x].isa)
                      /\ air2[x].tiles = TilesOf(c, name, air2[x].isa, at[x])
                      /\ \A s \in Threads : /\ at[x] \notin dealt[s]
                                            /\ (s # x /\ air2[s].isa # NONE) => at[s] # at[x]
    BY DEF InAirOK
  <2>1. x # t /\ air2[x] = air[x]
    OBVIOUS
  <2>2. \A s \in Threads : air2[s].isa # NONE => air[s].isa # NONE
    OBVIOUS
  <2> QED BY <2>1, <2>2 DEF InAirOK
<1>2. Unfinished(c, name, dealt, air, at, at[t])
  BY DEF Unfinished
<1>3. at[t] # Chunks(c, name)
  <2>1. at[t] \in 0..(Chunks(c, name) - 1)
    BY DEF InAirOK, Count
  <2> QED BY <2>1
<1>4. \A s \in Threads : at[t] \notin dealt[s] /\ (s # t /\ air[s].isa # NONE => at[s] # at[t])
  BY DEF InAirOK
<1>5. ~Unfinished(c, name, dealt, air2, at, at[t])
  BY <1>3, <1>4 DEF Unfinished
<1>6. ASSUME NEW b, b # at[t]
      PROVE  Unfinished(c, name, dealt, air2, at, b) <=> Unfinished(c, name, dealt, air, at, b)
  <2>1. ASSUME NEW s \in Threads
        PROVE  (air2[s].isa # NONE /\ b = at[s]) <=> (air[s].isa # NONE /\ b = at[s])
    BY <1>6
  <2> QED BY <2>1 DEF Unfinished
<1> QED BY <1>1, <1>2, <1>5, <1>6

-----------------------------------------------------------------------------
(* What was there before, then the terms of t.                             *)
StaleFirst(e, t, b) ==
  /\ e \in Terms /\ Len(e) = 1 + b
  /\ \A q \in 1..1 : e[q] = Stale[q]
  /\ \A q \in 1..b : e[1 + q] = t[q]

LEMMA StaleThen ==
  ASSUME NEW t \in Terms, NEW b \in Nat, b = Len(t), NEW e, e = Stale \o t
  PROVE  StaleFirst(e, t, b)
<1>1. PICK s \in Terms : s = Stale /\ Len(s) = 1
  BY StaleIs
<1>2. e = s \o t
  BY <1>1
<1>3. /\ s \o t \in Terms /\ Len(s \o t) = Len(s) + Len(t)
      /\ \A q \in 1..Len(s) : (s \o t)[q] = s[q]
      /\ \A q \in 1..Len(t) : (s \o t)[Len(s) + q] = t[q]
  BY Joined2
<1>4. Len(s) = 1 /\ Len(t) = b /\ s = Stale /\ s \o t = e
  BY <1>1, <1>2
<1> QED BY ONLY <1>3, <1>4, Zenon DEF StaleFirst

(* A complete element is exact.                                            *)
LEMMA CompleteIsExact ==
  ASSUME NEW c, Asked(c), ~Empty(c), NEW name, Runs(c, name)
  PROVE  Exact(c, Complete(c, name))
<1>1. CASE c.op \in {"forward", "quantized"}
  BY <1>1 DEF Exact, Complete
<1>2. CASE c.op = "bf16"
  BY <1>2 DEF Exact, Complete, Empty
<1>3. CASE c.op = "weight"
  BY <1>3 DEF Exact, Complete
<1>4. CASE c.op = "input"
  <2>1. PICK n \in Nat : n = c.n
    BY <1>4 DEF Asked
  <2>2. PICK dot \in Terms : dot = DotTerms(c.n, name) /\ Covers(dot, n)
    <3>1. name \in Widths
      BY <1>4 DEF Runs
    <3>2. Covers(DotTerms(n, name), n)
      BY <3>1, DotTermsCover
    <3> QED BY <2>1, <3>2 DEF Covers
  <2>3. PICK e : e = Complete(c, name) /\ e = Stale \o dot
    BY <1>4, <2>2 DEF Complete
  <2>4. PICK b \in Nat : b = Len(dot)
    BY <2>2, Joined2, StaleIs DEF Covers
  <2>5. dot \in Terms
    OBVIOUS
  <2>6. /\ e \in Terms /\ Len(e) = 1 + b /\ e[1] = {-1}
        /\ \A q \in 1..b : e[1 + q] = dot[q]
    <3>1. /\ e \in Terms /\ Len(e) = 1 + b
          /\ \A q \in 1..1 : e[q] = Stale[q]
          /\ \A q \in 1..b : e[1 + q] = dot[q]
      <4>1. e = Stale \o dot /\ b = Len(dot) /\ b \in Nat /\ dot \in Terms
        BY <2>3, <2>4
      <4>2. StaleFirst(e, dot, b)
        BY ONLY <4>1, StaleThen
      <4> QED BY ONLY <4>2 DEF StaleFirst
    <3>2. 1 \in 1..1
      OBVIOUS
    <3> QED BY <3>1, <3>2, StaleIs
  <2>7. Head(e) = {-1}
    BY <2>6 DEF Terms
  <2>8. ASSUME NEW q \in 2..Len(e)
        PROVE  q - 1 \in 1..b /\ e[q] = dot[q - 1]
    <3>1. PICK p \in 1..b : q = 1 + p /\ p = q - 1
      BY <2>6
    <3> QED BY <3>1, <2>6
  <2>9. ASSUME NEW p \in 1..b PROVE 1 + p \in 2..Len(e) /\ e[1 + p] = dot[p]
    BY <2>6
  <2>10. UNION {e[q] : q \in 2..Len(e)} = 0..(n - 1)
    <3>1. ASSUME NEW x \in UNION {e[q] : q \in 2..Len(e)} PROVE x \in 0..(n - 1)
      <4>1. PICK q \in 2..Len(e) : x \in e[q]
        BY <3>1
      <4>2. \A p \in 1..b : dot[p] \subseteq 0..(n - 1)
        BY <2>2, <2>4 DEF Covers
      <4> QED BY <4>1, <4>2, <2>8
    <3>2. ASSUME NEW x \in 0..(n - 1) PROVE x \in UNION {e[q] : q \in 2..Len(e)}
      <4>1. PICK p \in 1..b : x \in dot[p]
        BY <2>2, <2>4 DEF Covers
      <4> QED BY <4>1, <2>9
    <3> QED BY <3>1, <3>2
  <2>11. ASSUME NEW p \in 1..Len(e), NEW q \in 1..Len(e), p # q
         PROVE  e[p] \cap e[q] = {}
    <3>1. \A x \in 2..Len(e) : e[x] \subseteq 0..(n - 1)
      BY <2>10
    <3>2. {-1} \cap (0..(n - 1)) = {}
      BY <2>1
    <3>3. CASE p = 1
      <4>1. q \in 2..Len(e)
        BY <2>6, <3>3, <2>11
      <4> QED BY <4>1, <3>1, <3>2, <3>3, <2>6
    <3>4. CASE q = 1
      <4>1. p \in 2..Len(e)
        BY <2>6, <3>4, <2>11
      <4> QED BY <4>1, <3>1, <3>2, <3>4, <2>6
    <3>5. CASE p # 1 /\ q # 1
      <4>1. p \in 2..Len(e) /\ q \in 2..Len(e)
        BY <2>6, <3>5
      <4>2. p - 1 # q - 1
        BY <4>1, <2>6, <2>11
      <4>3. \A x, y \in 1..b : x # y => dot[x] \cap dot[y] = {}
        BY <2>2, <2>4 DEF Covers
      <4> QED BY <4>1, <4>2, <4>3, <2>8
    <3> QED BY <3>3, <3>4, <3>5
  <2>12. Exact(c, e)
    BY <1>4, <2>1, <2>7, <2>10, <2>11 DEF Exact
  <2> QED BY <2>3, <2>12
<1> QED BY <1>1, <1>2, <1>3, <1>4 DEF Asked, Operations

(* So is what a product with nothing to compute leaves.                    *)
LEMMA LeftIsExact ==
  ASSUME NEW c, Asked(c), Empty(c), NEW a \in 0..(Rows(c) * Cols(c) - 1)
  PROVE  Exact(c, Left(c))
<1>1. Rows(c) # 0 /\ Cols(c) # 0
  <2>1. PICK R \in Nat, C \in Nat : R = Rows(c) /\ C = Cols(c)
    BY SizesOf
  <2>2. R * C # 0
    <3>1. a \in 0..(R * C - 1)
      BY <2>1
    <3>2. R * C \in Nat
      BY SMT
    <3> QED BY <3>1, <3>2
  <2>3. 0 * C = 0 /\ R * 0 = 0
    OBVIOUS
  <2> QED BY <2>1, <2>2, <2>3
<1>2. CASE c.op \in {"forward", "bf16", "quantized"}
  <2>1. c.m # 0 /\ c.n # 0
    BY <1>1, <1>2 DEF Rows, Cols
  <2>2. c.k = 0 /\ c.op \in {"forward", "bf16"}
    BY <2>1 DEF Empty
  <2> QED BY <2>2, NoTerms DEF Exact, Left
<1>3. CASE c.op = "weight"
  <2>1. c.m = 0
    BY <1>1, <1>3 DEF Rows, Cols, Empty
  <2>2. Stale \o << >> = Stale
    BY StaleIs, NothingJoined
  <2> QED BY <1>3, <2>1, <2>2, NoTerms DEF Exact, Left
<1>4. CASE c.op = "input"
  <2>1. c.n = 0
    BY <1>1, <1>4 DEF Rows, Cols, Empty
  <2>2. Left(c) = Stale
    BY <1>4 DEF Left
  <2>3. Head(Stale) = {-1} /\ Len(Stale) = 1
    BY DEF Stale
  <2>4. UNION {Stale[q] : q \in 2..1} = {} /\ 0..(0 - 1) = {}
    OBVIOUS
  <2>5. \A p, q \in 1..1 : p = q
    OBVIOUS
  <2> QED BY <1>4, <2>1, <2>2, <2>3, <2>4, <2>5 DEF Exact
<1> QED BY <1>2, <1>3, <1>4 DEF Asked, Operations

LEMMA StartProductInv ==
  ASSUME ProductInv, NEW t \in Threads, Start(t)
  PROVE  ProductInv'
<1> DEFINE isa == IF call.op \in {"input", "weight"} THEN kernel ELSE ChunkIsa
<1>1. kernel # NONE /\ flight[t].isa = NONE /\ share[t] # {}
  BY DEF Start, Working
<1>2. PICK blk : /\ blk = (CHOOSE b \in share[t] : \A other \in share[t] : b <= other)
                 /\ flight' = [flight EXCEPT ![t] =
                                 [isa |-> isa, tiles |-> TilesOf(call, kernel, isa, blk)]]
                 /\ share' = [share EXCEPT ![t] = @ \ {blk}]
  BY DEF Start
<1>3. blk \in share[t]
  <2>1. share[t] \subseteq Nat
    BY DEF ProductInv
  <2>2. \E b \in share[t] : \A other \in share[t] : b <= other
    BY <1>1, <2>1, LeastExists
  <2> QED BY <1>2, <2>2
<1>4. kernel' = kernel /\ out' = out /\ call' = call
  BY DEF Start
<1>5. kernel \notin {NONE, "returned"}
  BY <1>1 DEF ProductInv, Resting
<1>6. PICK at \in [Threads -> Nat] : UnderWay(at)
  BY <1>5 DEF ProductInv
<1>7. call \in Calls /\ Asked(call) /\ Runs(call, kernel)
  BY <1>6, CallAsked DEF ProductInv, UnderWay
<1>8. ChunkRuns(call, kernel, isa)
  <2>1. CASE call.op = "forward"
    BY <2>1 DEF ChunkRuns, ChunkIsa, Encoded
  <2>2. CASE call.op \in {"input", "weight"}
    BY <2>2 DEF ChunkRuns
  <2>3. CASE call.op \in {"bf16", "quantized"}
    <3>1. isa = Widest
      BY <2>3 DEF ChunkIsa, Encoded
    <3>2. Widest \in Widths
      BY <1>7, Selected
    <3> HIDE DEF isa
    <3> QED BY <3>1, <3>2, <2>3 DEF ChunkRuns
  <2> QED BY <2>1, <2>2, <2>3, <1>7 DEF Asked, Operations
<1> HIDE DEF isa
<1>9. isa # NONE
  BY <1>7, <1>8, RunningIsas
<1>10. share \in [Threads -> SUBSET Nat] /\ flight = [s \in Threads |-> flight[s]]
  BY DEF ProductInv
<1>11. PICK at2 \in [Threads -> Nat] : at2[t] = blk /\ \A s \in Threads : s # t => at2[s] = at[s]
  <2>1. blk \in Nat
    BY <1>3, <1>10
  <2>2. [at EXCEPT ![t] = blk] \in [Threads -> Nat]
    BY <2>1
  <2> QED BY <2>2
<1>12. /\ share'[t] = share[t] \ {blk}
       /\ flight'[t].isa = isa
       /\ flight'[t].tiles = TilesOf(call, kernel, isa, blk)
       /\ \A s \in Threads : s # t => share'[s] = share[s] /\ flight'[s] = flight[s]
  BY <1>2, <1>10
<1>13. /\ DealtOK(call, kernel, share') /\ InAirOK(call, kernel, share', flight', at2)
       /\ \A b : Unfinished(call, kernel, share', flight', at2, b)
                   <=> Unfinished(call, kernel, share, flight, at, b)
  <2>1. DealtOK(call, kernel, share) /\ InAirOK(call, kernel, share, flight, at)
    BY <1>6 DEF UnderWay
  <2>2. Takes(call, kernel, t, blk, share, flight, at, share', flight', at2)
    BY <2>1, <1>1, <1>3, <1>8, <1>9, <1>11, <1>12 DEF Takes
  <2> QED BY ONLY <2>2, TakeChunk
<1>14. ElementsOK(call, kernel, share', flight', at2, out)
  <2>1. ElementsOK(call, kernel, share, flight, at, out)
    BY <1>6 DEF UnderWay
  <2>2. ASSUME NEW a \in DOMAIN out
        PROVE  out[a] = IF Empty(call) THEN Left(call)
                        ELSE IF Unfinished(call, kernel, share', flight', at2,
                                           OwnerAt(call, kernel, a))
                        THEN Blank(call) ELSE Complete(call, kernel)
    <3>1. out[a] = IF Empty(call) THEN Left(call)
                   ELSE IF Unfinished(call, kernel, share, flight, at, OwnerAt(call, kernel, a))
                   THEN Blank(call) ELSE Complete(call, kernel)
      BY <2>1 DEF ElementsOK
    <3>2. Unfinished(call, kernel, share', flight', at2, OwnerAt(call, kernel, a))
            <=> Unfinished(call, kernel, share, flight, at, OwnerAt(call, kernel, a))
      BY <1>13
    <3> QED BY <3>1, <3>2
  <2> QED BY <2>2 DEF ElementsOK
<1>15. UnderWay(at2)'
  <2>1. Runs(call', kernel') /\ DealtOK(call', kernel', share')
    BY <1>4, <1>7, <1>13
  <2>2. InAirOK(call', kernel', share', flight', at2)
    BY <1>4, <1>13
  <2>3. ElementsOK(call', kernel', share', flight', at2, out')
    BY <1>4, <1>14
  <2> QED BY <2>1, <2>2, <2>3 DEF UnderWay
<1>16. share' \in [Threads -> SUBSET Nat] /\ flight' = [s \in Threads |-> flight'[s]]
  BY <1>2, <1>10
<1>17. /\ call' \in Calls
       /\ DOMAIN out' = 0..(Rows(call') * Cols(call') - 1)
       /\ kernel' \notin {NONE, "returned"}
  BY <1>4, <1>5 DEF ProductInv
<1> QED BY <1>15, <1>16, <1>17 DEF ProductInv

LEMMA FinishProductInv ==
  ASSUME ProductInv, NEW t \in Threads, Finish(t)
  PROVE  ProductInv'
<1>1. /\ flight[t].isa # NONE
      /\ out' = Updated(flight[t].tiles, flight[t].isa)
      /\ flight' = [flight EXCEPT ![t] = Idling]
      /\ call' = call /\ kernel' = kernel /\ share' = share
  BY DEF Finish, Working
<1>2. kernel \notin {NONE, "returned"}
  BY <1>1 DEF ProductInv, Resting
<1>3. PICK at \in [Threads -> Nat] : UnderWay(at)
  BY <1>2 DEF ProductInv
<1>4. call \in Calls /\ Asked(call) /\ Runs(call, kernel)
  BY <1>3, CallAsked DEF ProductInv, UnderWay
<1>5. /\ at[t] \in 0..(Count(call, kernel) - 1)
      /\ ChunkRuns(call, kernel, flight[t].isa)
      /\ flight[t].tiles = TilesOf(call, kernel, flight[t].isa, at[t])
  BY <1>1, <1>3 DEF UnderWay, InAirOK
<1>6. ~Empty(call)
  BY <1>5 DEF Count
<1>7. at[t] \in 0..(Chunks(call, kernel) - 1)
  BY <1>5, <1>6 DEF Count
<1>8. Serves(call, kernel, flight[t].tiles, at[t])
  BY <1>4, <1>5, <1>6, <1>7, ChunkServes
<1>9. DOMAIN out = 0..(Rows(call) * Cols(call) - 1) /\ DOMAIN out' = DOMAIN out
  BY <1>1 DEF ProductInv, Updated
<1>10. flight = [s \in Threads |-> flight[s]]
  BY DEF ProductInv
<1>11. /\ flight'[t].isa = NONE /\ \A s \in Threads : s # t => flight'[s] = flight[s]
       /\ flight' = [s \in Threads |-> flight'[s]]
  BY <1>1, <1>10 DEF Idling
<1>12. ASSUME Chunks(call, kernel) \in Nat
       PROVE  /\ InAirOK(call, kernel, share, flight', at)
              /\ Unfinished(call, kernel, share, flight, at, at[t])
              /\ ~Unfinished(call, kernel, share, flight', at, at[t])
              /\ \A b : b # at[t] =>
                   (Unfinished(call, kernel, share, flight', at, b)
                      <=> Unfinished(call, kernel, share, flight, at, b))
  <2>1. InAirOK(call, kernel, share, flight, at)
    BY <1>3 DEF UnderWay
  <2>2. Hands(call, kernel, t, share, flight, at, flight')
    BY <2>1, <1>1, <1>6, <1>11, <1>12 DEF Hands
  <2> QED BY ONLY <2>2, ChunkDone
<1>13. Chunks(call, kernel) \in Nat
  BY <1>4, <1>6, ChunksCounted
<1>14. ASSUME NEW a \in DOMAIN out'
       PROVE  out'[a] = IF Empty(call) THEN Left(call)
                        ELSE IF Unfinished(call, kernel, share, flight', at, OwnerAt(call, kernel, a))
                        THEN Blank(call) ELSE Complete(call, kernel)
  <2> DEFINE owner == OwnerAt(call, kernel, a)
             segments == Passes(call, kernel, flight[t].isa)
  <2>1. a \in 0..(Rows(call) * Cols(call) - 1) /\ a \in DOMAIN out
    BY <1>9
  <2>2. out'[a] = Accumulated(call, segments, flight[t].tiles, a, out[a])
    BY <1>1, <2>1 DEF Updated
  <2>3. /\ owner # at[t] => out'[a] = out[a]
        /\ (owner = at[t] /\ out[a] = Blank(call)) => out'[a] = Complete(call, kernel)
    BY <2>1, <2>2, <1>4, <1>5, <1>6, <1>8, ElementAccumulates
  <2>4. out[a] = IF Unfinished(call, kernel, share, flight, at, owner)
                 THEN Blank(call) ELSE Complete(call, kernel)
    BY <1>3, <1>6, <2>1 DEF UnderWay, ElementsOK
  <2> HIDE DEF owner
  <2>5. CASE owner = at[t]
    BY <2>3, <2>4, <2>5, <1>12, <1>13, <1>6 DEF owner
  <2>6. CASE owner # at[t]
    BY <2>3, <2>4, <2>6, <1>12, <1>13, <1>6 DEF owner
  <2> QED BY <2>5, <2>6
<1>15. UnderWay(at)'
  <2>1. DealtOK(call, kernel, share)
    BY <1>3 DEF UnderWay
  <2>2. Runs(call', kernel') /\ DealtOK(call', kernel', share')
    BY <1>1, <1>4, <2>1
  <2>3. InAirOK(call', kernel', share', flight', at)
    BY <1>1, <1>12, <1>13
  <2>4. ElementsOK(call, kernel, share, flight', at, out')
    BY <1>14 DEF ElementsOK
  <2>5. ElementsOK(call', kernel', share', flight', at, out')
    BY <1>1, <2>4
  <2> QED BY <2>2, <2>3, <2>5 DEF UnderWay
<1>16. /\ call' \in Calls
       /\ DOMAIN out' = 0..(Rows(call') * Cols(call') - 1)
       /\ share' \in [Threads -> SUBSET Nat]
       /\ kernel' \notin {NONE, "returned"}
  BY <1>1, <1>2, <1>9 DEF ProductInv
<1> QED BY <1>11, <1>15, <1>16 DEF ProductInv

LEMMA ReturnProductInv ==
  ASSUME ProductInv, Return
  PROVE  ProductInv'
<1>1. /\ kernel \notin {NONE, "returned"}
      /\ \A t \in Threads : share[t] = {} /\ flight[t].isa = NONE
      /\ out' = IF call.op = "weight" /\ ~Empty(call)
                THEN Updated(Remainder(call, kernel), kernel) ELSE out
      /\ kernel' = "returned" /\ call' = call /\ share' = share /\ flight' = flight
  BY DEF Return, Joined, Working
<1>2. PICK at \in [Threads -> Nat] : UnderWay(at)
  BY <1>1 DEF ProductInv
<1>3. call \in Calls /\ Asked(call) /\ Runs(call, kernel)
  BY <1>2, CallAsked DEF ProductInv, UnderWay
<1>4. DOMAIN out = 0..(Rows(call) * Cols(call) - 1) /\ DOMAIN out' = DOMAIN out
  BY <1>1 DEF ProductInv, Updated
<1>5. \A b : Unfinished(call, kernel, share, flight, at, b) <=> b = Chunks(call, kernel)
  BY <1>1 DEF Unfinished
<1>6. ASSUME NEW a \in DOMAIN out' PROVE Exact(call, out'[a])
  <2>1. a \in 0..(Rows(call) * Cols(call) - 1) /\ a \in DOMAIN out
    BY <1>4
  <2>2. CASE Empty(call)
    <3>1. out'[a] = Left(call)
      BY <1>1, <1>2, <2>1, <2>2 DEF UnderWay, ElementsOK
    <3> QED BY <3>1, <2>1, <2>2, <1>3, LeftIsExact
  <2>3. CASE ~Empty(call)
    <3>1. out[a] = IF OwnerAt(call, kernel, a) = Chunks(call, kernel)
                   THEN Blank(call) ELSE Complete(call, kernel)
      BY <1>2, <1>5, <2>1, <2>3 DEF UnderWay, ElementsOK
    <3>2. out'[a] = Complete(call, kernel)
      <4>1. CASE call.op # "weight"
        <5>1. OwnerAt(call, kernel, a) # Chunks(call, kernel)
          BY <4>1, <2>1, <2>3, <1>3, OwnerAtInRange
        <5> QED BY <5>1, <4>1, <3>1, <1>1
      <4>2. CASE call.op = "weight"
        <5>1. kernel \in Widths /\ ChunkRuns(call, kernel, kernel)
          BY <4>2, <1>3 DEF Runs, ChunkRuns
        <5>2. Serves(call, kernel, Remainder(call, kernel), Chunks(call, kernel))
          BY <4>2, <5>1, <1>3, RemainderServes
        <5>3. out'[a] = Accumulated(call, Passes(call, kernel, kernel), Remainder(call, kernel), a, out[a])
          BY <1>1, <2>1, <2>3, <4>2 DEF Updated
        <5> QED BY <5>1, <5>2, <5>3, <3>1, <2>1, <2>3, <1>3, ElementAccumulates
      <4> QED BY <4>1, <4>2
    <3> QED BY <3>2, <2>3, <1>3, CompleteIsExact
  <2> QED BY <2>2, <2>3
<1>7. Resting' /\ \A a \in DOMAIN out' : Exact(call', out'[a])
  BY <1>1, <1>6 DEF Resting
<1>8. /\ call' \in Calls
      /\ DOMAIN out' = 0..(Rows(call') * Cols(call') - 1)
      /\ share' \in [Threads -> SUBSET Nat]
      /\ flight' = [s \in Threads |-> flight'[s]]
  BY <1>1, <1>4 DEF ProductInv
<1>9. kernel' # NONE
  BY <1>1, MatmulKernelsAssumption
<1> QED BY <1>1, <1>7, <1>8, <1>9 DEF ProductInv

LEMMA StutterProductInv ==
  ASSUME ProductInv, UNCHANGED <<call, kernel, out, share, flight>>
  PROVE  ProductInv'
<1>1. /\ call' \in Calls
      /\ DOMAIN out' = 0..(Rows(call') * Cols(call') - 1)
      /\ share' \in [Threads -> SUBSET Nat]
      /\ flight' = [s \in Threads |-> flight'[s]]
  BY DEF ProductInv
<1>2. /\ kernel' = NONE => Resting' /\ \A a \in DOMAIN out' : out'[a] = Stale
      /\ kernel' = "returned" => Resting' /\ \A a \in DOMAIN out' : Exact(call', out'[a])
  BY DEF ProductInv, Resting
<1>3. ASSUME kernel' \notin {NONE, "returned"} PROVE \E at \in [Threads -> Nat] : UnderWay(at)'
  <2>1. PICK at \in [Threads -> Nat] : UnderWay(at)
    BY <1>3 DEF ProductInv
  <2>2. UnderWay(at)'
    BY <2>1 DEF UnderWay
  <2> QED BY <2>2
<1> QED BY <1>1, <1>2, <1>3 DEF ProductInv

(* Two chunks share no element.                                            *)
LEMMA ChunksApart ==
  ASSUME Asked(call), NEW name, NEW A, NEW B, NEW a, NEW b, a # b,
         Serves(call, name, A, a), Serves(call, name, B, b)
  PROVE  Touched(A) \cap Touched(B) = {}
<1> SUFFICES ASSUME NEW x \in Touched(A), x \in Touched(B) PROVE FALSE
  OBVIOUS
<1>1. PICK t \in A : x \in {i * Cols(call) + j : i \in t.rows, j \in t.cols}
  BY DEF Touched
<1>2. PICK i \in t.rows, j \in t.cols : x = i * Cols(call) + j
  BY <1>1
<1>3. PICK u \in B : x \in {p * Cols(call) + q : p \in u.rows, q \in u.cols}
  BY DEF Touched
<1>4. PICK p \in u.rows, q \in u.cols : x = p * Cols(call) + q
  BY <1>3
<1>5. PICK R \in Nat, C \in Nat : R = Rows(call) /\ C = Cols(call)
  BY SizesOf
<1>6. i \in 0..(R - 1) /\ j \in 0..(C - 1) /\ p \in 0..(R - 1) /\ q \in 0..(C - 1)
  BY <1>5 DEF Serves
<1>7. p * C + q = i * C + j
  BY <1>2, <1>4, <1>5
<1>8. p = i /\ q = j
  BY ONLY <1>6, <1>7, AddressUnique, R \in Nat, C \in Nat
<1>9. Owner(call, name, i, j) = a
  BY <1>2, <1>5, <1>6 DEF Serves
<1>10. Owner(call, name, i, j) = b
  BY <1>4, <1>5, <1>6, <1>8 DEF Serves
<1> QED BY <1>9, <1>10

LEMMA ProductInvIsExact == ProductInv => ProductIsExact
<1> SUFFICES ASSUME ProductInv PROVE ProductIsExact
  OBVIOUS
<1>1. ASSUME NEW s \in Threads, NEW t \in Threads, s # t, Working(s), Working(t)
      PROVE  Touched(flight[s].tiles) \cap Touched(flight[t].tiles) = {}
  <2>1. flight[s].isa # NONE /\ flight[t].isa # NONE
    BY <1>1 DEF Working
  <2>2. kernel \notin {NONE, "returned"}
    BY <2>1 DEF ProductInv, Resting
  <2>3. PICK at \in [Threads -> Nat] : UnderWay(at)
    BY <2>2 DEF ProductInv
  <2>4. Asked(call) /\ Runs(call, kernel)
    BY <2>3, CallAsked DEF ProductInv, UnderWay
  <2>5. ASSUME NEW x \in {s, t} PROVE Serves(call, kernel, flight[x].tiles, at[x])
    <3>1. x \in Threads /\ flight[x].isa # NONE
      BY <2>1
    <3>2. /\ at[x] \in 0..(Count(call, kernel) - 1)
          /\ ChunkRuns(call, kernel, flight[x].isa)
          /\ flight[x].tiles = TilesOf(call, kernel, flight[x].isa, at[x])
      BY <2>3, <3>1 DEF UnderWay, InAirOK
    <3>3. ~Empty(call) /\ at[x] \in 0..(Chunks(call, kernel) - 1)
      BY <3>2 DEF Count
    <3> QED BY <2>4, <3>2, <3>3, ChunkServes
  <2>6. at[s] # at[t]
    BY <1>1, <2>1, <2>3 DEF UnderWay, InAirOK
  <2> QED BY <2>4, <2>5, <2>6, ChunksApart
<1>2. kernel = "returned" => \A a \in DOMAIN out : Exact(call, out[a])
  BY DEF ProductInv
<1> QED BY <1>1, <1>2 DEF ProductIsExact

LEMMA StepProductInv == ProductInv /\ [ProductNext]_productVars => ProductInv'
<1> SUFFICES ASSUME ProductInv, [ProductNext]_productVars PROVE ProductInv'
  OBVIOUS
<1>1. CASE Enter
  BY <1>1, EnterProductInv
<1>2. CASE Return
  BY <1>2, ReturnProductInv
<1>3. CASE \E t \in Threads : Start(t)
  BY <1>3, StartProductInv
<1>4. CASE \E t \in Threads : Finish(t)
  BY <1>4, FinishProductInv
<1>5. CASE UNCHANGED <<call, kernel, out, share, flight>>
  BY <1>5, StutterProductInv
<1> QED BY <1>1, <1>2, <1>3, <1>4, <1>5 DEF ProductNext, productVars

(* Whatever the call, its kernel, its tile and its team: no two chunks in  *)
(* flight share an element of the output, and when the call returns every  *)
(* element has every term exactly once, in the order of the serial loop    *)
(* where the result must be bit-exact.                                     *)
THEOREM ProductsAreExact == ProductSpec => []ProductIsExact
<1>1. ProductInit => ProductInv
  BY InitProductInv
<1>2. ProductInv /\ [ProductNext]_productVars => ProductInv'
  BY StepProductInv
<1>3. ProductInv => ProductIsExact
  BY ProductInvIsExact
<1> QED BY <1>1, <1>2, <1>3, PTL DEF ProductSpec

-----------------------------------------------------------------------------
(* Only what the processor executes is ever in the shared table, chosen    *)
(* for a product, or in flight.                                            *)
Usable(isa) == isa \in Isas /\ Needs[isa] \subseteq cpu

ExecInv ==
  /\ cpu \in Cpus
  /\ \A isa \in supported : Usable(isa)
  /\ (kernel \notin {NONE, "returned"} /\ call.op = "forward") => Usable(KernelIsa(kernel))
  /\ (kernel \notin {NONE, "returned"} /\ call.op \in {"input", "weight"}) => Usable(kernel)
  /\ \A t \in Threads : flight[t].isa # NONE => Usable(flight[t].isa)

LEMMA NeedsOf ==
  /\ Needs["baseline"] = {}
  /\ Needs["avx2"] = {"osxsave", "avx", "avx2", "fma", "ymm"}
  /\ Needs["avx512"] = {"osxsave", "avx512f", "avx512vl", "zmm"}
  /\ Needs["neon"] = {"arm"}
  BY DEF Needs

LEMMA AvailableIsUsable ==
  ASSUME ExecInv, NEW isa \in Isas, Available(isa)
  PROVE  Usable(isa)
<1>1. CASE isa = "baseline"
  BY <1>1, NeedsOf DEF Usable
<1>2. CASE isa \in supported
  BY <1>2 DEF ExecInv
<1> QED BY <1>1, <1>2 DEF Available

LEMMA KernelIsaIn == \A name : KernelIsa(name) \in Isas
  BY DEF KernelIsa, Isas

LEMMA ChosenIsUsable ==
  ASSUME ExecInv
  PROVE  /\ Usable(Widest)
         /\ \A c : Usable(KernelIsa(Resolved(c)))
<1>1. Usable("baseline")
  BY NeedsOf DEF Usable, Isas
<1>2. Usable(Widest)
  <2>1. Available("avx512") => Usable("avx512")
    BY AvailableIsUsable DEF Isas
  <2>2. Available("avx2") => Usable("avx2")
    BY AvailableIsUsable DEF Isas
  <2> QED BY <1>1, <2>1, <2>2, Zenon DEF Widest
<1>3. ASSUME NEW name, KernelAvailable(name) PROVE Usable(KernelIsa(name))
  BY <1>3, KernelIsaIn, AvailableIsUsable DEF KernelAvailable
<1>4. KernelIsa("tiled_mr4") = "baseline"
  BY DEF KernelIsa
<1>5. ASSUME NEW c PROVE Usable(KernelIsa(Resolved(c)))
  <2>1. Resolved(c) = "tiled_mr4" \/ KernelAvailable(Resolved(c))
    BY DEF Resolved
  <2> QED BY <2>1, <1>1, <1>3, <1>4
<1> QED BY <1>2, <1>5

LEMMA InitExecInv == ProductInit => ExecInv
  BY DEF ProductInit, DetectionInit, ExecInv, Idling

LEMMA DetectExecInv ==
  ASSUME ExecInv, NEW t \in Threads, Detect(t), UNCHANGED <<call, kernel, flight>>
  PROVE  ExecInv'
<1>1. cpu' = cpu
  BY DEF Detect, Query, Clear, ProbeAvx2, ProbeAvx512, Cap, ApplyEnvironmentCap, Publish
<1>2. ASSUME NEW isa \in supported' PROVE Usable(isa)
  <2>1. CASE Clear(t)
    BY <1>2, <2>1, NeedsOf DEF Clear, Usable, Isas
  <2>2. CASE ProbeAvx2(t)
    <3>1. CASE isa = "neon" /\ "arm" \in cpu
      BY <3>1, NeedsOf DEF Usable, Isas
    <3>2. CASE isa = "avx2" /\ Avx2Usable
      BY <3>2, NeedsOf DEF Usable, Isas, Avx2Usable
    <3>3. CASE isa \in supported
      BY <3>3 DEF ExecInv
    <3> QED BY <1>2, <2>2, <3>1, <3>2, <3>3 DEF ProbeAvx2, With
  <2>3. CASE ProbeAvx512(t)
    <3>1. CASE isa = "avx512" /\ "avx2" \in supported /\ Avx512Usable
      <4>1. "osxsave" \in cpu
        <5>1. Needs["avx2"] \subseteq cpu
          BY <3>1 DEF ExecInv, Usable
        <5> QED BY <5>1, NeedsOf
      <4> QED BY <4>1, <3>1, NeedsOf DEF Usable, Isas, Avx512Usable
    <3>2. CASE isa \in supported
      BY <3>2 DEF ExecInv
    <3> QED BY <1>2, <2>3, <3>1, <3>2 DEF ProbeAvx512, With
  <2>4. CASE supported' = supported
    BY <1>2, <2>4 DEF ExecInv
  <2> QED BY <2>1, <2>2, <2>3, <2>4
            DEF Detect, Query, Cap, ApplyEnvironmentCap, Publish
<1> QED BY <1>1, <1>2 DEF ExecInv, Usable

LEMMA EnterExecInv == ExecInv /\ ProductInv /\ Enter => ExecInv'
<1> SUFFICES ASSUME ExecInv, ProductInv, Enter PROVE ExecInv'
  OBVIOUS
<1>1. /\ kernel' = CASE call.op = "forward" -> Resolved(call)
                     [] Encoded(call) -> "encoded"
                     [] OTHER -> Widest
      /\ call' = call /\ flight' = flight /\ cpu' = cpu /\ supported' = supported
  BY DEF Enter, detection
<1>2. call.op = "forward" => kernel' = Resolved(call)
  BY <1>1 DEF Encoded
<1>3. call.op \in {"input", "weight"} => kernel' = Widest
  BY <1>1 DEF Encoded
<1> QED BY <1>1, <1>2, <1>3, ChosenIsUsable DEF ExecInv, Usable

LEMMA StartExecInv ==
  ASSUME ExecInv, ProductInv, NEW t \in Threads, Start(t)
  PROVE  ExecInv'
<1> DEFINE isa == IF call.op \in {"input", "weight"} THEN kernel ELSE ChunkIsa
<1>1. /\ kernel # NONE /\ share[t] # {}
      /\ call' = call /\ kernel' = kernel /\ cpu' = cpu /\ supported' = supported
  BY DEF Start, detection
<1>2. PICK tiles : flight' = [flight EXCEPT ![t] = [isa |-> isa, tiles |-> tiles]]
  BY DEF Start
<1>3. kernel \notin {NONE, "returned"}
  BY <1>1 DEF ProductInv, Resting
<1>4. Usable(isa)
  <2>1. CASE call.op \in {"input", "weight"}
    BY <2>1, <1>3 DEF ExecInv
  <2>2. CASE Encoded(call)
    <3>1. isa = Widest
      BY <2>2 DEF ChunkIsa, Encoded
    <3> HIDE DEF isa
    <3> QED BY <3>1, ChosenIsUsable
  <2>3. CASE call.op = "forward"
    <3>1. isa = KernelIsa(kernel)
      BY <2>3 DEF ChunkIsa, Encoded
    <3> HIDE DEF isa
    <3> QED BY <3>1, <2>3, <1>3 DEF ExecInv
  <2>4. Asked(call)
    BY CallAsked DEF ProductInv
  <2> QED BY <2>1, <2>2, <2>3, <2>4 DEF Encoded, Asked, Operations
<1> HIDE DEF isa
<1>5. \A s \in Threads : flight'[s].isa # NONE => Usable(flight'[s].isa)
  <2>1. flight = [s \in Threads |-> flight[s]]
    BY DEF ProductInv
  <2> QED BY <1>2, <1>4, <2>1 DEF ExecInv
<1> QED BY <1>1, <1>5 DEF ExecInv, Usable

LEMMA FinishExecInv ==
  ASSUME ExecInv, ProductInv, NEW t \in Threads, Finish(t)
  PROVE  ExecInv'
<1>1. /\ flight' = [flight EXCEPT ![t] = Idling]
      /\ call' = call /\ kernel' = kernel /\ cpu' = cpu /\ supported' = supported
  BY DEF Finish, detection
<1>2. \A s \in Threads : flight'[s].isa # NONE => Usable(flight'[s].isa)
  <2>1. flight = [s \in Threads |-> flight[s]]
    BY DEF ProductInv
  <2> QED BY <1>1, <2>1 DEF ExecInv, Idling
<1> QED BY <1>1, <1>2 DEF ExecInv, Usable

LEMMA StepExecInv == ExecInv /\ ProductInv /\ [ProductNext]_productVars => ExecInv'
<1> SUFFICES ASSUME ExecInv, ProductInv, [ProductNext]_productVars PROVE ExecInv'
  OBVIOUS
<1>1. CASE Enter
  BY <1>1, EnterExecInv
<1>2. CASE Return
  BY <1>2 DEF Return, detection, ExecInv, Usable
<1>3. CASE \E t \in Threads : Start(t)
  BY <1>3, StartExecInv
<1>4. CASE \E t \in Threads : Finish(t)
  BY <1>4, FinishExecInv
<1>5. CASE \E t \in Threads : Detect(t) /\ UNCHANGED <<call, kernel, out, share, flight>>
  BY <1>5, DetectExecInv
<1>6. CASE UNCHANGED productVars
  BY <1>6 DEF productVars, detection, ExecInv, Usable
<1> QED BY <1>1, <1>2, <1>3, <1>4, <1>5, <1>6 DEF ProductNext

LEMMA ExecInvIsExecutable == ExecInv => ExecutableHere
<1> SUFFICES ASSUME ExecInv, NEW t \in Threads, Working(t)
             PROVE  /\ Needs[flight[t].isa] \subseteq cpu
                    /\ flight[t].isa = "avx512" => "avx512bw" \in cpu
  BY DEF ExecutableHere
<1>1. Usable(flight[t].isa)
  BY DEF Working, ExecInv
<1>2. cpu \in Cpus
  BY DEF ExecInv
<1>3. ASSUME flight[t].isa = "avx512" PROVE "avx512bw" \in cpu
  <2>1. "avx512vl" \in cpu
    BY <1>1, <1>3, NeedsOf DEF Usable
  <2> QED BY <2>1, <1>2, MatmulKernelsAssumption
<1> QED BY <1>1, <1>3 DEF Usable

(* Whatever the processor, the cap and the interleaving of the first       *)
(* queries, no kernel in flight needs an instruction the processor lacks.  *)
THEOREM KernelsAreExecutable == ProductSpec => []ExecutableHere
<1>1. ProductInit => ProductInv /\ ExecInv
  BY InitProductInv, InitExecInv
<1>2. ProductInv /\ ExecInv /\ [ProductNext]_productVars => ProductInv' /\ ExecInv'
  BY StepProductInv, StepExecInv
<1>3. ExecInv => ExecutableHere
  BY ExecInvIsExecutable
<1> QED BY <1>1, <1>2, <1>3, PTL DEF ProductSpec

-----------------------------------------------------------------------------
(* Numbers modulo Modulo.                                                  *)

LEMMA ModuloIs ==
  Modulo \in Nat \ {0}
BY TrainingStepAssumption

LEMMA ReducedType ==
  ASSUME NEW a \in Int
  PROVE  Reduced(a) \in 0..(Modulo - 1) /\ Reduced(a) \in Int /\ Reduced(Reduced(a)) = Reduced(a)
<1>1. Rest(Rest(a, Modulo), Modulo) = Rest(a, Modulo) /\ Rest(a, Modulo) \in 0..(Modulo - 1)
  BY ModuloIs, RestAgain
<1>2. Modulo \in Nat
  BY ModuloIs
<1> QED BY <1>1, <1>2 DEF Rest, Reduced

LEMMA ReducedPlus ==
  ASSUME NEW a \in Int, NEW b \in Int, NEW c \in Int, NEW d \in Int,
         Reduced(a) = Reduced(b), Reduced(c) = Reduced(d)
  PROVE  Reduced(a + c) = Reduced(b + d)
<1>1. \A x : Reduced(x) = Rest(x, Modulo)
  BY DEF Reduced, Rest
<1>2. Rest(a, Modulo) = Rest(b, Modulo) /\ Rest(c, Modulo) = Rest(d, Modulo)
  BY <1>1
<1> QED BY <1>1, <1>2, ModuloIs, RestPlus

LEMMA ReducedTimes ==
  ASSUME NEW a \in Int, NEW b \in Int, NEW c \in Int, NEW d \in Int,
         Reduced(a) = Reduced(b), Reduced(c) = Reduced(d)
  PROVE  Reduced(a * c) = Reduced(b * d)
<1>1. \A x : Reduced(x) = Rest(x, Modulo)
  BY DEF Reduced, Rest
<1>2. Rest(a, Modulo) = Rest(b, Modulo) /\ Rest(c, Modulo) = Rest(d, Modulo)
  BY <1>1
<1> QED BY <1>1, <1>2, ModuloIs, RestTimes

LEMMA ReducedBeside ==
  ASSUME NEW a \in Int, NEW b \in Int, NEW c \in Int, Reduced(a) = Reduced(b)
  PROVE  /\ Reduced(a + c) = Reduced(b + c)
         /\ Reduced(a * c) = Reduced(b * c)
<1> DEFINE d == c
<1>1. d \in Int /\ Reduced(c) = Reduced(d)
  OBVIOUS
<1> HIDE DEF d
<1>2. Reduced(a + c) = Reduced(b + d)
  BY <1>1, ReducedPlus
<1>3. Reduced(a * c) = Reduced(b * d)
  BY <1>1, ReducedTimes
<1> QED BY <1>2, <1>3 DEF d

(* What is reduced inside a sum or a product need not be.                  *)
LEMMA ReducedInside ==
  ASSUME NEW a \in Int, NEW b \in Int
  PROVE  /\ Reduced(a + Reduced(b)) = Reduced(a + b)
         /\ Reduced(Reduced(b) + a) = Reduced(b + a)
         /\ Reduced(a * Reduced(b)) = Reduced(a * b)
         /\ Reduced(Reduced(b) * a) = Reduced(b * a)
<1>1. Reduced(b) \in Int /\ Reduced(Reduced(b)) = Reduced(b)
  BY ReducedType
<1>2. Reduced(a + Reduced(b)) = Reduced(a + b)
  BY <1>1, ReducedPlus
<1>3. Reduced(Reduced(b) + a) = Reduced(b + a)
  BY <1>1, ReducedPlus
<1>4. Reduced(a * Reduced(b)) = Reduced(a * b)
  BY <1>1, ReducedTimes
<1>5. Reduced(Reduced(b) * a) = Reduced(b * a)
  BY <1>1, ReducedTimes
<1> QED BY <1>2, <1>3, <1>4, <1>5

LEMMA ReducedSum ==
  ASSUME NEW n \in Nat, NEW f, NEW g,
         \A i \in 1..n : f[i] \in Int /\ g[i] \in Int /\ Reduced(f[i]) = Reduced(g[i])
  PROVE  Reduced(SumOf(f, n)) = Reduced(SumOf(g, n))
<1>1. \A x : Reduced(x) = Rest(x, Modulo)
  BY DEF Reduced, Rest
<1>2. SameRests(f, g, n, Modulo)
  BY <1>1 DEF SameRests
<1>3. Rest(SumOf(f, n), Modulo) = Rest(SumOf(g, n), Modulo)
  BY <1>2, ModuloIs, SumRest
<1> QED BY <1>1, <1>3

(* Sums whose terms are each a sum of two, or of four, up to a multiple.   *)
LEMMA ReducedSumOfTwo ==
  ASSUME NEW n \in Nat, NEW h, NEW f, NEW g,
         \A i \in 1..n : /\ h[i] \in Int /\ f[i] \in Int /\ g[i] \in Int
                         /\ Reduced(h[i]) = Reduced(f[i] + g[i])
  PROVE  Reduced(SumOf(h, n)) = Reduced(SumOf(f, n) + SumOf(g, n))
<1> DEFINE s == [i \in 1..n |-> f[i] + g[i]]
<1>1. \A i \in 1..n : s[i] = f[i] + g[i]
  OBVIOUS
<1> HIDE DEF s
<1>2. \A i \in 1..n : s[i] \in Int /\ Reduced(h[i]) = Reduced(s[i])
  BY <1>1
<1>3. Reduced(SumOf(h, n)) = Reduced(SumOf(s, n))
  BY <1>2, ReducedSum
<1>4. SumOf(s, n) = SumOf(f, n) + SumOf(g, n)
  BY <1>1, SumPlus
<1> QED BY <1>3, <1>4

SumsOfFour(h, a, b, c, d, n) ==
  \A i \in 1..n : /\ h[i] \in Int /\ a[i] \in Int /\ b[i] \in Int /\ c[i] \in Int /\ d[i] \in Int
                  /\ Reduced(h[i]) = Reduced(a[i] + b[i] + c[i] + d[i])

LEMMA ReducedSumOfFour ==
  ASSUME NEW n \in Nat, NEW h, NEW a, NEW b, NEW c, NEW d, SumsOfFour(h, a, b, c, d, n)
  PROVE  Reduced(SumOf(h, n)) = Reduced(SumOf(a, n) + SumOf(b, n) + SumOf(c, n) + SumOf(d, n))
<1> DEFINE f == [i \in 1..n |-> a[i] + b[i]]
           g == [i \in 1..n |-> c[i] + d[i]]
<1>1. \A i \in 1..n : f[i] = a[i] + b[i] /\ g[i] = c[i] + d[i]
  OBVIOUS
<1> HIDE DEF f, g
<1>2. ASSUME NEW i \in 1..n
      PROVE  f[i] \in Int /\ g[i] \in Int /\ h[i] \in Int /\ Reduced(h[i]) = Reduced(f[i] + g[i])
  <2>1. /\ h[i] \in Int /\ a[i] \in Int /\ b[i] \in Int /\ c[i] \in Int /\ d[i] \in Int
        /\ Reduced(h[i]) = Reduced(a[i] + b[i] + c[i] + d[i])
    BY DEF SumsOfFour
  <2>2. a[i] + b[i] + c[i] + d[i] = (a[i] + b[i]) + (c[i] + d[i])
    BY <2>1
  <2> QED BY <1>1, <2>1, <2>2
<1>3. Reduced(SumOf(h, n)) = Reduced(SumOf(f, n) + SumOf(g, n))
  BY <1>2, ReducedSumOfTwo
<1>0. \A i \in 1..n : a[i] \in Int /\ b[i] \in Int /\ c[i] \in Int /\ d[i] \in Int
  BY DEF SumsOfFour
<1>4. SumOf(f, n) = SumOf(a, n) + SumOf(b, n)
  BY <1>0, <1>1, SumPlus
<1>5. SumOf(g, n) = SumOf(c, n) + SumOf(d, n)
  BY <1>0, <1>1, SumPlus
<1>6. SumOf(a, n) \in Int /\ SumOf(b, n) \in Int /\ SumOf(c, n) \in Int /\ SumOf(d, n) \in Int
  BY <1>0, SumInInt
<1>7. (SumOf(a, n) + SumOf(b, n)) + (SumOf(c, n) + SumOf(d, n))
        = SumOf(a, n) + SumOf(b, n) + SumOf(c, n) + SumOf(d, n)
  BY <1>6
<1> QED BY <1>3, <1>4, <1>5, <1>7

(* A listed function is the function.                                      *)
LEMMA ListedIs ==
  ASSUME NEW n \in Nat, NEW f, f = [i \in 1..n |-> f[i]]
  PROVE  Listed(f) = f
<1> DEFINE S == {f[i] : i \in 1..n}
<1>1. f \in [1..n -> S]
  OBVIOUS
<1> HIDE DEF S
<1>2. f \in Seq(S)
  BY <1>1, IsASeq
<1> QED BY <1>2, ConcatEmptySeq DEF Listed

-----------------------------------------------------------------------------
(* A pass, and the numbers it leaves.                                      *)

IsPass(p) ==
  /\ IsNet(p.net) /\ p.window \in WindowType
  /\ p.draw \in 0..Most /\ p.steps \in 0..Most

IsRow(p, f) == \A i \in RowsOf(p) : f[i] \in Int

LEMMA PassIs ==
  ASSUME NEW p, IsPass(p)
  PROVE  /\ p.window.len \in Nat /\ p.window.len \in 1..MaxLen /\ MaxLen \in Nat
         /\ RowsOf(p) = 1..p.window.len
         /\ p.net.layers \in Nat /\ p.net.layers >= 1 /\ p.net.layers + 1 \in 0..Most
         /\ \A l \in 1..p.net.layers : l \in 0..Most
         /\ \A i \in RowsOf(p) : i \in 0..Most /\ i \in Positions
         /\ \A v \in Vocab : v \in 0..Most
         /\ VocabSize \in Nat /\ 1 \in Vocab
<1>1. Most \in Nat /\ MaxLen \in 1..Most /\ VocabSize \in 1..Most
  BY TrainingStepAssumption
<1>2. p.window.len \in 1..MaxLen
  BY DEF IsPass, WindowType, Positions
<1>3. p.net.layers \in 1..(Most - 1)
  BY DEF IsPass, IsNet
<1> QED BY <1>1, <1>2, <1>3 DEF RowsOf, Vocab, Positions

LEMMA MostIs ==
  Most \in Nat /\ 0 \in 0..Most
BY TrainingStepAssumption

LEMMA ContentInt ==
  ASSUME NEW name \in Holders, NEW a \in 0..Most, NEW b \in 0..Most, NEW c \in 0..Most,
         NEW d \in 0..Most
  PROVE  Content[<<name, a, b, c, d>>] \in Int
BY TrainingStepAssumption

LEMMA WeightInt ==
  ASSUME NEW p, IsPass(p), NEW name \in Holders, NEW l \in 0..Most
  PROVE  Weight(p, name, l) \in Int
<1>1. p.steps \in 0..Most /\ 0 \in 0..Most
  BY MostIs DEF IsPass
<1> QED BY <1>1, ContentInt DEF Weight

LEMMA CachedInt ==
  ASSUME NEW p, IsPass(p), NEW name \in Holders, NEW l \in 0..Most, NEW i \in 0..Most
  PROVE  Cached(p, name, l, i) \in Int /\ CachedOrZero(p, name, l, i) \in Int
<1>1. p.draw \in 0..Most /\ 0 \in 0..Most
  BY MostIs DEF IsPass
<1> QED BY <1>1, ContentInt DEF Cached, CachedOrZero

(* The numbers of one layer and row.                                       *)
LEMMA LayerNumbers ==
  ASSUME NEW p, IsPass(p), NEW l \in 1..p.net.layers, NEW i \in RowsOf(p)
  PROVE  /\ \A name \in Holders : /\ Weight(p, name, l) \in Int
                                  /\ Cached(p, name, l, i) \in Int
                                  /\ CachedOrZero(p, name, l, i) \in Int
         /\ Concat(p, l, i) \in Int /\ Rotation(p, i) \in Int
         /\ Dropout(p, "mask_attn", l, i) \in Int /\ Dropout(p, "mask_ffn", l, i) \in Int
         /\ SlopeByInput(p, l, i) \in Int /\ SlopeByGate(p, l, i) \in Int
         /\ NormSlope(p, AttnNames, l, i) \in Int /\ NormSlope(p, FfnNames, l, i) \in Int
         /\ \A j \in RowsOf(p) : Probs(p, l, i, j) \in Int
<1>1. l \in 0..Most /\ i \in 0..Most /\ p.draw \in 0..Most /\ 0 \in 0..Most
  BY MostIs, PassIs DEF IsPass
<1>2. \A name \in Holders : /\ Weight(p, name, l) \in Int
                            /\ Cached(p, name, l, i) \in Int
                            /\ CachedOrZero(p, name, l, i) \in Int
  BY <1>1, WeightInt, CachedInt
<1>3. /\ "concat" \in Holders /\ "rope" \in Holders /\ "probs" \in Holders
      /\ "mask_attn" \in Holders /\ "mask_ffn" \in Holders
      /\ "gate" \in Holders /\ "slope" \in Holders /\ "silu" \in Holders /\ "ff_hidden" \in Holders
      /\ "gamma_attn" \in Holders /\ "gamma_ffn" \in Holders /\ "std_attn" \in Holders
      /\ "std_ffn" \in Holders /\ "xhat_attn" \in Holders /\ "xhat_ffn" \in Holders
  BY DEF Holders
<1>4. Concat(p, l, i) \in Int
  BY <1>2, <1>3 DEF Concat
<1>5. Rotation(p, i) \in Int
  BY <1>1, <1>3, ContentInt DEF Rotation
<1>6. Dropout(p, "mask_attn", l, i) \in Int /\ Dropout(p, "mask_ffn", l, i) \in Int
  BY <1>2, <1>3 DEF Dropout
<1>7. SlopeByGate(p, l, i) \in Int
  BY <1>2, <1>3 DEF SlopeByGate
<1>8. SlopeByInput(p, l, i) \in Int
  <2>1. /\ Cached(p, "gate", l, i) \in Int /\ Cached(p, "slope", l, i) \in Int
        /\ Cached(p, "ff_hidden", l, i) \in Int
    BY <1>2, <1>3
  <2>2. Cached(p, "gate", l, i) * Cached(p, "slope", l, i) \in Int
    BY <2>1
  <2>3. Reduced(Cached(p, "gate", l, i) * Cached(p, "slope", l, i)) \in Int
    BY <2>2, ReducedType
  <2>4. Cached(p, "ff_hidden", l, i) + 1 \in Int
    BY <2>1
  <2> QED BY <2>1, <2>3, <2>4 DEF SlopeByInput
<1>9. ASSUME NEW gamma \in Holders, NEW std \in Holders, NEW xhat \in Holders, NEW names,
             names.gamma = gamma, names.std = std, names.xhat = xhat
      PROVE  NormSlope(p, names, l, i) \in Int
  <2> DEFINE factor == IF Uses(p, "RMSNORM") THEN 1 ELSE 2
             w == Weight(p, gamma, l)
             s == Cached(p, std, l, i)
             x == Cached(p, xhat, l, i)
  <2>1. factor \in Int /\ w \in Int /\ s \in Int /\ x \in Int
    BY <1>2
  <2>2. NormSlope(p, names, l, i) = Reduced(w * (s + factor * x))
    BY <1>9 DEF NormSlope
  <2> HIDE DEF factor, w, s, x
  <2>3. w * (s + factor * x) \in Int
    BY <2>1
  <2> QED BY <2>2, <2>3, ReducedType
<1>10. NormSlope(p, AttnNames, l, i) \in Int
  BY <1>3, <1>9 DEF AttnNames
<1>11. NormSlope(p, FfnNames, l, i) \in Int
  BY <1>3, <1>9 DEF FfnNames
<1>12. ASSUME NEW j \in RowsOf(p) PROVE Probs(p, l, i, j) \in Int
  <2>1. j \in 0..Most
    BY PassIs
  <2> QED BY <1>1, <1>3, <2>1, ContentInt DEF Probs
<1> QED BY <1>2, <1>4, <1>5, <1>6, <1>7, <1>8, <1>10, <1>11, <1>12

LEMMA AlongIs ==
  ASSUME NEW param, NEW name, NEW l
  PROVE  /\ Along(param, name, l) \in Int
         /\ param = <<name, l>> => Along(param, name, l) = 1
         /\ param # <<name, l>> => Along(param, name, l) = 0
BY DEF Along

(* A product's tangent, as a reduced number.                               *)
LEMMA LinearIs ==
  ASSUME NEW p, NEW param, NEW name, NEW l, NEW t \in Int, NEW input \in Int,
         Weight(p, name, l) \in Int
  PROVE  /\ Linear(p, param, name, l, t, input) \in Int
         /\ Reduced(Linear(p, param, name, l, t, input))
              = Reduced(Weight(p, name, l) * t + Along(param, name, l) * input)
<1> DEFINE e == Weight(p, name, l) * t + Along(param, name, l) * input
<1>1. e \in Int
  BY AlongIs
<1>2. Linear(p, param, name, l, t, input) = Reduced(e)
  BY DEF Linear
<1> HIDE DEF e
<1>3. Reduced(e) \in Int /\ Reduced(Reduced(e)) = Reduced(e)
  BY <1>1, ReducedType
<1> QED BY <1>2, <1>3 DEF e

LEMMA RowSumIs ==
  ASSUME NEW p, IsPass(p), NEW f
  PROVE  /\ RowSum(p, f) = SumOf(f, p.window.len)
         /\ IsRow(p, f) => RowSum(p, f) \in Int
<1>1. p.window.len \in Nat /\ RowsOf(p) = 1..p.window.len
  BY PassIs
<1>2. IsRow(p, f) => \A i \in 1..p.window.len : f[i] \in Int
  BY <1>1 DEF IsRow
<1>3. IsRow(p, f) => SumOf(f, p.window.len) \in Int
  BY <1>1, <1>2, SumInInt
<1> QED BY <1>3 DEF RowSum

LEMMA DotIs ==
  ASSUME NEW p, IsPass(p), NEW f, NEW g, IsRow(p, f), IsRow(p, g)
  PROVE  Dot(p, f, g) \in Int
<1> DEFINE h == [i \in RowsOf(p) |-> f[i] * g[i]]
<1>1. IsRow(p, h)
  BY DEF IsRow
<1> HIDE DEF h
<1>2. RowSum(p, h) \in Int
  BY <1>1, RowSumIs
<1> QED BY <1>2 DEF Dot, h

(* The sum of products that are, row by row, those of another pair of rows *)
(* comes to the same; so it does for four pairs, of which two are scaled.  *)
SameProducts(p, f, g, h, k) ==
  \A i \in RowsOf(p) : Reduced(f[i] * g[i]) = Reduced(h[i] * k[i])

LEMMA DotOfOne ==
  ASSUME NEW p, IsPass(p), NEW f, NEW g, NEW h, NEW k,
         IsRow(p, f), IsRow(p, g), IsRow(p, h), IsRow(p, k), SameProducts(p, f, g, h, k)
  PROVE  Reduced(Dot(p, f, g)) = Reduced(Dot(p, h, k))
<1> DEFINE n == p.window.len
           a == [i \in RowsOf(p) |-> f[i] * g[i]]
           b == [i \in RowsOf(p) |-> h[i] * k[i]]
<1>1. n \in Nat /\ RowsOf(p) = 1..n
  BY PassIs
<1>2. \A i \in 1..n : a[i] = f[i] * g[i] /\ b[i] = h[i] * k[i]
  BY <1>1
<1>3. Dot(p, f, g) = SumOf(a, n) /\ Dot(p, h, k) = SumOf(b, n)
  BY DEF Dot, RowSum
<1> HIDE DEF a, b, n
<1>4. ASSUME NEW i \in 1..n PROVE a[i] \in Int /\ b[i] \in Int
  <2>1. f[i] \in Int /\ g[i] \in Int /\ h[i] \in Int /\ k[i] \in Int
    BY <1>1 DEF IsRow
  <2> QED BY <1>2, <2>1
<1>5. \A i \in 1..n : Reduced(a[i]) = Reduced(b[i])
  BY <1>1, <1>2 DEF SameProducts
<1>6. Reduced(SumOf(a, n)) = Reduced(SumOf(b, n))
  BY <1>1, <1>4, <1>5, ReducedSum
<1> QED BY <1>3, <1>6

SplitsInFour(p, f, g, f1, g1, f2, g2, c3, f3, g3, c4, f4, g4) ==
  \A i \in RowsOf(p) :
    Reduced(f[i] * g[i])
      = Reduced(f1[i] * g1[i] + f2[i] * g2[i] + c3 * (f3[i] * g3[i]) + c4 * (f4[i] * g4[i]))

LEMMA DotOfFour ==
  ASSUME NEW p, IsPass(p), NEW f, NEW g, NEW f1, NEW g1, NEW f2, NEW g2, NEW f3, NEW g3,
         NEW f4, NEW g4, NEW c3 \in Int, NEW c4 \in Int,
         IsRow(p, f), IsRow(p, g), IsRow(p, f1), IsRow(p, g1), IsRow(p, f2), IsRow(p, g2),
         IsRow(p, f3), IsRow(p, g3), IsRow(p, f4), IsRow(p, g4),
         SplitsInFour(p, f, g, f1, g1, f2, g2, c3, f3, g3, c4, f4, g4)
  PROVE  Reduced(Dot(p, f, g))
           = Reduced(Dot(p, f1, g1) + Dot(p, f2, g2) + c3 * Dot(p, f3, g3) + c4 * Dot(p, f4, g4))
<1> DEFINE n == p.window.len
           h == [i \in RowsOf(p) |-> f[i] * g[i]]
           a == [i \in RowsOf(p) |-> f1[i] * g1[i]]
           b == [i \in RowsOf(p) |-> f2[i] * g2[i]]
           c == [i \in RowsOf(p) |-> f3[i] * g3[i]]
           d == [i \in RowsOf(p) |-> f4[i] * g4[i]]
           cc == [i \in RowsOf(p) |-> c3 * c[i]]
           dd == [i \in RowsOf(p) |-> c4 * d[i]]
<1>1. n \in Nat /\ RowsOf(p) = 1..n
  BY PassIs
<1>2. ASSUME NEW i \in 1..n
      PROVE  /\ h[i] = f[i] * g[i] /\ a[i] = f1[i] * g1[i] /\ b[i] = f2[i] * g2[i]
             /\ c[i] = f3[i] * g3[i] /\ d[i] = f4[i] * g4[i]
             /\ cc[i] = c3 * c[i] /\ dd[i] = c4 * d[i]
  BY <1>1
<1>3. /\ Dot(p, f, g) = SumOf(h, n) /\ Dot(p, f1, g1) = SumOf(a, n) /\ Dot(p, f2, g2) = SumOf(b, n)
      /\ Dot(p, f3, g3) = SumOf(c, n) /\ Dot(p, f4, g4) = SumOf(d, n)
  BY DEF Dot, RowSum
<1> HIDE DEF h, a, b, c, d, cc, dd, n
<1>4. ASSUME NEW i \in 1..n
      PROVE  /\ f[i] \in Int /\ g[i] \in Int /\ f1[i] \in Int /\ g1[i] \in Int
             /\ f2[i] \in Int /\ g2[i] \in Int /\ f3[i] \in Int /\ g3[i] \in Int
             /\ f4[i] \in Int /\ g4[i] \in Int
  BY <1>1 DEF IsRow
<1>5. ASSUME NEW i \in 1..n
      PROVE  /\ h[i] \in Int /\ a[i] \in Int /\ b[i] \in Int /\ c[i] \in Int /\ d[i] \in Int
             /\ cc[i] \in Int /\ dd[i] \in Int
  BY <1>2, <1>4
<1>6. ASSUME NEW i \in 1..n PROVE Reduced(h[i]) = Reduced(a[i] + b[i] + cc[i] + dd[i])
  <2>1. Reduced(f[i] * g[i])
          = Reduced(f1[i] * g1[i] + f2[i] * g2[i] + c3 * (f3[i] * g3[i]) + c4 * (f4[i] * g4[i]))
    BY <1>1 DEF SplitsInFour
  <2> QED BY <1>2, <2>1
<1>7. Reduced(SumOf(h, n)) = Reduced(SumOf(a, n) + SumOf(b, n) + SumOf(cc, n) + SumOf(dd, n))
  <2>1. SumsOfFour(h, a, b, cc, dd, n)
    BY <1>5, <1>6 DEF SumsOfFour
  <2> QED BY <1>1, <2>1, ReducedSumOfFour
<1>8. SumOf(cc, n) = c3 * SumOf(c, n)
  BY <1>1, <1>2, <1>5, SumTimes
<1>9. SumOf(dd, n) = c4 * SumOf(d, n)
  BY <1>1, <1>2, <1>5, SumTimes
<1> QED BY <1>3, <1>7, <1>8, <1>9

-----------------------------------------------------------------------------
(* The rows of the tangents, one operator of TrainingStep after the other. *)

LEMMA HolderNames ==
  /\ "W_q" \in Holders /\ "W_k" \in Holders /\ "W_v" \in Holders /\ "W_o" \in Holders
  /\ "W_ff1" \in Holders /\ "W_ff_gate" \in Holders /\ "W_ff2" \in Holders
  /\ "E" \in Holders /\ "W_out" \in Holders /\ "grad" \in Holders
  /\ "hidden" \in Holders /\ "x1" \in Holders /\ "Q" \in Holders /\ "K" \in Holders
  /\ "V" \in Holders /\ "ff_hidden" \in Holders
  /\ "xhat_attn" \in Holders /\ "xhat_ffn" \in Holders
BY DEF Holders

LEMMA RowListed ==
  ASSUME NEW p, IsPass(p), NEW f, f = [i \in RowsOf(p) |-> f[i]]
  PROVE  Listed(f) = f
<1>1. p.window.len \in Nat /\ RowsOf(p) = 1..p.window.len
  BY PassIs
<1> QED BY <1>1, ListedIs

(* Integer rows, as functions.                                             *)
RowSet(p) == [RowsOf(p) -> Int]

LEMMA RowSetIs ==
  ASSUME NEW p, NEW f \in RowSet(p)
  PROVE  IsRow(p, f)
BY DEF RowSet, IsRow

LEMMA ProjectionIs ==
  ASSUME NEW p, IsPass(p), NEW l \in 1..p.net.layers, NEW param, NEW name \in Holders,
         NEW held \in Holders, NEW x, IsRow(p, x)
  PROVE  /\ IsRow(p, Projection(p, param, name, l, x, held))
         /\ \A i \in RowsOf(p) : Projection(p, param, name, l, x, held)[i]
              = Linear(p, param, name, l, x[i], CachedOrZero(p, held, l, i))
<1> DEFINE f == [i \in RowsOf(p) |-> Linear(p, param, name, l, x[i], CachedOrZero(p, held, l, i))]
<1>1. Listed(f) = f
  BY RowListed
<1>2. Projection(p, param, name, l, x, held) = f
  BY <1>1 DEF Projection
<1>3. ASSUME NEW i \in RowsOf(p) PROVE f[i] \in Int
  <2>1. x[i] \in Int /\ Weight(p, name, l) \in Int /\ CachedOrZero(p, held, l, i) \in Int
    BY LayerNumbers DEF IsRow
  <2>2. Linear(p, param, name, l, x[i], CachedOrZero(p, held, l, i)) \in Int
    BY <2>1, LinearIs
  <2> QED BY <2>2
<1> QED BY <1>2, <1>3 DEF IsRow

LEMMA RotatedIs ==
  ASSUME NEW p, IsPass(p), NEW l \in 1..p.net.layers, NEW f, IsRow(p, f)
  PROVE  /\ IsRow(p, Rotated(p, f))
         /\ \A i \in RowsOf(p) : Reduced(Rotated(p, f)[i]) = Reduced(Rotation(p, i) * f[i])
<1> DEFINE g == [i \in RowsOf(p) |-> Reduced(Rotation(p, i) * f[i])]
<1>1. Listed(g) = g
  BY RowListed
<1>2. Rotated(p, f) = g
  BY <1>1 DEF Rotated
<1>3. ASSUME NEW i \in RowsOf(p)
      PROVE  g[i] \in Int /\ Reduced(g[i]) = Reduced(Rotation(p, i) * f[i])
  <2>1. Rotation(p, i) \in Int /\ f[i] \in Int
    BY LayerNumbers DEF IsRow
  <2>2. Rotation(p, i) * f[i] \in Int
    BY <2>1
  <2> QED BY <2>2, ReducedType
<1> QED BY <1>2, <1>3 DEF IsRow

(* Squares of integers, one for each pair of rows.                         *)
IsSquare(p, s) == \A i, j \in RowsOf(p) : s[i][j] \in Int

LEMMA ScoreTangentIs ==
  ASSUME NEW p, IsPass(p), NEW l \in 1..p.net.layers, NEW q, NEW k, IsRow(p, q), IsRow(p, k)
  PROVE  /\ IsSquare(p, ScoreTangent(p, l, q, k))
         /\ \A i, j \in RowsOf(p) : Reduced(ScoreTangent(p, l, q, k)[i][j])
              = Reduced(q[i] * Cached(p, "K", l, j) + k[j] * Cached(p, "Q", l, i))
<1> DEFINE e(i, j) == q[i] * Cached(p, "K", l, j) + k[j] * Cached(p, "Q", l, i)
           row(i) == [j \in RowsOf(p) |-> Reduced(e(i, j))]
           s == [i \in RowsOf(p) |-> Listed(row(i))]
<1>1. \A i : Listed(row(i)) = row(i)
  BY RowListed
<1>2. Listed(s) = s
  BY RowListed
<1>3. ScoreTangent(p, l, q, k) = s
  BY <1>2 DEF ScoreTangent
<1>4. ASSUME NEW i \in RowsOf(p), NEW j \in RowsOf(p)
      PROVE  s[i][j] \in Int /\ Reduced(s[i][j]) = Reduced(e(i, j))
  <2>1. Cached(p, "K", l, j) \in Int /\ Cached(p, "Q", l, i) \in Int
    BY LayerNumbers, HolderNames
  <2>2. q[i] \in Int /\ k[j] \in Int
    BY DEF IsRow
  <2>3. e(i, j) \in Int
    BY <2>1, <2>2
  <2>4. s[i][j] = Reduced(e(i, j))
    BY <1>1
  <2> HIDE DEF e, s
  <2> QED BY <2>3, <2>4, ReducedType
<1> QED BY <1>3, <1>4 DEF IsSquare

(* A row of probabilities, and what comes back to it.                      *)
ProbRow(p, l, i) == [j \in RowsOf(p) |-> Probs(p, l, i, j)]

LEMMA ProbRowIs ==
  ASSUME NEW p, IsPass(p), NEW l \in 1..p.net.layers, NEW i \in RowsOf(p)
  PROVE  IsRow(p, ProbRow(p, l, i))
BY LayerNumbers DEF ProbRow, IsRow

LEMMA ProbTangentIs ==
  ASSUME NEW p, IsPass(p), NEW l \in 1..p.net.layers, NEW s, IsSquare(p, s),
         NEW i \in RowsOf(p), NEW j \in RowsOf(p)
  PROVE  /\ ProbTangent(p, l, s, i, j) \in Int
         /\ Reduced(ProbTangent(p, l, s, i, j))
              = Reduced(Probs(p, l, i, j) * (s[i][j] - Reduced(Dot(p, ProbRow(p, l, i), s[i]))))
<1> DEFINE d == Dot(p, ProbRow(p, l, i), s[i])
           e == Probs(p, l, i, j) * (s[i][j] - Reduced(d))
<1>1. IsRow(p, ProbRow(p, l, i)) /\ IsRow(p, s[i])
  BY ProbRowIs DEF IsSquare, IsRow
<1>2. d \in Int
  BY <1>1, DotIs
<1>3. d = RowSum(p, [n \in RowsOf(p) |-> Probs(p, l, i, n) * s[i][n]])
  <2>1. [n \in RowsOf(p) |-> ProbRow(p, l, i)[n] * s[i][n]]
          = [n \in RowsOf(p) |-> Probs(p, l, i, n) * s[i][n]]
    BY DEF ProbRow
  <2> QED BY <2>1 DEF Dot
<1>4. ProbTangent(p, l, s, i, j) = Reduced(e)
  BY <1>3 DEF ProbTangent
<1>5. Probs(p, l, i, j) \in Int /\ s[i][j] \in Int /\ Reduced(d) \in Int
  BY <1>2, LayerNumbers, ReducedType DEF IsSquare
<1>6. e \in Int
  <2> HIDE DEF d
  <2> QED BY <1>5
<1>7. Reduced(e) \in Int /\ Reduced(Reduced(e)) = Reduced(e)
  <2> HIDE DEF e
  <2> QED BY <1>6, ReducedType
<1> QED BY <1>4, <1>7

LEMMA ContextTangentIs ==
  ASSUME NEW p, IsPass(p), NEW l \in 1..p.net.layers, NEW s, IsSquare(p, s), NEW v, IsRow(p, v)
  PROVE  /\ IsRow(p, ContextTangent(p, l, s, v))
         /\ \A i \in RowsOf(p) : Reduced(ContextTangent(p, l, s, v)[i])
              = Reduced(RowSum(p, [j \in RowsOf(p) |->
                  ProbTangent(p, l, s, i, j) * Cached(p, "V", l, j) + Probs(p, l, i, j) * v[j]]))
<1> DEFINE term(i) == [j \in RowsOf(p) |->
             ProbTangent(p, l, s, i, j) * Cached(p, "V", l, j) + Probs(p, l, i, j) * v[j]]
           c == [i \in RowsOf(p) |-> Reduced(RowSum(p, term(i)))]
<1>1. Listed(c) = c
  BY RowListed
<1>2. ContextTangent(p, l, s, v) = c
  BY <1>1 DEF ContextTangent
<1>3. ASSUME NEW i \in RowsOf(p)
      PROVE  c[i] \in Int /\ Reduced(c[i]) = Reduced(RowSum(p, term(i)))
  <2>1. ASSUME NEW j \in RowsOf(p) PROVE term(i)[j] \in Int
    <3>1. /\ ProbTangent(p, l, s, i, j) \in Int /\ Cached(p, "V", l, j) \in Int
          /\ Probs(p, l, i, j) \in Int
      BY ProbTangentIs, LayerNumbers, HolderNames
    <3>2. v[j] \in Int
      BY DEF IsRow
    <3> QED BY <3>1, <3>2
  <2>2. IsRow(p, term(i))
    BY <2>1 DEF IsRow
  <2> HIDE DEF term
  <2>3. RowSum(p, term(i)) \in Int
    BY <2>2, RowSumIs
  <2>4. Reduced(RowSum(p, term(i))) \in Int
          /\ Reduced(Reduced(RowSum(p, term(i)))) = Reduced(RowSum(p, term(i)))
    BY <2>3, ReducedType
  <2>5. c[i] = Reduced(RowSum(p, term(i)))
    OBVIOUS
  <2> QED BY <2>4, <2>5
<1> QED BY <1>2, <1>3 DEF IsRow

LEMMA AttnOutTangentIs ==
  ASSUME NEW p, IsPass(p), NEW l \in 1..p.net.layers, NEW param, NEW c, IsRow(p, c)
  PROVE  /\ IsRow(p, AttnOutTangent(p, param, l, c))
         /\ \A i \in RowsOf(p) : AttnOutTangent(p, param, l, c)[i]
              = Linear(p, param, "W_o", l, c[i], Concat(p, l, i))
<1> DEFINE f == [i \in RowsOf(p) |-> Linear(p, param, "W_o", l, c[i], Concat(p, l, i))]
<1>1. Listed(f) = f
  BY RowListed
<1>2. AttnOutTangent(p, param, l, c) = f
  BY <1>1 DEF AttnOutTangent
<1>3. ASSUME NEW i \in RowsOf(p) PROVE f[i] \in Int
  <2>1. c[i] \in Int /\ Weight(p, "W_o", l) \in Int /\ Concat(p, l, i) \in Int
    BY LayerNumbers, HolderNames DEF IsRow
  <2>2. Linear(p, param, "W_o", l, c[i], Concat(p, l, i)) \in Int
    BY <2>1, LinearIs
  <2> QED BY <2>2
<1> QED BY <1>2, <1>3 DEF IsRow

(* The two norms of a layer and the dropout in front of each.              *)
IsNorm(names, mask) ==
  \/ names = AttnNames /\ mask = "mask_attn"
  \/ names = FfnNames /\ mask = "mask_ffn"

LEMMA NormNumbers ==
  ASSUME NEW p, IsPass(p), NEW l \in 1..p.net.layers, NEW names, NEW mask, IsNorm(names, mask),
         NEW i \in RowsOf(p)
  PROVE  /\ NormSlope(p, names, l, i) \in Int /\ Dropout(p, mask, l, i) \in Int
         /\ Cached(p, names.xhat, l, i) \in Int
<1>1. CASE names = AttnNames /\ mask = "mask_attn"
  <2>1. names.xhat = "xhat_attn"
    BY <1>1 DEF AttnNames
  <2> QED BY <1>1, <2>1, LayerNumbers, HolderNames
<1>2. CASE names = FfnNames /\ mask = "mask_ffn"
  <2>1. names.xhat = "xhat_ffn"
    BY <1>2 DEF FfnNames
  <2> QED BY <1>2, <2>1, LayerNumbers, HolderNames
<1> QED BY <1>1, <1>2 DEF IsNorm

(* What a norm leaves of a real row.                                       *)
NormValue(p, param, l, names, mask, i, o, x) ==
  NormSlope(p, names, l, i) * Reduced(Dropout(p, mask, l, i) * o + x)
    + Along(param, names.gamma, l) * Cached(p, names.xhat, l, i) + Along(param, names.beta, l)

LEMMA NormTangentIs ==
  ASSUME NEW p, IsPass(p), NEW l \in 1..p.net.layers, NEW param, NEW names, NEW mask,
         IsNorm(names, mask), NEW outs, NEW x, IsRow(p, outs), IsRow(p, x)
  PROVE  /\ NormTangent(p, param, l, names, mask, outs, x) \in RowSet(p)
         /\ \A i \in RowsOf(p) :
              IF Padded(p, i) THEN NormTangent(p, param, l, names, mask, outs, x)[i] = 0
              ELSE Reduced(NormTangent(p, param, l, names, mask, outs, x)[i])
                     = Reduced(NormValue(p, param, l, names, mask, i, outs[i], x[i]))
<1> DEFINE e(i) == NormValue(p, param, l, names, mask, i, outs[i], x[i])
           f == [i \in RowsOf(p) |-> IF Padded(p, i) THEN 0 ELSE Reduced(e(i))]
<1>1. Listed(f) = f
  BY RowListed
<1>2. NormTangent(p, param, l, names, mask, outs, x) = f
  BY <1>1 DEF NormTangent, NormValue
<1>3. ASSUME NEW i \in RowsOf(p)
      PROVE  /\ f[i] \in Int
             /\ IF Padded(p, i) THEN f[i] = 0 ELSE Reduced(f[i]) = Reduced(e(i))
  <2> DEFINE slope == NormSlope(p, names, l, i)
             drop == Dropout(p, mask, l, i)
             hat == Cached(p, names.xhat, l, i)
             a == Along(param, names.gamma, l)
             b == Along(param, names.beta, l)
             r == Reduced(drop * outs[i] + x[i])
  <2>1. slope \in Int /\ drop \in Int /\ hat \in Int
    BY NormNumbers
  <2>2. a \in Int /\ b \in Int
    BY AlongIs
  <2>3. outs[i] \in Int /\ x[i] \in Int
    BY DEF IsRow
  <2>4. drop * outs[i] + x[i] \in Int
    <3> HIDE DEF drop
    <3> QED BY <2>1, <2>3
  <2>5. r \in Int
    BY <2>4, ReducedType
  <2>6. e(i) = slope * r + a * hat + b
    BY DEF NormValue
  <2> HIDE DEF slope, drop, hat, a, b, r, e
  <2>7. e(i) \in Int
    BY <2>1, <2>2, <2>5, <2>6
  <2>8. Reduced(e(i)) \in Int /\ Reduced(Reduced(e(i))) = Reduced(e(i))
    BY <2>7, ReducedType
  <2>9. f[i] = IF Padded(p, i) THEN 0 ELSE Reduced(e(i))
    OBVIOUS
  <2> HIDE DEF f
  <2> QED BY <2>8, <2>9
<1>4. f \in RowSet(p)
  BY <1>3 DEF RowSet
<1> HIDE DEF f
<1> QED BY <1>2, <1>3, <1>4

LEMMA InputTangentIs ==
  ASSUME NEW p, IsPass(p), NEW l \in 1..p.net.layers, NEW param, NEW weight \in Holders, NEW bias,
         NEW x1, IsRow(p, x1)
  PROVE  /\ IsRow(p, InputTangent(p, param, l, weight, bias, x1))
         /\ \A i \in RowsOf(p) : InputTangent(p, param, l, weight, bias, x1)[i]
              = Linear(p, param, weight, l, x1[i], CachedOrZero(p, "x1", l, i))
                  + Along(param, bias, l)
<1> DEFINE g == Projection(p, param, weight, l, x1, "x1")
           f == [i \in RowsOf(p) |-> g[i] + Along(param, bias, l)]
<1>1. Listed(f) = f
  BY RowListed
<1>2. InputTangent(p, param, l, weight, bias, x1) = f
  BY <1>1 DEF InputTangent
<1>3. /\ IsRow(p, g)
      /\ \A i \in RowsOf(p) :
           g[i] = Linear(p, param, weight, l, x1[i], CachedOrZero(p, "x1", l, i))
  BY ProjectionIs, HolderNames
<1> HIDE DEF g
<1>4. \A i \in RowsOf(p) : f[i] \in Int
  BY <1>3, AlongIs DEF IsRow
<1> QED BY <1>2, <1>3, <1>4 DEF IsRow

LEMMA ActTangentIs ==
  ASSUME NEW p, IsPass(p), NEW l \in 1..p.net.layers, NEW up, NEW side, IsRow(p, up), IsRow(p, side)
  PROVE  /\ IsRow(p, ActTangent(p, l, up, side))
         /\ \A i \in RowsOf(p) : Reduced(ActTangent(p, l, up, side)[i])
              = Reduced(SlopeByInput(p, l, i) * up[i]
                          + (IF Uses(p, "SWIGLU") THEN SlopeByGate(p, l, i) * side[i] ELSE 0))
<1> DEFINE e(i) == SlopeByInput(p, l, i) * up[i]
                     + (IF Uses(p, "SWIGLU") THEN SlopeByGate(p, l, i) * side[i] ELSE 0)
           f == [i \in RowsOf(p) |-> Reduced(e(i))]
<1>1. Listed(f) = f
  BY RowListed
<1>2. ActTangent(p, l, up, side) = f
  BY <1>1 DEF ActTangent
<1>3. ASSUME NEW i \in RowsOf(p) PROVE f[i] \in Int /\ Reduced(f[i]) = Reduced(e(i))
  <2>1. SlopeByInput(p, l, i) \in Int /\ SlopeByGate(p, l, i) \in Int
    BY LayerNumbers
  <2>2. up[i] \in Int /\ side[i] \in Int
    BY DEF IsRow
  <2>3. e(i) \in Int
    BY <2>1, <2>2
  <2>4. f[i] = Reduced(e(i))
    OBVIOUS
  <2> HIDE DEF e, f
  <2> QED BY <2>3, <2>4, ReducedType
<1> QED BY <1>2, <1>3 DEF IsRow

LEMMA FfnOutTangentIs ==
  ASSUME NEW p, IsPass(p), NEW l \in 1..p.net.layers, NEW param, NEW a, IsRow(p, a)
  PROVE  /\ IsRow(p, FfnOutTangent(p, param, l, a))
         /\ \A i \in RowsOf(p) : FfnOutTangent(p, param, l, a)[i]
              = Linear(p, param, "W_ff2", l, a[i], Cached(p, "ff_hidden", l, i))
                  + Along(param, "b_ff2", l)
<1> DEFINE f == [i \in RowsOf(p) |->
             Linear(p, param, "W_ff2", l, a[i], Cached(p, "ff_hidden", l, i))
               + Along(param, "b_ff2", l)]
<1>1. Listed(f) = f
  BY RowListed
<1>2. FfnOutTangent(p, param, l, a) = f
  BY <1>1 DEF FfnOutTangent
<1>3. ASSUME NEW i \in RowsOf(p) PROVE f[i] \in Int
  <2>1. a[i] \in Int /\ Weight(p, "W_ff2", l) \in Int /\ Cached(p, "ff_hidden", l, i) \in Int
    BY LayerNumbers, HolderNames DEF IsRow
  <2>2. Linear(p, param, "W_ff2", l, a[i], Cached(p, "ff_hidden", l, i)) \in Int
    BY <2>1, LinearIs
  <2> QED BY <2>2, AlongIs
<1> QED BY <1>2, <1>3 DEF IsRow

-----------------------------------------------------------------------------
(* Each stage hands back what makes the sum over the rows of tangent times *)
(* gradient the same before it and behind it.                              *)

Zeros == [i \in Positions |-> 0]

LEMMA RowConstants ==
  ASSUME NEW p, IsPass(p)
  PROVE  /\ IsRow(p, Zeros) /\ IsRow(p, Ones)
         /\ \A i \in RowsOf(p) : Zeros[i] = 0 /\ Ones[i] = 1
         /\ \A g : IsRow(p, g) => Dot(p, Zeros, g) = 0
<1>1. \A i \in RowsOf(p) : Zeros[i] = 0 /\ Ones[i] = 1
  BY PassIs DEF Zeros, Ones
<1>2. IsRow(p, Zeros) /\ IsRow(p, Ones)
  BY <1>1 DEF IsRow
<1>3. ASSUME NEW g, IsRow(p, g) PROVE Dot(p, Zeros, g) = 0
  <2> DEFINE n == p.window.len
             h == [i \in RowsOf(p) |-> Zeros[i] * g[i]]
  <2>1. n \in Nat /\ RowsOf(p) = 1..n
    BY PassIs
  <2>2. ASSUME NEW i \in 1..n PROVE h[i] = 0
    <3>1. g[i] \in Int
      BY <1>3, <2>1 DEF IsRow
    <3> QED BY <1>1, <2>1, <3>1
  <2>3. Dot(p, Zeros, g) = SumOf(h, n)
    BY DEF Dot, RowSum
  <2> HIDE DEF h, n
  <2> QED BY <2>1, <2>2, <2>3, SumOfNone
<1> QED BY <1>1, <1>2, <1>3

(* Two numbers are the same when they differ by a multiple.                *)
LEMMA ReducedSame ==
  ASSUME NEW a \in Int, NEW b \in Int
  PROVE  Reduced(a) = Reduced(b) <=> \E k \in Int : a = b + Modulo * k
BY ModuloIs, SameRemainder DEF Reduced

(* A linear map, with or without a bias.                                   *)
LEMMA LinearIdentity ==
  ASSUME NEW f \in Int, NEW lin \in Int, NEW w \in Int, NEW t \in Int, NEW a \in Int, NEW x \in Int,
         NEW c \in Int, NEW back \in Int, NEW m \in Int, NEW k \in Int, NEW n \in Int,
         lin = w * t + a * x + m * k, back = f * w + m * n
  PROVE  f * (lin + c) = back * t + 0 * 0 + a * (x * f) + c * (1 * f) + m * (f * k - n * t)
OBVIOUS

LinearFacts(f, lin, w, t, a, x, back) ==
  Reduced(lin) = Reduced(w * t + a * x) /\ Reduced(back) = Reduced(f * w)

LinearSplits(f, lin, t, a, x, c, back) ==
  Reduced(f * (lin + c)) = Reduced(back * t + 0 * 0 + a * (x * f) + c * (1 * f))

LEMMA LinearTerm ==
  ASSUME NEW f \in Int, NEW lin \in Int, NEW w \in Int, NEW t \in Int, NEW a \in Int, NEW x \in Int,
         NEW c \in Int, NEW back \in Int, LinearFacts(f, lin, w, t, a, x, back)
  PROVE  LinearSplits(f, lin, t, a, x, c, back)
<1> DEFINE e == w * t + a * x
           u == f * w
           left == f * (lin + c)
           right == back * t + 0 * 0 + a * (x * f) + c * (1 * f)
<1>1. e \in Int /\ u \in Int /\ left \in Int /\ right \in Int /\ Modulo \in Int
  BY ModuloIs
<1>2. Reduced(lin) = Reduced(e) /\ Reduced(back) = Reduced(u)
  BY DEF LinearFacts
<1> HIDE DEF e, u, left, right
<1>3. PICK k \in Int : lin = e + Modulo * k
  BY <1>1, <1>2, ReducedSame
<1>4. PICK n \in Int : back = u + Modulo * n
  BY <1>1, <1>2, ReducedSame
<1> DEFINE z == f * k - n * t
<1>5. left = right + Modulo * z
  BY <1>1, <1>3, <1>4, LinearIdentity DEF e, u, left, right
<1>6. z \in Int
  OBVIOUS
<1> HIDE DEF z
<1>7. \E m \in Int : left = right + Modulo * m
  BY <1>5, <1>6
<1>8. Reduced(left) = Reduced(right)
  BY <1>1, <1>7, ReducedSame
<1> QED BY <1>8 DEF left, right, LinearSplits

LinearRow(p, param, name, l, c, t, input, y) ==
  \A i \in RowsOf(p) : y[i] = Linear(p, param, name, l, t[i], input[i]) + c

BackRow(p, name, l, f, back) ==
  \A i \in RowsOf(p) : Reduced(back[i]) = Reduced(f[i] * Weight(p, name, l))

LEMMA LinearDot ==
  ASSUME NEW p, IsPass(p), NEW l \in 1..p.net.layers, NEW param, NEW name \in Holders, NEW c \in Int,
         NEW t, NEW input, NEW y, NEW f, NEW back,
         IsRow(p, t), IsRow(p, input), IsRow(p, f), IsRow(p, back),
         LinearRow(p, param, name, l, c, t, input, y), BackRow(p, name, l, f, back)
  PROVE  /\ IsRow(p, y)
         /\ Reduced(Dot(p, f, y))
              = Reduced(Dot(p, back, t) + Along(param, name, l) * Dot(p, input, f) + c * Dot(p, Ones, f))
<1> DEFINE a == Along(param, name, l)
<1>1. a \in Int
  BY AlongIs
<1>2. ASSUME NEW i \in RowsOf(p)
      PROVE  /\ y[i] \in Int
             /\ Reduced(f[i] * y[i])
                  = Reduced(back[i] * t[i] + Zeros[i] * Zeros[i] + a * (input[i] * f[i])
                              + c * (Ones[i] * f[i]))
  <2> DEFINE lin == Linear(p, param, name, l, t[i], input[i])
             w == Weight(p, name, l)
  <2>1. t[i] \in Int /\ input[i] \in Int /\ f[i] \in Int /\ back[i] \in Int
    BY DEF IsRow
  <2>2. w \in Int
    BY LayerNumbers
  <2>3. lin \in Int /\ Reduced(lin) = Reduced(w * t[i] + a * input[i])
    BY <2>1, <2>2, LinearIs
  <2>4. y[i] = lin + c
    BY DEF LinearRow
  <2>5. Reduced(back[i]) = Reduced(f[i] * w)
    BY DEF BackRow
  <2>6. Zeros[i] = 0 /\ Ones[i] = 1
    BY RowConstants
  <2> HIDE DEF lin, w, a
  <2>7. LinearFacts(f[i], lin, w, t[i], a, input[i], back[i])
    BY <2>3, <2>5 DEF LinearFacts
  <2>8. Reduced(f[i] * (lin + c))
          = Reduced(back[i] * t[i] + 0 * 0 + a * (input[i] * f[i]) + c * (1 * f[i]))
    <3>1. f[i] \in Int /\ lin \in Int /\ w \in Int /\ t[i] \in Int /\ a \in Int
            /\ input[i] \in Int /\ back[i] \in Int
      BY <1>1, <2>1, <2>2, <2>3
    <3>2. LinearSplits(f[i], lin, t[i], a, input[i], c, back[i])
      BY <2>7, <3>1, LinearTerm
    <3> QED BY <3>2 DEF LinearSplits
  <2> QED BY <2>3, <2>4, <2>6, <2>8
<1>3. IsRow(p, y)
  BY <1>2 DEF IsRow
<1>4. SplitsInFour(p, f, y, back, t, Zeros, Zeros, a, input, f, c, Ones, f)
  BY <1>2 DEF SplitsInFour
<1>5. IsRow(p, Zeros) /\ IsRow(p, Ones) /\ Dot(p, Zeros, Zeros) = 0
  BY RowConstants
<1> HIDE DEF a
<1>6. Reduced(Dot(p, f, y))
        = Reduced(Dot(p, back, t) + Dot(p, Zeros, Zeros) + a * Dot(p, input, f) + c * Dot(p, Ones, f))
  BY <1>1, <1>3, <1>4, <1>5, DotOfFour
<1>7. Dot(p, back, t) \in Int
  BY DotIs
<1>8. Dot(p, back, t) + Dot(p, Zeros, Zeros) = Dot(p, back, t)
  BY <1>5, <1>7
<1> QED BY <1>3, <1>6, <1>8 DEF a

(* Dropout, the residual and a norm.                                       *)
LEMMA NormIdentity ==
  ASSUME NEW f \in Int, NEW y \in Int, NEW k \in Int, NEW d \in Int, NEW o \in Int, NEW x \in Int,
         NEW a \in Int, NEW h \in Int, NEW b \in Int, NEW s \in Int, NEW dd \in Int, NEW r \in Int,
         NEW m \in Int, NEW n1 \in Int, NEW n2 \in Int, NEW n3 \in Int, NEW n4 \in Int,
         y = k * r + a * h + b + m * n1, r = d * o + x + m * n2, s = k * f + m * n3, dd = d * s + m * n4
  PROVE  f * y = dd * o + s * x + a * (h * f) + b * (1 * f)
                   + m * (f * n1 + f * k * n2 - d * n3 * o - n4 * o - n3 * x)
OBVIOUS

NormFacts(f, y, k, d, o, x, a, h, b, s, dd) ==
  /\ Reduced(y) = Reduced(k * Reduced(d * o + x) + a * h + b)
  /\ Reduced(s) = Reduced(k * f)
  /\ Reduced(dd) = Reduced(d * s)

NormSplits(f, y, o, x, a, h, b, s, dd) ==
  Reduced(f * y) = Reduced(dd * o + s * x + a * (h * f) + b * (1 * f))

LEMMA NormTerm ==
  ASSUME NEW f \in Int, NEW y \in Int, NEW k \in Int, NEW d \in Int, NEW o \in Int, NEW x \in Int,
         NEW a \in Int, NEW h \in Int, NEW b \in Int, NEW s \in Int, NEW dd \in Int,
         NormFacts(f, y, k, d, o, x, a, h, b, s, dd)
  PROVE  NormSplits(f, y, o, x, a, h, b, s, dd)
<1> DEFINE e == d * o + x
           r == Reduced(e)
           v == k * r + a * h + b
           u == k * f
           w == d * s
           left == f * y
           right == dd * o + s * x + a * (h * f) + b * (1 * f)
<1>1. e \in Int /\ u \in Int /\ w \in Int /\ left \in Int /\ right \in Int /\ Modulo \in Int
  BY ModuloIs
<1>2. Reduced(y) = Reduced(v) /\ Reduced(s) = Reduced(u) /\ Reduced(dd) = Reduced(w)
  BY DEF NormFacts
<1>3. r \in Int /\ Reduced(r) = Reduced(e)
  <2> HIDE DEF e
  <2> QED BY <1>1, ReducedType
<1> HIDE DEF r
<1>4. v \in Int
  BY <1>3
<1> HIDE DEF e, v, u, w, left, right
<1>5. PICK n1 \in Int : y = v + Modulo * n1
  BY <1>2, <1>4, ReducedSame
<1>6. PICK n2 \in Int : r = e + Modulo * n2
  BY <1>1, <1>3, ReducedSame
<1>7. PICK n3 \in Int : s = u + Modulo * n3
  BY <1>1, <1>2, ReducedSame
<1>8. PICK n4 \in Int : dd = w + Modulo * n4
  BY <1>1, <1>2, ReducedSame
<1> DEFINE n == f * n1 + f * k * n2 - d * n3 * o - n4 * o - n3 * x
<1>9. left = right + Modulo * n
  BY <1>1, <1>3, <1>5, <1>6, <1>7, <1>8, NormIdentity DEF e, v, u, w, left, right
<1>10. n \in Int
  OBVIOUS
<1> HIDE DEF n
<1>11. \E m \in Int : left = right + Modulo * m
  BY <1>9, <1>10
<1>12. Reduced(left) = Reduced(right)
  BY <1>1, <1>11, ReducedSame
<1> QED BY <1>12 DEF left, right, NormSplits

(* What a norm and the dropout in front of it hand back: s and drop.       *)
NormBack(p, l, names, mask, in, s, drop) ==
  \A i \in RowsOf(p) :
    /\ Padded(p, i) => in[i] = 0
    /\ Reduced(s[i]) = Reduced(NormSlope(p, names, l, i) * in[i])
    /\ Reduced(drop[i]) = Reduced(Dropout(p, mask, l, i) * s[i])

LEMMA NormDot ==
  ASSUME NEW p, IsPass(p), NEW l \in 1..p.net.layers, NEW param, NEW names, NEW mask,
         IsNorm(names, mask), NEW outs, NEW x, IsRow(p, outs), IsRow(p, x),
         NEW in, NEW s, NEW drop, IsRow(p, in), IsRow(p, s), IsRow(p, drop),
         NormBack(p, l, names, mask, in, s, drop)
  PROVE  Reduced(Dot(p, in, NormTangent(p, param, l, names, mask, outs, x)))
           = Reduced(Dot(p, drop, outs) + Dot(p, s, x)
                       + Along(param, names.gamma, l) * Dot(p, CacheRow(p, names.xhat, l), in)
                       + Along(param, names.beta, l) * Dot(p, Ones, in))
<1> DEFINE y == NormTangent(p, param, l, names, mask, outs, x)
           a == Along(param, names.gamma, l)
           b == Along(param, names.beta, l)
           hat == CacheRow(p, names.xhat, l)
<1>1. a \in Int /\ b \in Int
  BY AlongIs
<1>2. /\ IsRow(p, y)
      /\ \A i \in RowsOf(p) :
           IF Padded(p, i) THEN y[i] = 0
           ELSE Reduced(y[i]) = Reduced(NormValue(p, param, l, names, mask, i, outs[i], x[i]))
  BY NormTangentIs, RowSetIs
<1>3. \A i \in RowsOf(p) : hat[i] = Cached(p, names.xhat, l, i)
  BY DEF CacheRow
<1>4. IsRow(p, hat)
  BY <1>3, NormNumbers DEF IsRow
<1>5. ASSUME NEW i \in RowsOf(p)
      PROVE  Reduced(in[i] * y[i])
               = Reduced(drop[i] * outs[i] + s[i] * x[i] + a * (hat[i] * in[i]) + b * (Ones[i] * in[i]))
  <2> DEFINE k == NormSlope(p, names, l, i)
             d == Dropout(p, mask, l, i)
  <2>1. k \in Int /\ d \in Int
    BY NormNumbers
  <2>2. /\ in[i] \in Int /\ y[i] \in Int /\ outs[i] \in Int /\ x[i] \in Int /\ hat[i] \in Int
        /\ s[i] \in Int /\ drop[i] \in Int
    BY <1>2, <1>4 DEF IsRow
  <2>3. Ones[i] = 1
    BY RowConstants
  <2>4. /\ Padded(p, i) => in[i] = 0 /\ y[i] = 0
        /\ Reduced(s[i]) = Reduced(k * in[i]) /\ Reduced(drop[i]) = Reduced(d * s[i])
    BY <1>2 DEF NormBack
  <2> DEFINE z == k * Reduced(d * outs[i] + x[i]) + a * hat[i] + b
             yy == IF Padded(p, i) THEN z ELSE y[i]
  <2>5. Reduced(yy) = Reduced(z)
    BY <1>2, <1>3 DEF NormValue
  <2>6. yy \in Int
    <3> DEFINE e == d * outs[i] + x[i]
    <3>1. e \in Int
      <4> HIDE DEF d
      <4> QED BY <2>1, <2>2
    <3> HIDE DEF e
    <3> DEFINE r == Reduced(e)
    <3>2. r \in Int
      BY <3>1, ReducedType
    <3> HIDE DEF r, k, d, a, b, hat, y
    <3>3. k * r + a * hat[i] + b \in Int
      BY <1>1, <2>1, <2>2, <3>2
    <3>4. z = k * r + a * hat[i] + b
      BY DEF r, e
    <3> HIDE DEF z
    <3> QED BY <2>2, <3>3, <3>4
  <2>7. NormFacts(in[i], yy, k, d, outs[i], x[i], a, hat[i], b, s[i], drop[i])
    <3> HIDE DEF yy, k, d, a, b, hat
    <3> QED BY <2>4, <2>5 DEF NormFacts
  <2> HIDE DEF k, d, a, b, hat, yy
  <2>8. Reduced(in[i] * yy)
          = Reduced(drop[i] * outs[i] + s[i] * x[i] + a * (hat[i] * in[i]) + b * (1 * in[i]))
    <3>1. /\ in[i] \in Int /\ k \in Int /\ d \in Int /\ outs[i] \in Int /\ x[i] \in Int
          /\ a \in Int /\ hat[i] \in Int /\ b \in Int /\ s[i] \in Int /\ drop[i] \in Int
      BY <1>1, <2>1, <2>2
    <3>2. NormSplits(in[i], yy, outs[i], x[i], a, hat[i], b, s[i], drop[i])
      BY <2>6, <2>7, <3>1, NormTerm
    <3> QED BY <3>2 DEF NormSplits
  <2>9. in[i] * yy = in[i] * y[i]
    <3>1. CASE Padded(p, i)
      BY <2>2, <2>4, <2>6, <3>1
    <3>2. CASE ~Padded(p, i)
      BY <3>2 DEF yy
    <3> QED BY <3>1, <3>2
  <2> QED BY <2>3, <2>8, <2>9
<1>6. SplitsInFour(p, in, y, drop, outs, s, x, a, hat, in, b, Ones, in)
  BY <1>5 DEF SplitsInFour
<1>7. IsRow(p, Ones)
  BY RowConstants
<1> HIDE DEF y, a, b, hat
<1>8. Reduced(Dot(p, in, y))
        = Reduced(Dot(p, drop, outs) + Dot(p, s, x) + a * Dot(p, hat, in) + b * Dot(p, Ones, in))
  BY <1>1, <1>2, <1>4, <1>6, <1>7, DotOfFour
<1> QED BY <1>8 DEF y, a, b, hat

(* The activation and, with SwiGLU, its gate.                              *)
LEMMA ActIdentity ==
  ASSUME NEW h \in Int, NEW y \in Int, NEW s \in Int, NEW u \in Int, NEW t \in Int, NEW v \in Int,
         NEW b \in Int, NEW g \in Int, NEW m \in Int, NEW n1 \in Int, NEW n2 \in Int, NEW n3 \in Int,
         y = s * u + t * v + m * n1, b = h * s + m * n2, g = h * t + m * n3
  PROVE  h * y = b * u + g * v + 0 * (0 * 0) + 0 * (0 * 0) + m * (h * n1 - n2 * u - n3 * v)
OBVIOUS

ActFacts(h, y, s, u, t, v, b, g) ==
  /\ Reduced(y) = Reduced(s * u + t * v)
  /\ Reduced(b) = Reduced(h * s)
  /\ Reduced(g) = Reduced(h * t)

ActSplits(h, y, u, v, b, g) ==
  Reduced(h * y) = Reduced(b * u + g * v + 0 * (0 * 0) + 0 * (0 * 0))

LEMMA ActTerm ==
  ASSUME NEW h \in Int, NEW y \in Int, NEW s \in Int, NEW u \in Int, NEW t \in Int, NEW v \in Int,
         NEW b \in Int, NEW g \in Int, ActFacts(h, y, s, u, t, v, b, g)
  PROVE  ActSplits(h, y, u, v, b, g)
<1> DEFINE e1 == s * u + t * v
           e2 == h * s
           e3 == h * t
           left == h * y
           right == b * u + g * v + 0 * (0 * 0) + 0 * (0 * 0)
<1>1. e1 \in Int /\ e2 \in Int /\ e3 \in Int /\ left \in Int /\ right \in Int /\ Modulo \in Int
  BY ModuloIs
<1>2. Reduced(y) = Reduced(e1) /\ Reduced(b) = Reduced(e2) /\ Reduced(g) = Reduced(e3)
  BY DEF ActFacts
<1> HIDE DEF e1, e2, e3, left, right
<1>3. PICK n1 \in Int : y = e1 + Modulo * n1
  BY <1>1, <1>2, ReducedSame
<1>4. PICK n2 \in Int : b = e2 + Modulo * n2
  BY <1>1, <1>2, ReducedSame
<1>5. PICK n3 \in Int : g = e3 + Modulo * n3
  BY <1>1, <1>2, ReducedSame
<1> DEFINE z == h * n1 - n2 * u - n3 * v
<1>6. left = right + Modulo * z
  BY <1>1, <1>3, <1>4, <1>5, ActIdentity DEF e1, e2, e3, left, right
<1>7. z \in Int
  OBVIOUS
<1> HIDE DEF z
<1>8. \E m \in Int : left = right + Modulo * m
  BY <1>6, <1>7
<1>9. Reduced(left) = Reduced(right)
  BY <1>1, <1>8, ReducedSame
<1> QED BY <1>9 DEF left, right, ActSplits

ActRows(p, l, h, back, gate) ==
  \A i \in RowsOf(p) : /\ Reduced(back[i]) = Reduced(h[i] * SlopeByInput(p, l, i))
                       /\ Uses(p, "SWIGLU") => Reduced(gate[i]) = Reduced(h[i] * SlopeByGate(p, l, i))

LEMMA ActDot ==
  ASSUME NEW p, IsPass(p), NEW l \in 1..p.net.layers, NEW up, NEW side, IsRow(p, up), IsRow(p, side),
         NEW h, NEW back, NEW gate, IsRow(p, h), IsRow(p, back), IsRow(p, gate),
         ActRows(p, l, h, back, gate)
  PROVE  Reduced(Dot(p, h, ActTangent(p, l, up, side)))
           = Reduced(Dot(p, back, up) + (IF Uses(p, "SWIGLU") THEN Dot(p, gate, side) ELSE 0))
<1> DEFINE y == ActTangent(p, l, up, side)
           used == IF Uses(p, "SWIGLU") THEN gate ELSE Zeros
           slope(i) == IF Uses(p, "SWIGLU") THEN SlopeByGate(p, l, i) ELSE 0
<1>1. /\ IsRow(p, y)
      /\ \A i \in RowsOf(p) : Reduced(y[i])
           = Reduced(SlopeByInput(p, l, i) * up[i]
                       + (IF Uses(p, "SWIGLU") THEN SlopeByGate(p, l, i) * side[i] ELSE 0))
  BY ActTangentIs
<1>2. IsRow(p, used) /\ IsRow(p, Zeros) /\ \A i \in RowsOf(p) : Zeros[i] = 0
  BY RowConstants
<1> HIDE DEF y
<1>3. ASSUME NEW i \in RowsOf(p)
      PROVE  Reduced(h[i] * y[i])
               = Reduced(back[i] * up[i] + used[i] * side[i] + 0 * (Zeros[i] * Zeros[i])
                           + 0 * (Zeros[i] * Zeros[i]))
  <2>1. SlopeByInput(p, l, i) \in Int /\ SlopeByGate(p, l, i) \in Int
    BY LayerNumbers
  <2>2. slope(i) \in Int
    BY <2>1
  <2>3. h[i] \in Int /\ y[i] \in Int /\ up[i] \in Int /\ side[i] \in Int /\ back[i] \in Int /\ used[i] \in Int
    <3> HIDE DEF used
    <3> QED BY <1>1, <1>2 DEF IsRow
  <2>4. slope(i) * side[i] = IF Uses(p, "SWIGLU") THEN SlopeByGate(p, l, i) * side[i] ELSE 0
    BY <2>3
  <2>5. Reduced(y[i]) = Reduced(SlopeByInput(p, l, i) * up[i] + slope(i) * side[i])
    BY <1>1, <2>4
  <2>6. Reduced(used[i]) = Reduced(h[i] * slope(i))
    <3>1. CASE Uses(p, "SWIGLU")
      BY <3>1 DEF ActRows
    <3>2. CASE ~Uses(p, "SWIGLU")
      <4>1. h[i] * slope(i) = 0 /\ used[i] = 0
        BY <1>2, <2>3, <3>2
      <4> QED BY <4>1
    <3> QED BY <3>1, <3>2
  <2>7. Reduced(back[i]) = Reduced(h[i] * SlopeByInput(p, l, i))
    BY DEF ActRows
  <2> HIDE DEF slope, used
  <2>8. ActFacts(h[i], y[i], SlopeByInput(p, l, i), up[i], slope(i), side[i], back[i], used[i])
    BY <2>5, <2>6, <2>7 DEF ActFacts
  <2>9. ActSplits(h[i], y[i], up[i], side[i], back[i], used[i])
    BY <2>1, <2>2, <2>3, <2>8, ActTerm
  <2> QED BY <1>2, <2>9 DEF ActSplits
<1>4. SplitsInFour(p, h, y, back, up, used, side, 0, Zeros, Zeros, 0, Zeros, Zeros)
  BY <1>3 DEF SplitsInFour
<1>5. Dot(p, Zeros, Zeros) = 0
  BY RowConstants
<1>6. Dot(p, used, side) = IF Uses(p, "SWIGLU") THEN Dot(p, gate, side) ELSE 0
  BY RowConstants
<1> HIDE DEF used
<1>7. Reduced(Dot(p, h, y))
        = Reduced(Dot(p, back, up) + Dot(p, used, side) + 0 * Dot(p, Zeros, Zeros)
                    + 0 * Dot(p, Zeros, Zeros))
  BY <1>1, <1>2, <1>4, DotOfFour
<1>8. Dot(p, back, up) \in Int /\ Dot(p, used, side) \in Int
  BY <1>2, DotIs
<1>9. Dot(p, back, up) + Dot(p, used, side) + 0 * Dot(p, Zeros, Zeros) + 0 * Dot(p, Zeros, Zeros)
        = Dot(p, back, up) + Dot(p, used, side)
  BY <1>5, <1>8
<1> QED BY <1>6, <1>7, <1>9 DEF y

(* A multiple of a row.                                                    *)
ScaledRow(p, c, f, g) == \A i \in RowsOf(p) : Reduced(g[i]) = Reduced(c * f[i])

LEMMA DotScaled ==
  ASSUME NEW p, IsPass(p), NEW c \in Int, NEW f, NEW g, NEW h, IsRow(p, f), IsRow(p, g), IsRow(p, h),
         ScaledRow(p, c, f, g)
  PROVE  Reduced(Dot(p, g, h)) = Reduced(c * Dot(p, f, h))
<1> DEFINE n == p.window.len
           a == [i \in RowsOf(p) |-> g[i] * h[i]]
           b == [i \in RowsOf(p) |-> f[i] * h[i]]
           s == [i \in RowsOf(p) |-> c * b[i]]
<1>1. n \in Nat /\ RowsOf(p) = 1..n
  BY PassIs
<1>2. Dot(p, g, h) = SumOf(a, n) /\ Dot(p, f, h) = SumOf(b, n)
  BY DEF Dot, RowSum
<1>3. ASSUME NEW i \in 1..n
      PROVE  a[i] \in Int /\ b[i] \in Int /\ s[i] \in Int /\ s[i] = c * b[i] /\ Reduced(a[i]) = Reduced(s[i])
  <2>1. f[i] \in Int /\ g[i] \in Int /\ h[i] \in Int
    BY <1>1 DEF IsRow
  <2>2. a[i] = g[i] * h[i] /\ b[i] = f[i] * h[i] /\ s[i] = c * b[i]
    BY <1>1
  <2> HIDE DEF a, b, s
  <2>3. a[i] \in Int /\ b[i] \in Int
    BY <2>1, <2>2
  <2>4. s[i] \in Int
    BY <2>2, <2>3
  <2> DEFINE e == c * f[i]
  <2>5. e \in Int
    BY <2>1
  <2>8. s[i] = e * h[i]
    BY <2>1, <2>2
  <2>6. Reduced(g[i]) = Reduced(e)
    BY <1>1 DEF ScaledRow
  <2> HIDE DEF e
  <2>7. Reduced(g[i] * h[i]) = Reduced(e * h[i])
    <3> DEFINE y == g[i]
               z == h[i]
    <3>1. y \in Int /\ z \in Int /\ Reduced(y) = Reduced(e)
      BY <2>1, <2>6
    <3> HIDE DEF y, z
    <3>2. Reduced(y * z) = Reduced(e * z)
      BY <2>5, <3>1, ReducedBeside
    <3> QED BY <3>2 DEF y, z
  <2> QED BY <2>2, <2>3, <2>4, <2>7, <2>8
<1> HIDE DEF a, b, s, n
<1>4. Reduced(SumOf(a, n)) = Reduced(SumOf(s, n))
  BY <1>1, <1>3, ReducedSum
<1>5. SumOf(s, n) = c * SumOf(b, n)
  BY <1>1, <1>3, SumTimes
<1> QED BY <1>2, <1>4, <1>5

(* A sum of two sums.                                                      *)
LEMMA RowSumOfTwo ==
  ASSUME NEW p, IsPass(p), NEW h, NEW f, NEW g,
         \A i \in RowsOf(p) : /\ h[i] \in Int /\ f[i] \in Int /\ g[i] \in Int
                              /\ Reduced(h[i]) = Reduced(f[i] + g[i])
  PROVE  Reduced(RowSum(p, h)) = Reduced(RowSum(p, f) + RowSum(p, g))
<1>1. p.window.len \in Nat /\ RowsOf(p) = 1..p.window.len
  BY PassIs
<1> QED BY <1>1, ReducedSumOfTwo DEF RowSum

(* Rows summed along columns.                                              *)
Across(p, a, c, v) == RowSum(p, [i \in RowsOf(p) |-> c[i] * Dot(p, a[i], v)])
Down(p, a, c) == [j \in RowsOf(p) |-> RowSum(p, [i \in RowsOf(p) |-> a[i][j] * c[i]])]

LEMMA DotSwap ==
  ASSUME NEW p, IsPass(p), NEW a, NEW c, NEW v, IsSquare(p, a), IsRow(p, c), IsRow(p, v)
  PROVE  Across(p, a, c, v) = Dot(p, Down(p, a, c), v)
<1> DEFINE n == p.window.len
           part(i) == [j \in RowsOf(p) |-> a[i][j] * v[j]]
           m == [i \in 1..n |-> [j \in 1..n |-> c[i] * (a[i][j] * v[j])]]
           rows == [i \in RowsOf(p) |-> c[i] * Dot(p, a[i], v)]
           up(j) == [i \in RowsOf(p) |-> a[i][j] * c[i]]
           back == [j \in RowsOf(p) |-> RowSum(p, up(j))]
           cols == [j \in RowsOf(p) |-> back[j] * v[j]]
           col(j) == [i \in 1..n |-> m[i][j]]
<1>1. n \in Nat /\ RowsOf(p) = 1..n
  BY PassIs
<1>2. \A i \in 1..n, j \in 1..n : a[i][j] \in Int /\ c[i] \in Int /\ v[j] \in Int
  BY <1>1 DEF IsSquare, IsRow
<1>3. \A i \in 1..n, j \in 1..n : m[i][j] = c[i] * (a[i][j] * v[j])
  OBVIOUS
<1>4. ASSUME NEW i \in 1..n, NEW j \in 1..n
      PROVE  /\ m[i][j] \in Int /\ part(i)[j] \in Int /\ up(j)[i] \in Int
             /\ m[i][j] = c[i] * part(i)[j] /\ m[i][j] = v[j] * up(j)[i]
  <2>1. part(i)[j] = a[i][j] * v[j] /\ up(j)[i] = a[i][j] * c[i]
    BY <1>1
  <2>2. m[i][j] = c[i] * (a[i][j] * v[j])
    BY <1>3
  <2>3. a[i][j] \in Int /\ c[i] \in Int /\ v[j] \in Int
    BY <1>2
  <2> DEFINE x == a[i][j]
             y == c[i]
             z == v[j]
  <2>4. x \in Int /\ y \in Int /\ z \in Int
    BY <2>3
  <2> HIDE DEF m, part, up
  <2>5. part(i)[j] = x * z /\ up(j)[i] = x * y /\ m[i][j] = y * (x * z)
    BY <2>1, <2>2
  <2> HIDE DEF x, y, z
  <2>6. y * (x * z) = z * (x * y) /\ x * z \in Int /\ x * y \in Int /\ y * (x * z) \in Int
    BY <2>4
  <2> QED BY <2>5, <2>6 DEF y, z
<1>5. \A i \in 1..n : rows[i] = c[i] * SumOf(part(i), n)
  BY <1>1 DEF Dot, RowSum
<1>6. \A j \in 1..n : back[j] = SumOf(up(j), n) /\ cols[j] = back[j] * v[j] /\ \A i \in 1..n : col(j)[i] = m[i][j]
  BY <1>1 DEF RowSum
<1>7. RowSum(p, rows) = SumOf(rows, n) /\ Dot(p, back, v) = SumOf(cols, n)
  BY DEF Dot, RowSum
<1> HIDE DEF rows, cols, back, m, part, up, n, col
<1>8. ASSUME NEW i \in 1..n PROVE rows[i] = SumOf(m[i], n)
  <2>1. SumOf(m[i], n) = c[i] * SumOf(part(i), n)
    <3>1. c[i] \in Int /\ \A j \in 1..n : part(i)[j] \in Int /\ m[i][j] = c[i] * part(i)[j]
      BY <1>2, <1>4
    <3> QED BY <1>1, <3>1, SumTimes
  <2> QED BY <1>5, <2>1
<1>9. ASSUME NEW j \in 1..n PROVE cols[j] = SumOf(col(j), n)
  <2>1. v[j] \in Int /\ \A i \in 1..n : up(j)[i] \in Int /\ col(j)[i] = v[j] * up(j)[i]
    BY <1>2, <1>4, <1>6
  <2>2. SumOf(col(j), n) = v[j] * SumOf(up(j), n)
    BY <1>1, <2>1, SumTimes
  <2>3. SumOf(up(j), n) \in Int
    BY <1>1, <2>1, SumInInt
  <2>4. cols[j] = SumOf(up(j), n) * v[j]
    BY <1>6
  <2> QED BY <2>1, <2>2, <2>3, <2>4
<1>10. SumOf(rows, n) = SumOf(cols, n)
  <2>1. \A i \in 1..n, j \in 1..n : m[i][j] \in Int
    BY <1>4
  <2>2. \A j \in 1..n : cols[j] = SumOf([i \in 1..n |-> m[i][j]], n)
    BY <1>9 DEF col
  <2>3. SummedBothWays(m, rows, cols, n, n)
    BY <1>8, <2>1, <2>2 DEF SummedBothWays
  <2> QED BY <1>1, <2>3, SumSwap
<1> QED BY <1>7, <1>10 DEF rows, back, up, Across, Down

(* softmax and its backward pass are each other's adjoint: both subtract a *)
(* sum weighted by the probabilities.                                      *)
LEMMA CentredIdentity ==
  ASSUME NEW b \in Int, NEW y \in Int, NEW w \in Int, NEW s \in Int, NEW r \in Int, NEW m \in Int,
         NEW n \in Int, y = w * (s - r) + m * n
  PROVE  b * y = (w * b) * s + 0 * 0 + (-r) * (w * b) + 0 * (0 * 0) + m * (b * n)
OBVIOUS

CentredFact(y, w, s, r) == Reduced(y) = Reduced(w * (s - r))

CentredSplits(b, y, w, s, r) ==
  Reduced(b * y) = Reduced((w * b) * s + 0 * 0 + (-r) * (w * b) + 0 * (0 * 0))

LEMMA CentredTerm ==
  ASSUME NEW b \in Int, NEW y \in Int, NEW w \in Int, NEW s \in Int, NEW r \in Int,
         CentredFact(y, w, s, r)
  PROVE  CentredSplits(b, y, w, s, r)
<1> DEFINE e == w * (s - r)
           left == b * y
           right == (w * b) * s + 0 * 0 + (-r) * (w * b) + 0 * (0 * 0)
<1>1. e \in Int /\ left \in Int /\ right \in Int /\ Modulo \in Int
  BY ModuloIs
<1>2. Reduced(y) = Reduced(e)
  BY DEF CentredFact
<1> HIDE DEF e, left, right
<1>3. PICK n \in Int : y = e + Modulo * n
  BY <1>1, <1>2, ReducedSame
<1> DEFINE z == b * n
<1>4. left = right + Modulo * z
  BY <1>1, <1>3, CentredIdentity DEF e, left, right
<1>5. z \in Int
  OBVIOUS
<1> HIDE DEF z
<1>6. \E m \in Int : left = right + Modulo * m
  BY <1>4, <1>5
<1>7. Reduced(left) = Reduced(right)
  BY <1>1, <1>6, ReducedSame
<1> QED BY <1>7 DEF left, right, CentredSplits

Products(p, f, g) == [i \in RowsOf(p) |-> f[i] * g[i]]

CentredRow(p, y, w, s, r) == \A i \in RowsOf(p) : Reduced(y[i]) = Reduced(w[i] * (s[i] - r))

LEMMA CentredDot ==
  ASSUME NEW p, IsPass(p), NEW w, NEW s, NEW y, NEW b, IsRow(p, w), IsRow(p, s), IsRow(p, y), IsRow(p, b),
         NEW r \in Int, CentredRow(p, y, w, s, r)
  PROVE  Reduced(Dot(p, b, y)) = Reduced(Dot(p, Products(p, w, b), s) + (-r) * Dot(p, w, b))
<1> DEFINE wb == Products(p, w, b)
<1>1. \A i \in RowsOf(p) : wb[i] = w[i] * b[i]
  BY DEF Products
<1>2. /\ IsRow(p, Zeros) /\ Dot(p, Zeros, Zeros) = 0
      /\ \A i \in RowsOf(p) : Zeros[i] = 0
  BY RowConstants
<1>3. ASSUME NEW i \in RowsOf(p)
      PROVE  /\ wb[i] \in Int
             /\ Reduced(b[i] * y[i])
                  = Reduced(wb[i] * s[i] + Zeros[i] * Zeros[i] + (-r) * (w[i] * b[i])
                              + 0 * (Zeros[i] * Zeros[i]))
  <2>1. b[i] \in Int /\ y[i] \in Int /\ w[i] \in Int /\ s[i] \in Int
    BY DEF IsRow
  <2>2. CentredFact(y[i], w[i], s[i], r)
    BY DEF CentredRow, CentredFact
  <2>3. CentredSplits(b[i], y[i], w[i], s[i], r)
    BY <2>1, <2>2, CentredTerm
  <2>4. w[i] * b[i] \in Int
    BY <2>1
  <2> QED BY <1>1, <1>2, <2>3, <2>4 DEF CentredSplits
<1>4. IsRow(p, wb)
  BY <1>3 DEF IsRow
<1>5. SplitsInFour(p, b, y, wb, s, Zeros, Zeros, -r, w, b, 0, Zeros, Zeros)
  BY <1>3 DEF SplitsInFour
<1> HIDE DEF wb
<1>6. Reduced(Dot(p, b, y))
        = Reduced(Dot(p, wb, s) + Dot(p, Zeros, Zeros) + (-r) * Dot(p, w, b) + 0 * Dot(p, Zeros, Zeros))
  BY <1>2, <1>4, <1>5, -r \in Int, DotOfFour
<1>7. Dot(p, wb, s) \in Int /\ Dot(p, w, b) \in Int
  BY <1>4, DotIs
<1>8. Dot(p, wb, s) + Dot(p, Zeros, Zeros) + (-r) * Dot(p, w, b) + 0 * Dot(p, Zeros, Zeros)
        = Dot(p, wb, s) + (-r) * Dot(p, w, b)
  BY <1>2, <1>7
<1> QED BY <1>6, <1>8 DEF wb

LEMMA CrossIdentity ==
  ASSUME NEW x \in Int, NEW y \in Int, NEW m \in Int, NEW r \in Int, NEW q \in Int, NEW k \in Int,
         NEW n \in Int, r = x + m * k, q = y + m * n
  PROVE  (-r) * y = (-q) * x + m * (n * x - k * y)
OBVIOUS

LEMMA CrossTerms ==
  ASSUME NEW x \in Int, NEW y \in Int
  PROVE  Reduced((-Reduced(x)) * y) = Reduced((-Reduced(y)) * x)
<1> DEFINE r == Reduced(x)
           q == Reduced(y)
<1>1. r \in Int /\ q \in Int /\ Reduced(r) = Reduced(x) /\ Reduced(q) = Reduced(y) /\ Modulo \in Int
  BY ReducedType, ModuloIs
<1> HIDE DEF r, q
<1>2. PICK k \in Int : r = x + Modulo * k
  BY <1>1, ReducedSame
<1>3. PICK n \in Int : q = y + Modulo * n
  BY <1>1, ReducedSame
<1> DEFINE left == (-r) * y
           right == (-q) * x
           z == n * x - k * y
<1>4. left = right + Modulo * z
  BY <1>1, <1>2, <1>3, CrossIdentity
<1>5. left \in Int /\ right \in Int /\ z \in Int
  BY <1>1
<1> HIDE DEF left, right, z
<1>6. \E m \in Int : left = right + Modulo * m
  BY <1>4, <1>5
<1>7. Reduced(left) = Reduced(right)
  BY <1>5, <1>6, ReducedSame
<1> QED BY <1>7 DEF left, right, r, q

(* w: probabilities; s: the tangent's scores; b: what comes back to the    *)
(* probabilities; y and z: the two results.                                *)
LEMMA SoftmaxRow ==
  ASSUME NEW p, IsPass(p), NEW w, NEW s, NEW b, NEW y, NEW z,
         IsRow(p, w), IsRow(p, s), IsRow(p, b), IsRow(p, y), IsRow(p, z),
         CentredRow(p, y, w, s, Reduced(Dot(p, w, s))),
         CentredRow(p, z, w, b, Reduced(Dot(p, w, b)))
  PROVE  Reduced(Dot(p, b, y)) = Reduced(Dot(p, z, s))
<1> DEFINE left == Dot(p, w, s)
           right == Dot(p, w, b)
           wb == Products(p, w, b)
           ws0 == Products(p, w, s)
<1>1. left \in Int /\ right \in Int
  BY DotIs
<1>2. Reduced(left) \in Int /\ Reduced(right) \in Int
  BY <1>1, ReducedType
<1>3. Reduced(Dot(p, b, y)) = Reduced(Dot(p, wb, s) + (-Reduced(left)) * right)
  BY <1>2, CentredDot
<1>4. Reduced(Dot(p, s, z)) = Reduced(Dot(p, ws0, b) + (-Reduced(right)) * left)
  BY <1>2, CentredDot
<1>5. Reduced((-Reduced(left)) * right) = Reduced((-Reduced(right)) * left)
  <2> HIDE DEF left, right
  <2> QED BY <1>1, CrossTerms
<1>6. ASSUME NEW i \in RowsOf(p)
      PROVE  wb[i] \in Int /\ ws0[i] \in Int /\ wb[i] * s[i] = ws0[i] * b[i] /\ s[i] * z[i] = z[i] * s[i]
  <2>1. w[i] \in Int /\ s[i] \in Int /\ b[i] \in Int /\ z[i] \in Int
    BY DEF IsRow
  <2>2. wb[i] = w[i] * b[i] /\ ws0[i] = w[i] * s[i]
    BY DEF Products
  <2> HIDE DEF wb, ws0
  <2>3. (w[i] * b[i]) * s[i] = (w[i] * s[i]) * b[i] /\ w[i] * b[i] \in Int /\ w[i] * s[i] \in Int
    BY <2>1
  <2>4. s[i] * z[i] = z[i] * s[i]
    BY <2>1
  <2> QED BY <2>2, <2>3, <2>4
<1> HIDE DEF wb, ws0
<1>7. IsRow(p, wb) /\ IsRow(p, ws0)
  BY <1>6 DEF IsRow
<1>8. Reduced(Dot(p, wb, s)) = Reduced(Dot(p, ws0, b))
  <2>1. SameProducts(p, wb, s, ws0, b)
    BY <1>6 DEF SameProducts
  <2> QED BY <1>7, <2>1, DotOfOne
<1>9. Reduced(Dot(p, s, z)) = Reduced(Dot(p, z, s))
  <2>1. SameProducts(p, s, z, z, s)
    BY <1>6 DEF SameProducts
  <2> QED BY <2>1, DotOfOne
<1> DEFINE l1 == Dot(p, wb, s)
           l2 == Dot(p, ws0, b)
           t1 == (-Reduced(left)) * right
           t2 == (-Reduced(right)) * left
<1>10. l1 \in Int /\ l2 \in Int
  BY <1>7, DotIs
<1>11. t1 \in Int /\ t2 \in Int
  <2> DEFINE r == Reduced(left)
             q == Reduced(right)
  <2>1. r \in Int /\ q \in Int
    BY <1>2
  <2> HIDE DEF left, right, r, q
  <2>2. (-r) * right \in Int /\ (-q) * left \in Int
    BY <1>1, <2>1
  <2> QED BY <2>2 DEF r, q
<1>12. Reduced(l1) = Reduced(l2) /\ Reduced(t1) = Reduced(t2)
  BY <1>5, <1>8
<1>13. Reduced(Dot(p, b, y)) = Reduced(l1 + t1) /\ Reduced(Dot(p, s, z)) = Reduced(l2 + t2)
  BY <1>3, <1>4
<1> HIDE DEF l1, l2, t1, t2
<1>14. Reduced(l1 + t1) = Reduced(l2 + t2)
  BY <1>10, <1>11, <1>12, ReducedPlus
<1> QED BY <1>9, <1>13, <1>14

(* The contexts of the heads, back to the values and the scores.           *)
LEMMA DotCommutes ==
  ASSUME NEW p, IsPass(p), NEW f, NEW g, IsRow(p, f), IsRow(p, g)
  PROVE  Dot(p, f, g) = Dot(p, g, f)
<1>1. ASSUME NEW i \in RowsOf(p) PROVE f[i] * g[i] = g[i] * f[i]
  BY DEF IsRow
<1>2. [i \in RowsOf(p) |-> f[i] * g[i]] = [i \in RowsOf(p) |-> g[i] * f[i]]
  BY <1>1, Zenon
<1> QED BY <1>2 DEF Dot

Scores(p, b, s) == RowSum(p, [i \in RowsOf(p) |-> Dot(p, b[i], s[i])])

LEMMA CacheRowIs ==
  ASSUME NEW p, IsPass(p), NEW l \in 1..p.net.layers, NEW name \in Holders
  PROVE  /\ IsRow(p, CacheRow(p, name, l)) /\ IsRow(p, RealRow(p, name, l))
         /\ \A i \in RowsOf(p) : /\ CacheRow(p, name, l)[i] = Cached(p, name, l, i)
                                 /\ RealRow(p, name, l)[i] = CachedOrZero(p, name, l, i)
BY LayerNumbers DEF CacheRow, RealRow, IsRow

ProbBackRow(p, l, c, i) == [j \in RowsOf(p) |-> ProbBack(p, l, c, i, j)]

LEMMA ProbBackIs ==
  ASSUME NEW p, IsPass(p), NEW l \in 1..p.net.layers, NEW c, IsRow(p, c), NEW i \in RowsOf(p)
  PROVE  /\ IsRow(p, ProbBackRow(p, l, c, i))
         /\ ScaledRow(p, c[i], CacheRow(p, "V", l), ProbBackRow(p, l, c, i))
<1>1. ASSUME NEW j \in RowsOf(p)
      PROVE  /\ ProbBackRow(p, l, c, i)[j] \in Int
             /\ Reduced(ProbBackRow(p, l, c, i)[j]) = Reduced(c[i] * CacheRow(p, "V", l)[j])
  <2> DEFINE e == c[i] * Cached(p, "V", l, j)
  <2>1. c[i] \in Int /\ Cached(p, "V", l, j) \in Int
    BY LayerNumbers, HolderNames DEF IsRow
  <2>2. e \in Int
    BY <2>1
  <2>3. ProbBackRow(p, l, c, i)[j] = Reduced(e) /\ CacheRow(p, "V", l)[j] = Cached(p, "V", l, j)
    BY DEF ProbBackRow, ProbBack, CacheRow
  <2>4. Reduced(e) \in Int /\ Reduced(Reduced(e)) = Reduced(e)
    <3> HIDE DEF e
    <3> QED BY <2>2, ReducedType
  <2> QED BY <2>3, <2>4
<1> QED BY <1>1 DEF IsRow, ScaledRow

LEMMA ScoreBackIs ==
  ASSUME NEW p, IsPass(p), NEW l \in 1..p.net.layers, NEW c, IsRow(p, c), NEW i \in RowsOf(p),
         NEW z, \A j \in RowsOf(p) : z[j] = ScoreBack(p, l, c, i, j)
  PROVE  /\ IsRow(p, z)
         /\ CentredRow(p, z, ProbRow(p, l, i), ProbBackRow(p, l, c, i),
                       Reduced(Dot(p, ProbRow(p, l, i), ProbBackRow(p, l, c, i))))
<1> DEFINE w == ProbRow(p, l, i)
           b == ProbBackRow(p, l, c, i)
           d == Dot(p, w, b)
<1>1. IsRow(p, w) /\ IsRow(p, b)
  BY ProbRowIs, ProbBackIs
<1>2. d \in Int
  BY <1>1, DotIs
<1>3. Reduced(d) \in Int
  BY <1>2, ReducedType
<1>4. d = RowSum(p, [n \in RowsOf(p) |-> Probs(p, l, i, n) * ProbBack(p, l, c, i, n)])
  <2>1. [n \in RowsOf(p) |-> w[n] * b[n]]
          = [n \in RowsOf(p) |-> Probs(p, l, i, n) * ProbBack(p, l, c, i, n)]
    BY DEF ProbRow, ProbBackRow
  <2> QED BY <2>1 DEF Dot
<1>5. ASSUME NEW j \in RowsOf(p)
      PROVE  z[j] \in Int /\ Reduced(z[j]) = Reduced(w[j] * (b[j] - Reduced(d)))
  <2> DEFINE e == w[j] * (b[j] - Reduced(d))
  <2>1. w[j] = Probs(p, l, i, j) /\ b[j] = ProbBack(p, l, c, i, j)
    BY DEF ProbRow, ProbBackRow
  <2>2. z[j] = Reduced(e)
    BY <1>4, <2>1 DEF ScoreBack
  <2>3. w[j] \in Int /\ b[j] \in Int
    BY <1>1 DEF IsRow
  <2> HIDE DEF w, b, d
  <2>4. e \in Int
    BY <1>3, <2>3
  <2> HIDE DEF e
  <2>5. Reduced(e) \in Int /\ Reduced(Reduced(e)) = Reduced(e)
    BY <2>4, ReducedType
  <2> QED BY <2>2, <2>5 DEF e
<1> QED BY <1>5 DEF IsRow, CentredRow

BackSquare(p, l, c, b) == \A i, j \in RowsOf(p) : b[i][j] = ScoreBack(p, l, c, i, j)

LEMMA ProbsRow ==
  ASSUME NEW p, IsPass(p), NEW l \in 1..p.net.layers, NEW s, IsSquare(p, s), NEW v, IsRow(p, v),
         NEW c, IsRow(p, c), NEW b, BackSquare(p, l, c, b), NEW i \in RowsOf(p)
  PROVE  /\ Dot(p, b[i], s[i]) \in Int
         /\ Dot(p, ProbRow(p, l, i), v) \in Int
         /\ Reduced(c[i] * ContextTangent(p, l, s, v)[i])
              = Reduced(Dot(p, b[i], s[i]) + c[i] * Dot(p, ProbRow(p, l, i), v))
<1> DEFINE w == ProbRow(p, l, i)
           pb == ProbBackRow(p, l, c, i)
           pt == [j \in RowsOf(p) |-> ProbTangent(p, l, s, i, j)]
           vr == CacheRow(p, "V", l)
           term == [j \in RowsOf(p) |->
             ProbTangent(p, l, s, i, j) * Cached(p, "V", l, j) + Probs(p, l, i, j) * v[j]]
           f == [j \in RowsOf(p) |-> pt[j] * vr[j]]
           g == [j \in RowsOf(p) |-> w[j] * v[j]]
           y == ContextTangent(p, l, s, v)[i]
<1>1. IsRow(p, w) /\ IsRow(p, pb) /\ IsRow(p, vr) /\ IsRow(p, s[i]) /\ c[i] \in Int
  BY ProbRowIs, ProbBackIs, CacheRowIs, HolderNames DEF IsSquare, IsRow
<1>2. /\ IsRow(p, pt)
      /\ CentredRow(p, pt, w, s[i], Reduced(Dot(p, w, s[i])))
  BY ProbTangentIs DEF IsRow, CentredRow, ProbRow
<1>3. /\ IsRow(p, b[i])
      /\ CentredRow(p, b[i], w, pb, Reduced(Dot(p, w, pb)))
  <2>1. \A j \in RowsOf(p) : b[i][j] = ScoreBack(p, l, c, i, j)
    BY DEF BackSquare
  <2> QED BY <2>1, ScoreBackIs
<1>4. y \in Int /\ Reduced(y) = Reduced(RowSum(p, term))
  BY ContextTangentIs DEF IsRow
<1>5. ASSUME NEW j \in RowsOf(p)
      PROVE  term[j] \in Int /\ f[j] \in Int /\ g[j] \in Int /\ Reduced(term[j]) = Reduced(f[j] + g[j])
  <2>1. pt[j] \in Int /\ vr[j] \in Int /\ w[j] \in Int /\ v[j] \in Int
    <3> HIDE DEF pt, vr, w
    <3> QED BY <1>1, <1>2 DEF IsRow
  <2>2. f[j] = pt[j] * vr[j] /\ g[j] = w[j] * v[j]
    OBVIOUS
  <2>3. term[j] = pt[j] * vr[j] + w[j] * v[j]
    BY DEF CacheRow, ProbRow
  <2> HIDE DEF pt, vr, w, term, f, g
  <2>4. f[j] \in Int /\ g[j] \in Int
    BY <2>1, <2>2
  <2>5. term[j] = f[j] + g[j]
    BY <2>2, <2>3
  <2> QED BY <2>4, <2>5
<1>6. Dot(p, pt, vr) = RowSum(p, f) /\ Dot(p, w, v) = RowSum(p, g)
  BY DEF Dot
<1> HIDE DEF pt, vr, w, pb, y, term, f, g
<1>7. Reduced(RowSum(p, term)) = Reduced(RowSum(p, f) + RowSum(p, g))
  BY <1>5, RowSumOfTwo
<1>8. Dot(p, pt, vr) \in Int /\ Dot(p, w, v) \in Int /\ Dot(p, pb, pt) \in Int /\ Dot(p, b[i], s[i]) \in Int
  BY <1>1, <1>2, <1>3, DotIs
<1> DEFINE ci == c[i]
           d1 == Dot(p, pt, vr)
           d2 == Dot(p, w, v)
           d3 == Dot(p, b[i], s[i])
<1>9. Reduced(y * ci) = Reduced((d1 + d2) * ci)
  <2> DEFINE e == d1 + d2
  <2>1. e \in Int /\ ci \in Int /\ Reduced(y) = Reduced(e)
    BY <1>1, <1>4, <1>6, <1>7, <1>8
  <2> HIDE DEF e, ci
  <2>2. Reduced(y * ci) = Reduced(e * ci)
    BY <1>4, <2>1, ReducedBeside
  <2> QED BY <2>2 DEF e
<1>10. Reduced(ci * d1) = Reduced(d3)
  <2>1. ScaledRow(p, ci, vr, pb)
    BY ProbBackIs DEF vr, pb
  <2>2. Reduced(Dot(p, pb, pt)) = Reduced(ci * Dot(p, vr, pt))
    BY <1>1, <1>2, <2>1, DotScaled
  <2>3. Dot(p, vr, pt) = Dot(p, pt, vr)
    BY <1>1, <1>2, DotCommutes
  <2>4. Reduced(Dot(p, pb, pt)) = Reduced(Dot(p, b[i], s[i]))
    BY <1>1, <1>2, <1>3, SoftmaxRow
  <2> QED BY <2>2, <2>3, <2>4
<1>11. d1 \in Int /\ d2 \in Int /\ d3 \in Int /\ ci \in Int
  BY <1>1, <1>8
<1> HIDE DEF d1, d2, d3, ci
<1>12. (d1 + d2) * ci = ci * d1 + ci * d2 /\ y * ci = ci * y /\ ci * d1 \in Int /\ ci * d2 \in Int
  BY <1>4, <1>11
<1>13. Reduced(ci * d1 + ci * d2) = Reduced(d3 + ci * d2)
  <2> DEFINE e == ci * d1
             z == ci * d2
  <2>1. e \in Int /\ z \in Int /\ Reduced(e) = Reduced(d3)
    BY <1>10, <1>12
  <2> HIDE DEF e, z
  <2>2. Reduced(e + z) = Reduced(d3 + z)
    BY <1>11, <2>1, ReducedBeside
  <2> QED BY <2>2 DEF e, z
<1> QED BY <1>8, <1>9, <1>12, <1>13 DEF d1, d2, d3, ci, w, y

LEMMA ProbsDot ==
  ASSUME NEW p, IsPass(p), NEW l \in 1..p.net.layers, NEW s, IsSquare(p, s), NEW v, IsRow(p, v),
         NEW c, IsRow(p, c), NEW b, BackSquare(p, l, c, b)
  PROVE  /\ IsRow(p, ValueBack(p, l, c)) /\ IsSquare(p, b)
         /\ Reduced(Dot(p, c, ContextTangent(p, l, s, v)))
              = Reduced(Scores(p, b, s) + Dot(p, ValueBack(p, l, c), v))
<1> DEFINE y == ContextTangent(p, l, s, v)
           a == [i \in RowsOf(p) |-> ProbRow(p, l, i)]
           h == [i \in RowsOf(p) |-> c[i] * y[i]]
           f == [i \in RowsOf(p) |-> Dot(p, b[i], s[i])]
           g == [i \in RowsOf(p) |-> c[i] * Dot(p, a[i], v)]
           col(j) == [i \in RowsOf(p) |-> a[i][j] * c[i]]
<1>1. IsSquare(p, b)
  <2>1. ASSUME NEW i \in RowsOf(p) PROVE IsRow(p, b[i])
    <3>1. \A j \in RowsOf(p) : b[i][j] = ScoreBack(p, l, c, i, j)
      BY DEF BackSquare
    <3> QED BY <3>1, ScoreBackIs
  <2> QED BY <2>1 DEF IsSquare, IsRow
<1>2. \A i \in RowsOf(p) : a[i] = ProbRow(p, l, i) /\ IsRow(p, a[i])
  BY ProbRowIs
<1>3. IsSquare(p, a)
  BY <1>2 DEF IsSquare, IsRow
<1>4. IsRow(p, y)
  BY ContextTangentIs
<1>5. ASSUME NEW i \in RowsOf(p)
      PROVE  /\ h[i] \in Int /\ f[i] \in Int /\ g[i] \in Int
             /\ Reduced(h[i]) = Reduced(f[i] + g[i])
  <2>1. c[i] \in Int /\ y[i] \in Int
    BY <1>4 DEF IsRow
  <2>2. /\ Dot(p, b[i], s[i]) \in Int /\ Dot(p, ProbRow(p, l, i), v) \in Int
        /\ Reduced(c[i] * y[i]) = Reduced(Dot(p, b[i], s[i]) + c[i] * Dot(p, ProbRow(p, l, i), v))
    BY ProbsRow
  <2>3. h[i] = c[i] * y[i] /\ f[i] = Dot(p, b[i], s[i]) /\ g[i] = c[i] * Dot(p, ProbRow(p, l, i), v)
    BY <1>2
  <2> HIDE DEF h, f, g, y
  <2>4. h[i] \in Int /\ g[i] \in Int
    BY <2>1, <2>2, <2>3
  <2> QED BY <2>2, <2>3, <2>4
<1>6. Dot(p, c, y) = RowSum(p, h) /\ Scores(p, b, s) = RowSum(p, f)
  BY DEF Dot, Scores
<1>7. ASSUME NEW j \in RowsOf(p)
      PROVE  /\ ValueBack(p, l, c)[j] = RowSum(p, col(j))
             /\ IsRow(p, col(j))
  <2>1. col(j) = [i \in RowsOf(p) |-> Probs(p, l, i, j) * c[i]]
    BY DEF ProbRow
  <2>2. \A i \in RowsOf(p) : c[i] \in Int /\ a[i][j] \in Int
    BY <1>3 DEF IsSquare, IsRow
  <2>3. \A i \in RowsOf(p) : col(j)[i] = a[i][j] * c[i]
    OBVIOUS
  <2> HIDE DEF col, a
  <2>4. ASSUME NEW i \in RowsOf(p) PROVE col(j)[i] \in Int
    <3>1. c[i] \in Int /\ a[i][j] \in Int
      BY <2>2
    <3> QED BY <2>3, <3>1
  <2> QED BY <2>1, <2>4 DEF ValueBack, IsRow
<1>8. IsRow(p, ValueBack(p, l, c))
  <2> HIDE DEF col
  <2> QED BY <1>7, RowSumIs DEF IsRow
<1>9. ValueBack(p, l, c) = [j \in RowsOf(p) |-> RowSum(p, col(j))]
  BY <1>7 DEF ValueBack
<1>10. RowSum(p, g) = Dot(p, ValueBack(p, l, c), v)
  <2> HIDE DEF a
  <2>1. Across(p, a, c, v) = Dot(p, Down(p, a, c), v)
    BY <1>3, DotSwap
  <2>2. RowSum(p, g) = Across(p, a, c, v) /\ ValueBack(p, l, c) = Down(p, a, c)
    BY <1>9 DEF Across, Down
  <2> QED BY <2>1, <2>2
<1> HIDE DEF h, f, g, y
<1>11. Reduced(RowSum(p, h)) = Reduced(RowSum(p, f) + RowSum(p, g))
  BY <1>5, RowSumOfTwo
<1> QED BY <1>1, <1>6, <1>8, <1>10, <1>11 DEF y

(* The scores, back to the queries and the keys.                           *)
LEMMA ScoreIdentity ==
  ASSUME NEW b \in Int, NEW y \in Int, NEW q \in Int, NEW u \in Int, NEW k \in Int, NEW w \in Int,
         NEW m \in Int, NEW n \in Int, y = q * u + k * w + m * n
  PROVE  b * y = 0 * 0 + 0 * 0 + q * (b * u) + w * (b * k) + m * (b * n)
OBVIOUS

ScoreFact(y, q, u, k, w) == Reduced(y) = Reduced(q * u + k * w)

ScoreSplits(b, y, q, u, k, w) ==
  Reduced(b * y) = Reduced(0 * 0 + 0 * 0 + q * (b * u) + w * (b * k))

LEMMA ScoreTerm ==
  ASSUME NEW b \in Int, NEW y \in Int, NEW q \in Int, NEW u \in Int, NEW k \in Int, NEW w \in Int,
         ScoreFact(y, q, u, k, w)
  PROVE  ScoreSplits(b, y, q, u, k, w)
<1> DEFINE e == q * u + k * w
           left == b * y
           right == 0 * 0 + 0 * 0 + q * (b * u) + w * (b * k)
<1>1. e \in Int /\ left \in Int /\ right \in Int /\ Modulo \in Int
  BY ModuloIs
<1>2. Reduced(y) = Reduced(e)
  BY DEF ScoreFact
<1> HIDE DEF e, left, right
<1>3. PICK n \in Int : y = e + Modulo * n
  BY <1>1, <1>2, ReducedSame
<1> DEFINE z == b * n
<1>4. left = right + Modulo * z
  BY <1>1, <1>3, ScoreIdentity DEF e, left, right
<1>5. z \in Int
  OBVIOUS
<1> HIDE DEF z
<1>6. \E m \in Int : left = right + Modulo * m
  BY <1>4, <1>5
<1>7. Reduced(left) = Reduced(right)
  BY <1>1, <1>6, ReducedSame
<1> QED BY <1>7 DEF left, right, ScoreSplits

LEMMA ScoreRow ==
  ASSUME NEW p, IsPass(p), NEW l \in 1..p.net.layers, NEW q, NEW k, IsRow(p, q), IsRow(p, k),
         NEW b, IsSquare(p, b), NEW i \in RowsOf(p)
  PROVE  /\ Dot(p, b[i], ScoreTangent(p, l, q, k)[i]) \in Int
         /\ Dot(p, b[i], CacheRow(p, "K", l)) \in Int /\ Dot(p, b[i], k) \in Int
         /\ q[i] \in Int /\ Cached(p, "Q", l, i) \in Int
         /\ Reduced(Dot(p, b[i], ScoreTangent(p, l, q, k)[i]))
              = Reduced(q[i] * Dot(p, b[i], CacheRow(p, "K", l)) + Cached(p, "Q", l, i) * Dot(p, b[i], k))
<1> DEFINE s == ScoreTangent(p, l, q, k)[i]
           u == CacheRow(p, "K", l)
           w == Cached(p, "Q", l, i)
           qi == q[i]
           bi == b[i]
<1>1. /\ IsRow(p, s)
      /\ \A j \in RowsOf(p) : Reduced(s[j]) = Reduced(qi * Cached(p, "K", l, j) + k[j] * w)
  BY ScoreTangentIs DEF IsSquare, IsRow
<1>2. /\ IsRow(p, u) /\ w \in Int /\ qi \in Int /\ IsRow(p, bi)
      /\ \A j \in RowsOf(p) : u[j] = Cached(p, "K", l, j)
  BY CacheRowIs, LayerNumbers, HolderNames DEF IsSquare, IsRow
<1>3. /\ IsRow(p, Zeros) /\ Dot(p, Zeros, Zeros) = 0
      /\ \A j \in RowsOf(p) : Zeros[j] = 0
  BY RowConstants
<1> HIDE DEF s, u, w, qi, bi
<1>4. ASSUME NEW j \in RowsOf(p)
      PROVE  Reduced(bi[j] * s[j])
               = Reduced(Zeros[j] * Zeros[j] + Zeros[j] * Zeros[j] + qi * (bi[j] * u[j])
                           + w * (bi[j] * k[j]))
  <2>1. bi[j] \in Int /\ s[j] \in Int /\ u[j] \in Int /\ k[j] \in Int
    BY <1>1, <1>2 DEF IsRow
  <2>2. ScoreFact(s[j], qi, u[j], k[j], w)
    BY <1>1, <1>2 DEF ScoreFact
  <2>3. ScoreSplits(bi[j], s[j], qi, u[j], k[j], w)
    BY <1>2, <2>1, <2>2, ScoreTerm
  <2> QED BY <1>3, <2>3 DEF ScoreSplits
<1>5. SplitsInFour(p, bi, s, Zeros, Zeros, Zeros, Zeros, qi, bi, u, w, bi, k)
  BY <1>4 DEF SplitsInFour
<1>6. Reduced(Dot(p, bi, s))
        = Reduced(Dot(p, Zeros, Zeros) + Dot(p, Zeros, Zeros) + qi * Dot(p, bi, u) + w * Dot(p, bi, k))
  BY <1>1, <1>2, <1>3, <1>5, DotOfFour
<1>7. Dot(p, bi, s) \in Int /\ Dot(p, bi, u) \in Int /\ Dot(p, bi, k) \in Int
  BY <1>1, <1>2, DotIs
<1>8. Dot(p, Zeros, Zeros) + Dot(p, Zeros, Zeros) + qi * Dot(p, bi, u) + w * Dot(p, bi, k)
        = qi * Dot(p, bi, u) + w * Dot(p, bi, k)
  BY <1>2, <1>3, <1>7
<1> QED BY <1>2, <1>6, <1>7, <1>8 DEF s, u, w, qi, bi

LEMMA HeadsDot ==
  ASSUME NEW p, IsPass(p), NEW l \in 1..p.net.layers, NEW q, NEW k, IsRow(p, q), IsRow(p, k),
         NEW b, IsSquare(p, b)
  PROVE  /\ IsRow(p, QueryBack(p, l, b)) /\ IsRow(p, KeyBack(p, l, b))
         /\ Reduced(Scores(p, b, ScoreTangent(p, l, q, k)))
              = Reduced(Dot(p, QueryBack(p, l, b), q) + Dot(p, KeyBack(p, l, b), k))
<1> DEFINE s == ScoreTangent(p, l, q, k)
           u == CacheRow(p, "K", l)
           w == CacheRow(p, "Q", l)
           h == [i \in RowsOf(p) |-> Dot(p, b[i], s[i])]
           f == [i \in RowsOf(p) |-> q[i] * Dot(p, b[i], u)]
           g == [i \in RowsOf(p) |-> w[i] * Dot(p, b[i], k)]
           col(j) == [i \in RowsOf(p) |-> b[i][j] * w[i]]
<1>1. /\ IsRow(p, u) /\ IsRow(p, w)
      /\ \A i \in RowsOf(p) : u[i] = Cached(p, "K", l, i) /\ w[i] = Cached(p, "Q", l, i)
  BY CacheRowIs, HolderNames
<1> HIDE DEF s, u, w
<1>2. ASSUME NEW i \in RowsOf(p)
      PROVE  /\ h[i] \in Int /\ f[i] \in Int /\ g[i] \in Int /\ Reduced(h[i]) = Reduced(f[i] + g[i])
             /\ Dot(p, b[i], u) \in Int
  <2>1. /\ Dot(p, b[i], s[i]) \in Int /\ Dot(p, b[i], u) \in Int /\ Dot(p, b[i], k) \in Int
        /\ q[i] \in Int /\ Cached(p, "Q", l, i) \in Int
        /\ Reduced(Dot(p, b[i], s[i]))
             = Reduced(q[i] * Dot(p, b[i], u) + Cached(p, "Q", l, i) * Dot(p, b[i], k))
    BY ScoreRow DEF s, u
  <2>2. /\ h[i] = Dot(p, b[i], s[i]) /\ f[i] = q[i] * Dot(p, b[i], u)
        /\ g[i] = Cached(p, "Q", l, i) * Dot(p, b[i], k)
    BY <1>1
  <2> HIDE DEF h, f, g
  <2>3. f[i] \in Int /\ g[i] \in Int
    BY <2>1, <2>2
  <2> QED BY <2>1, <2>2, <2>3
<1>3. Scores(p, b, s) = RowSum(p, h)
  BY DEF Scores
<1>4. ASSUME NEW i \in RowsOf(p) PROVE QueryBack(p, l, b)[i] = Dot(p, b[i], u)
  <2>1. [j \in RowsOf(p) |-> b[i][j] * Cached(p, "K", l, j)] = [j \in RowsOf(p) |-> b[i][j] * u[j]]
    BY <1>1
  <2> QED BY <2>1 DEF QueryBack, Dot
<1>5. IsRow(p, QueryBack(p, l, b))
  BY <1>2, <1>4 DEF IsRow
<1>6. Dot(p, QueryBack(p, l, b), q) = RowSum(p, f)
  <2>1. ASSUME NEW i \in RowsOf(p) PROVE q[i] * QueryBack(p, l, b)[i] = q[i] * Dot(p, b[i], u)
    BY <1>4
  <2>2. [i \in RowsOf(p) |-> q[i] * QueryBack(p, l, b)[i]] = f
    BY <2>1, Zenon
  <2>3. Dot(p, q, QueryBack(p, l, b)) = RowSum(p, f)
    BY <2>2 DEF Dot
  <2>4. Dot(p, q, QueryBack(p, l, b)) = Dot(p, QueryBack(p, l, b), q)
    BY <1>5, DotCommutes
  <2> QED BY <2>3, <2>4
<1>7. ASSUME NEW j \in RowsOf(p)
      PROVE  KeyBack(p, l, b)[j] = RowSum(p, col(j)) /\ IsRow(p, col(j))
  <2>1. col(j) = [i \in RowsOf(p) |-> b[i][j] * Cached(p, "Q", l, i)]
    BY <1>1
  <2>2. ASSUME NEW i \in RowsOf(p) PROVE col(j)[i] \in Int
    <3>1. b[i][j] \in Int /\ w[i] \in Int
      BY <1>1 DEF IsSquare, IsRow
    <3>2. col(j)[i] = b[i][j] * w[i]
      OBVIOUS
    <3> HIDE DEF col
    <3> QED BY <3>1, <3>2
  <2> HIDE DEF col
  <2> QED BY <2>1, <2>2 DEF KeyBack, IsRow
<1>8. IsRow(p, KeyBack(p, l, b))
  <2> HIDE DEF col
  <2> QED BY <1>7, RowSumIs DEF IsRow
<1>9. RowSum(p, g) = Dot(p, KeyBack(p, l, b), k)
  <2>1. KeyBack(p, l, b) = [j \in RowsOf(p) |-> RowSum(p, col(j))]
    BY <1>7 DEF KeyBack
  <2>2. Across(p, b, w, k) = Dot(p, Down(p, b, w), k)
    BY <1>1, DotSwap
  <2>3. RowSum(p, g) = Across(p, b, w, k) /\ KeyBack(p, l, b) = Down(p, b, w)
    BY <2>1 DEF Across, Down
  <2> QED BY <2>2, <2>3
<1> HIDE DEF h, f, g
<1>10. Reduced(RowSum(p, h)) = Reduced(RowSum(p, f) + RowSum(p, g))
  BY <1>2, RowSumOfTwo
<1> QED BY <1>3, <1>5, <1>6, <1>8, <1>9, <1>10 DEF s

(* The rotation, its own adjoint.                                          *)
RotatedRow(p, f, g) == \A i \in RowsOf(p) : Reduced(g[i]) = Reduced(f[i] * Rotation(p, i))

LEMMA RotatedDot ==
  ASSUME NEW p, IsPass(p), NEW l \in 1..p.net.layers, NEW f, NEW g, NEW t,
         IsRow(p, f), IsRow(p, g), IsRow(p, t), RotatedRow(p, f, g)
  PROVE  Reduced(Dot(p, f, Rotated(p, t))) = Reduced(Dot(p, g, t))
<1> DEFINE y == Rotated(p, t)
<1>1. /\ IsRow(p, y)
      /\ \A i \in RowsOf(p) : Reduced(y[i]) = Reduced(Rotation(p, i) * t[i])
  BY RotatedIs
<1> HIDE DEF y
<1>2. ASSUME NEW i \in RowsOf(p) PROVE Reduced(f[i] * y[i]) = Reduced(g[i] * t[i])
  <2> DEFINE a == f[i]
             b == y[i]
             c == g[i]
             d == t[i]
             r == Rotation(p, i)
             rd == r * d
             ar == a * r
  <2>1. /\ a \in Int /\ b \in Int /\ c \in Int /\ d \in Int /\ r \in Int
        /\ Reduced(b) = Reduced(rd) /\ Reduced(c) = Reduced(ar)
    BY <1>1, LayerNumbers DEF IsRow, RotatedRow
  <2> HIDE DEF a, b, c, d, r
  <2>2. rd \in Int /\ ar \in Int
    BY <2>1
  <2>5. rd * a = ar * d /\ a * b = b * a
    BY <2>1
  <2> HIDE DEF rd, ar
  <2>6. a \in Int /\ b \in Int /\ Reduced(b) = Reduced(rd)
    BY <2>1
  <2>7. c \in Int /\ d \in Int /\ Reduced(c) = Reduced(ar)
    BY <2>1
  <2>3. Reduced(b * a) = Reduced(rd * a)
    BY <2>2, <2>6, ReducedBeside
  <2>4. Reduced(c * d) = Reduced(ar * d)
    BY <2>2, <2>7, ReducedBeside
  <2> QED BY <2>3, <2>4, <2>5 DEF a, b, c, d
<1>3. SameProducts(p, f, y, g, t)
  BY <1>2 DEF SameProducts
<1>4. Reduced(Dot(p, f, y)) = Reduced(Dot(p, g, t))
  BY <1>1, <1>3, DotOfOne
<1> QED BY <1>4 DEF y

(* The embeddings.                                                         *)
LEMMA EmbeddingDot ==
  ASSUME NEW p, IsPass(p), NEW param, param = <<param[1], param[2]>>, NEW outs, IsRow(p, outs)
  PROVE  /\ EmbeddingTangent(p, param) \in RowSet(p)
         /\ Scattered(p, outs, param[2]) \in Int
         /\ Dot(p, outs, EmbeddingTangent(p, param))
              = IF param[1] = "E" THEN Scattered(p, outs, param[2]) ELSE 0
<1> DEFINE e == EmbeddingTangent(p, param)
           s == [i \in RowsOf(p) |->
                  IF ~Padded(p, i) /\ TokenAt(p, i) = param[2] THEN outs[i] ELSE 0]
           h == [i \in RowsOf(p) |-> outs[i] * e[i]]
<1>1. ASSUME NEW i \in RowsOf(p)
      PROVE  /\ e[i] = IF ~Padded(p, i) /\ param[1] = "E" /\ TokenAt(p, i) = param[2] THEN 1 ELSE 0
             /\ e[i] \in Int /\ s[i] \in Int /\ outs[i] \in Int
             /\ h[i] = IF param[1] = "E" THEN s[i] ELSE 0
  <2>1. e[i] = IF ~Padded(p, i) /\ param[1] = "E" /\ TokenAt(p, i) = param[2] THEN 1 ELSE 0
    BY DEF EmbeddingTangent, Along
  <2>2. outs[i] \in Int
    BY DEF IsRow
  <2>3. h[i] = outs[i] * e[i]
    OBVIOUS
  <2> HIDE DEF h, e
  <2>4. s[i] \in Int
    BY <2>2
  <2>5. h[i] = IF param[1] = "E" THEN s[i] ELSE 0
    BY <2>1, <2>2, <2>3
  <2> QED BY <2>1, <2>2, <2>4, <2>5
<1>2. e \in RowSet(p)
  BY <1>1 DEF EmbeddingTangent, RowSet
<1>3. IsRow(p, s)
  BY <1>1 DEF IsRow
<1>4. Scattered(p, outs, param[2]) = RowSum(p, s) /\ Dot(p, outs, e) = RowSum(p, h)
  BY DEF Scattered, Dot
<1> HIDE DEF s
<1>5. RowSum(p, s) \in Int
  BY <1>3, RowSumIs
<1>6. CASE param[1] = "E"
  <2>1. h = s
    BY <1>1, <1>6 DEF s
  <2> QED BY <1>2, <1>4, <1>5, <1>6, <2>1
<1>7. CASE param[1] # "E"
  <2>1. p.window.len \in Nat /\ \A i \in 1..p.window.len : h[i] = 0
    BY <1>1, <1>7, PassIs
  <2> HIDE DEF h
  <2>2. RowSum(p, h) = 0
    BY <2>1, SumOfNone DEF RowSum
  <2> QED BY <1>2, <1>4, <1>5, <1>7, <2>2
<1> QED BY <1>6, <1>7

-----------------------------------------------------------------------------
(* The tangents of one layer, for rows x that come into it.                *)

QueryRows(p, param, l, x) == Projection(p, param, "W_q", l, x, "hidden")
KeyRows(p, param, l, x) == Projection(p, param, "W_k", l, x, "hidden")
ValueRows(p, param, l, x) == Projection(p, param, "W_v", l, x, "hidden")
ScoreRows(p, param, l, x) ==
  ScoreTangent(p, l, Rotated(p, QueryRows(p, param, l, x)), Rotated(p, KeyRows(p, param, l, x)))
ContextRows(p, param, l, x) ==
  ContextTangent(p, l, ScoreRows(p, param, l, x), ValueRows(p, param, l, x))
OutRows(p, param, l, x) == AttnOutTangent(p, param, l, ContextRows(p, param, l, x))
MiddleRows(p, param, l, x) == AttnTangent(p, param, l, x)
UpRows(p, param, l, x) ==
  InputTangent(p, param, l, "W_ff1", "b_ff1", MiddleRows(p, param, l, x))
SideRows(p, param, l, x) ==
  InputTangent(p, param, l, "W_ff_gate", "b_ff_gate", MiddleRows(p, param, l, x))
ActivationRows(p, param, l, x) ==
  ActTangent(p, l, UpRows(p, param, l, x), SideRows(p, param, l, x))
FfnRows(p, param, l, x) == FfnOutTangent(p, param, l, ActivationRows(p, param, l, x))

LEMMA LayerRows ==
  ASSUME NEW p, IsPass(p), NEW l \in 1..p.net.layers, NEW param, NEW x, IsRow(p, x)
  PROVE  /\ IsRow(p, QueryRows(p, param, l, x)) /\ IsRow(p, KeyRows(p, param, l, x))
         /\ IsRow(p, ValueRows(p, param, l, x))
         /\ IsRow(p, Rotated(p, QueryRows(p, param, l, x)))
         /\ IsRow(p, Rotated(p, KeyRows(p, param, l, x)))
         /\ IsSquare(p, ScoreRows(p, param, l, x)) /\ IsRow(p, ContextRows(p, param, l, x))
         /\ IsRow(p, OutRows(p, param, l, x)) /\ IsRow(p, MiddleRows(p, param, l, x))
         /\ IsRow(p, UpRows(p, param, l, x)) /\ IsRow(p, SideRows(p, param, l, x))
         /\ IsRow(p, ActivationRows(p, param, l, x)) /\ IsRow(p, FfnRows(p, param, l, x))
         /\ MiddleRows(p, param, l, x)
              = NormTangent(p, param, l, AttnNames, "mask_attn", OutRows(p, param, l, x), x)
         /\ LayerTangent(p, param, l, x)
              = NormTangent(p, param, l, FfnNames, "mask_ffn", FfnRows(p, param, l, x),
                            MiddleRows(p, param, l, x))
         /\ LayerTangent(p, param, l, x) \in RowSet(p)
<1>1. /\ IsRow(p, QueryRows(p, param, l, x)) /\ IsRow(p, KeyRows(p, param, l, x))
      /\ IsRow(p, ValueRows(p, param, l, x))
  BY ProjectionIs, HolderNames DEF QueryRows, KeyRows, ValueRows
<1>2. /\ IsRow(p, Rotated(p, QueryRows(p, param, l, x)))
      /\ IsRow(p, Rotated(p, KeyRows(p, param, l, x)))
  BY <1>1, RotatedIs
<1>3. IsSquare(p, ScoreRows(p, param, l, x))
  BY <1>2, ScoreTangentIs DEF ScoreRows
<1>4. IsRow(p, ContextRows(p, param, l, x))
  BY <1>1, <1>3, ContextTangentIs DEF ContextRows
<1>5. IsRow(p, OutRows(p, param, l, x))
  BY <1>4, AttnOutTangentIs DEF OutRows
<1>6. MiddleRows(p, param, l, x)
        = NormTangent(p, param, l, AttnNames, "mask_attn", OutRows(p, param, l, x), x)
  BY DEF MiddleRows, AttnTangent, OutRows, ContextRows, ScoreRows, QueryRows, KeyRows, ValueRows
<1>7. IsRow(p, MiddleRows(p, param, l, x))
  <2>1. IsNorm(AttnNames, "mask_attn")
    BY DEF IsNorm
  <2> QED BY <1>5, <1>6, <2>1, NormTangentIs, RowSetIs
<1>8. IsRow(p, UpRows(p, param, l, x)) /\ IsRow(p, SideRows(p, param, l, x))
  BY <1>7, InputTangentIs, HolderNames DEF UpRows, SideRows
<1>9. IsRow(p, ActivationRows(p, param, l, x))
  BY <1>8, ActTangentIs DEF ActivationRows
<1>10. IsRow(p, FfnRows(p, param, l, x))
  BY <1>9, FfnOutTangentIs DEF FfnRows
<1>11. LayerTangent(p, param, l, x)
         = NormTangent(p, param, l, FfnNames, "mask_ffn", FfnRows(p, param, l, x),
                       MiddleRows(p, param, l, x))
  BY DEF LayerTangent, FfnTangent, FfnRows, ActivationRows, UpRows, SideRows, MiddleRows
<1>12. LayerTangent(p, param, l, x) \in RowSet(p)
  <2>1. IsNorm(FfnNames, "mask_ffn")
    BY DEF IsNorm
  <2> QED BY <1>7, <1>10, <1>11, <2>1, NormTangentIs
<1> QED BY <1>1, <1>2, <1>3, <1>4, <1>5, <1>6, <1>7, <1>8, <1>9, <1>10, <1>11, <1>12

(* The tangents of all the layers.                                         *)
LEMMA HiddenTangentsAre ==
  ASSUME NEW p, IsPass(p), NEW param
  PROVE  /\ HiddenTangents(p, param)[0] = EmbeddingTangent(p, param)
         /\ \A l \in 1..p.net.layers :
              HiddenTangents(p, param)[l] = LayerTangent(p, param, l, HiddenTangents(p, param)[l - 1])
         /\ \A l \in 0..p.net.layers : IsRow(p, HiddenTangents(p, param)[l])
<1> DEFINE n == p.net.layers
           S == RowSet(p)
           origin == EmbeddingTangent(p, param)
           step == [l \in 1..n |-> [x \in S |-> LayerTangent(p, param, l, x)]]
           Solves(h) == h = [l \in 0..n |->
             IF l = 0 THEN origin ELSE LayerTangent(p, param, l, h[l - 1])]
           h == HiddenTangents(p, param)
           T == {l \in 0..n : h[l] \in S}
<1>1. n \in Nat
  BY PassIs
<1>2. origin \in S
  <2>1. ASSUME NEW i \in RowsOf(p) PROVE origin[i] \in Int
    BY AlongIs DEF EmbeddingTangent
  <2> QED BY <2>1 DEF EmbeddingTangent, RowSet
<1>3. ASSUME NEW l \in 1..n, NEW x \in S PROVE LayerTangent(p, param, l, x) \in S
  BY LayerRows, RowSetIs
<1>4. \E g : Solves(g)
  <2>1. step \in Steps(n, S)
    <3> HIDE DEF S
    <3> QED BY <1>3 DEF Steps
  <2>2. PICK g \in [0..n -> S] : g[0] = origin /\ Follows(g, n, step)
    <3> HIDE DEF S, origin, step, n
    <3> QED BY <1>1, <1>2, <2>1, RecursionExists
  <2>3. ASSUME NEW l \in 1..n PROVE g[l] = LayerTangent(p, param, l, g[l - 1])
    <3>1. g[l] = step[l][g[l - 1]]
      BY <2>2 DEF Follows
    <3>2. l - 1 \in 0..n
      BY <1>1
    <3>3. g[l - 1] \in S
      BY <2>2, <3>2
    <3> HIDE DEF S
    <3> QED BY <3>1, <3>3
  <2>4. ASSUME NEW l \in 0..n
        PROVE  g[l] = IF l = 0 THEN origin ELSE LayerTangent(p, param, l, g[l - 1])
    <3>1. l # 0 => l \in 1..n
      BY <1>1
    <3> QED BY <2>2, <2>3, <3>1
  <2>5. g = [l \in 0..n |-> g[l]]
    BY <2>2
  <2>6. Solves(g)
    <3> HIDE DEF n, origin
    <3> QED BY <2>4, <2>5, Zenon
  <2> QED BY <2>6
<1>5. Solves(h)
  <2>1. h = CHOOSE g : Solves(g)
    BY DEF HiddenTangents
  <2> HIDE DEF Solves, h
  <2> QED BY <1>4, <2>1
<1> HIDE DEF h
<1>6. h[0] = origin
  <2>1. 0 \in 0..n
    BY <1>1
  <2> QED BY <1>5, <2>1
<1>7. ASSUME NEW l \in 1..n PROVE h[l] = LayerTangent(p, param, l, h[l - 1])
  <2>1. l \in 0..n /\ l # 0
    BY <1>1
  <2> QED BY <1>5, <2>1
<1>8. 0 \in T
  BY <1>1, <1>2, <1>6
<1>9. ASSUME NEW l \in 1..n, l - 1 \in T PROVE l \in T
  <2>1. l \in 0..n /\ h[l - 1] \in S
    BY <1>1, <1>9
  <2>2. h[l] \in S
    BY <1>3, <1>7, <2>1
  <2> QED BY <2>1, <2>2
<1>10. \A l \in 0..n : l \in T
  <2> HIDE DEF T, n
  <2> QED BY <1>1, <1>8, <1>9, UpTo
<1>11. \A l \in 0..n : IsRow(p, h[l])
  BY <1>10, RowSetIs
<1> QED BY <1>6, <1>7, <1>11 DEF h

-----------------------------------------------------------------------------
(* The head.                                                               *)

LEMMA HeadIdentity ==
  ASSUME NEW g \in Int, NEW y \in Int, NEW w \in Int, NEW t \in Int, NEW a \in Int, NEW x \in Int,
         NEW b \in Int, NEW m \in Int, NEW n \in Int, y = w * t + a * x + b + m * n
  PROVE  g * y = t * (g * w) + a * (g * x) + b * g + 0 + m * (g * n)
OBVIOUS

HeadFact(y, w, t, a, x, b) == Reduced(y) = Reduced(w * t + a * x + b)

HeadSplits(g, y, w, t, a, x, b) ==
  Reduced(g * y) = Reduced(t * (g * w) + a * (g * x) + b * g + 0)

LEMMA HeadTerm ==
  ASSUME NEW g \in Int, NEW y \in Int, NEW w \in Int, NEW t \in Int, NEW a \in Int, NEW x \in Int,
         NEW b \in Int, HeadFact(y, w, t, a, x, b)
  PROVE  HeadSplits(g, y, w, t, a, x, b)
<1> DEFINE e == w * t + a * x + b
           left == g * y
           right == t * (g * w) + a * (g * x) + b * g + 0
<1>1. e \in Int /\ left \in Int /\ right \in Int /\ Modulo \in Int
  BY ModuloIs
<1>2. Reduced(y) = Reduced(e)
  BY DEF HeadFact
<1> HIDE DEF e, left, right
<1>3. PICK n \in Int : y = e + Modulo * n
  BY <1>1, <1>2, ReducedSame
<1> DEFINE z == g * n
<1>4. left = right + Modulo * z
  BY <1>1, <1>3, HeadIdentity DEF e, left, right
<1>5. z \in Int
  OBVIOUS
<1> HIDE DEF z
<1>6. \E m \in Int : left = right + Modulo * m
  BY <1>4, <1>5
<1>7. Reduced(left) = Reduced(right)
  BY <1>1, <1>6, ReducedSame
<1> QED BY <1>7 DEF left, right, HeadSplits

LEMMA HeadNumbers ==
  ASSUME NEW p, IsPass(p), NEW i \in RowsOf(p), NEW v \in Vocab
  PROVE  /\ GradLogits(p, i, v) \in Int /\ Weight(p, HeadName(p), v) \in Int
         /\ CachedOrZero(p, "hidden", p.net.layers + 1, i) \in Int
<1>1. v \in 0..Most /\ i \in 0..Most /\ p.net.layers + 1 \in 0..Most
  BY PassIs
<1>2. Cached(p, "grad", v, i) \in Int /\ CachedOrZero(p, "hidden", p.net.layers + 1, i) \in Int
  BY <1>1, CachedInt, HolderNames
<1>3. HeadName(p) \in Holders
  BY HolderNames DEF HeadName
<1>4. Weight(p, HeadName(p), v) \in Int
  BY <1>1, <1>3, WeightInt
<1> QED BY <1>2, <1>4 DEF GradLogits

(* What one row contributes to the gradients of the head.                  *)
RowColumn(p, param, i) ==
  IF param[1] = HeadName(p)
  THEN GradLogits(p, i, param[2]) * CachedOrZero(p, "hidden", p.net.layers + 1, i) ELSE 0
RowBias(p, param, i) == IF param[1] = "output_bias" THEN GradLogits(p, i, param[2]) ELSE 0

IsHeadParam(p, param) ==
  /\ param = <<param[1], param[2]>>
  /\ param[1] \in {HeadName(p), "output_bias"} => param[2] \in Vocab

(* A sum over the vocabulary in which only one parameter's token counts.   *)
AlongRow(param, name, f, h) ==
  \A v \in Vocab : f[v] \in Int /\ h[v] = Along(param, name, v) * f[v]

LEMMA VocabAlong ==
  ASSUME NEW param, param = <<param[1], param[2]>>, NEW name, NEW f, NEW h,
         param[1] = name => param[2] \in Vocab, AlongRow(param, name, f, h)
  PROVE  /\ VocabSum(h) = IF param[1] = name THEN f[param[2]] ELSE 0
         /\ \A v \in Vocab : h[v] \in Int
<1>1. VocabSize \in Nat /\ Vocab = 1..VocabSize
  <2>1. Most \in Nat /\ VocabSize \in 1..Most
    BY TrainingStepAssumption
  <2> QED BY <2>1 DEF Vocab
<1>2. ASSUME NEW v \in Vocab
      PROVE  h[v] = IF param[1] = name /\ param[2] = v THEN f[v] ELSE 0
  <2>1. Along(param, name, v) = IF param[1] = name /\ param[2] = v THEN 1 ELSE 0
    BY DEF Along
  <2>2. f[v] \in Int /\ h[v] = Along(param, name, v) * f[v]
    BY DEF AlongRow
  <2>3. CASE param[1] = name /\ param[2] = v
    <3>1. h[v] = 1 * f[v]
      BY <2>1, <2>2, <2>3
    <3> QED BY <2>2, <2>3, <3>1
  <2>4. CASE ~(param[1] = name /\ param[2] = v)
    <3>1. h[v] = 0 * f[v]
      BY <2>1, <2>2, <2>4
    <3> QED BY <2>2, <2>4, <3>1
  <2> QED BY <2>3, <2>4
<1>3. \A v \in Vocab : h[v] \in Int
  BY <1>2 DEF AlongRow
<1>4. CASE param[1] = name
  <2> DEFINE k == param[2]
  <2>1. k \in 1..VocabSize
    BY <1>1, <1>4
  <2>2. h[k] = f[k] /\ h[k] \in Int /\ \A v \in 1..VocabSize : v # k => h[v] = 0
    BY <1>1, <1>2, <1>3, <1>4, <2>1
  <2> HIDE DEF k
  <2>3. SumOf(h, VocabSize) = h[k]
    BY <1>1, <2>1, <2>2, SumOfOne
  <2> QED BY <1>3, <1>4, <2>2, <2>3 DEF VocabSum, k
<1>5. CASE param[1] # name
  <2>1. \A v \in 1..VocabSize : h[v] = 0
    BY <1>1, <1>2, <1>5
  <2>2. SumOf(h, VocabSize) = 0
    BY <1>1, <2>1, SumOfNone
  <2> QED BY <1>3, <1>5, <2>2 DEF VocabSum
<1> QED BY <1>4, <1>5

LossRow(p, param, top, i) ==
  Reduced(VocabSum([v \in Vocab |-> GradLogits(p, i, v) * LogitTangent(p, param, top, i, v)]))

LEMMA LossRowIs ==
  ASSUME NEW p, IsPass(p), NEW param, IsHeadParam(p, param), NEW top, IsRow(p, top),
         NEW i \in RowsOf(p)
  PROVE  /\ LossRow(p, param, top, i) \in Int /\ HeadInput(p)[i] \in Int
         /\ RowColumn(p, param, i) \in Int /\ RowBias(p, param, i) \in Int
         /\ Reduced(LossRow(p, param, top, i))
              = Reduced(top[i] * HeadInput(p)[i] + RowColumn(p, param, i) + RowBias(p, param, i) + 0)
<1> DEFINE name == HeadName(p)
           x == CachedOrZero(p, "hidden", p.net.layers + 1, i)
           t == top[i]
           g(v) == GradLogits(p, i, v)
           y(v) == LogitTangent(p, param, top, i, v)
           gw == [v \in Vocab |-> g(v) * Weight(p, name, v)]
           gx == [v \in Vocab |-> g(v) * x]
           gs == [v \in Vocab |-> g(v)]
           h == [v \in Vocab |-> g(v) * y(v)]
           a == [v \in Vocab |-> t * gw[v]]
           b == [v \in Vocab |-> Along(param, name, v) * gx[v]]
           c == [v \in Vocab |-> Along(param, "output_bias", v) * gs[v]]
           d == [v \in Vocab |-> 0]
<1>1. VocabSize \in Nat /\ Vocab = 1..VocabSize
  BY PassIs DEF Vocab
<1>2. t \in Int
  BY DEF IsRow
<1>3. ASSUME NEW v \in Vocab
      PROVE  /\ g(v) \in Int /\ Weight(p, name, v) \in Int /\ x \in Int
             /\ gw[v] = g(v) * Weight(p, name, v) /\ gx[v] = g(v) * x /\ gs[v] = g(v)
             /\ h[v] = g(v) * y(v) /\ a[v] = t * gw[v] /\ b[v] = Along(param, name, v) * gx[v]
             /\ c[v] = Along(param, "output_bias", v) * gs[v] /\ d[v] = 0
             /\ Along(param, name, v) \in Int /\ Along(param, "output_bias", v) \in Int
  BY HeadNumbers, AlongIs
<1>4. ASSUME NEW v \in Vocab
      PROVE  y(v) \in Int
               /\ HeadFact(y(v), Weight(p, name, v), t, Along(param, name, v), x,
                           Along(param, "output_bias", v))
  <2> DEFINE w == Weight(p, name, v)
             al == Along(param, name, v)
             be == Along(param, "output_bias", v)
             e == w * t + al * x + be
  <2>1. w \in Int /\ al \in Int /\ be \in Int /\ x \in Int
    BY <1>3
  <2>2. y(v) = Reduced(e)
    BY DEF LogitTangent
  <2> HIDE DEF w, al, be, x, t, y
  <2>3. e \in Int
    BY <1>2, <2>1
  <2> HIDE DEF e
  <2>4. y(v) \in Int /\ Reduced(y(v)) = Reduced(e)
    BY <2>2, <2>3, ReducedType
  <2> QED BY <2>4 DEF e, HeadFact, w, al, be
<1>5. LossRow(p, param, top, i) = Reduced(VocabSum(h))
  BY DEF LossRow
<1>6. HeadInput(p)[i] = VocabSum(gw)
  BY DEF HeadInput
<1> HIDE DEF name, x, t, g, y, gw, gx, gs, h, a, b, c, d
<1>7. ASSUME NEW v \in Vocab
      PROVE  /\ gw[v] \in Int /\ gx[v] \in Int /\ gs[v] \in Int /\ h[v] \in Int /\ a[v] \in Int
             /\ b[v] \in Int /\ c[v] \in Int /\ d[v] \in Int
             /\ Reduced(h[v]) = Reduced(a[v] + b[v] + c[v] + d[v])
  <2> DEFINE gv == g(v)
             w == Weight(p, name, v)
             al == Along(param, name, v)
             be == Along(param, "output_bias", v)
             yv == y(v)
  <2>1. /\ gv \in Int /\ w \in Int /\ x \in Int /\ al \in Int /\ be \in Int /\ yv \in Int
        /\ HeadFact(yv, w, t, al, x, be)
    BY <1>3, <1>4
  <2>2. /\ gw[v] = gv * w /\ gx[v] = gv * x /\ gs[v] = gv /\ h[v] = gv * yv /\ a[v] = t * gw[v]
        /\ b[v] = al * gx[v] /\ c[v] = be * gs[v] /\ d[v] = 0
    BY <1>3
  <2> HIDE DEF gv, w, al, be, yv
  <2>3. HeadSplits(gv, yv, w, t, al, x, be)
    BY <1>2, <2>1, HeadTerm
  <2>4. gw[v] \in Int /\ gx[v] \in Int /\ gs[v] \in Int /\ h[v] \in Int /\ d[v] \in Int
    BY <2>1, <2>2
  <2>5. a[v] \in Int
    BY <1>2, <2>2, <2>4
  <2>6. b[v] \in Int /\ c[v] \in Int
    BY <2>1, <2>2, <2>4
  <2>7. Reduced(h[v]) = Reduced(a[v] + b[v] + c[v] + d[v])
    BY <2>2, <2>3 DEF HeadSplits
  <2> QED BY <2>4, <2>5, <2>6, <2>7
<1>8. Reduced(VocabSum(h)) = Reduced(VocabSum(a) + VocabSum(b) + VocabSum(c) + VocabSum(d))
  <2>1. SumsOfFour(h, a, b, c, d, VocabSize)
    BY <1>1, <1>7 DEF SumsOfFour
  <2> QED BY <1>1, <2>1, ReducedSumOfFour DEF VocabSum
<1>9. VocabSum(a) = t * VocabSum(gw) /\ VocabSum(gw) \in Int /\ VocabSum(h) \in Int
  <2>1. \A v \in 1..VocabSize : gw[v] \in Int /\ a[v] = t * gw[v] /\ h[v] \in Int
    BY <1>1, <1>3, <1>7
  <2> QED BY <1>1, <1>2, <2>1, SumTimes, SumInInt DEF VocabSum
<1>10. VocabSum(d) = 0
  <2>1. \A v \in 1..VocabSize : d[v] = 0
    BY <1>1, <1>3
  <2> QED BY <1>1, <2>1, SumOfNone DEF VocabSum
<1>11. VocabSum(b) = RowColumn(p, param, i) /\ VocabSum(b) \in Int
  <2>1. VocabSum(b) = IF param[1] = name THEN gx[param[2]] ELSE 0
    <3>1. AlongRow(param, name, gx, b)
      BY <1>3, <1>7 DEF AlongRow
    <3>2. param = <<param[1], param[2]>> /\ (param[1] = name => param[2] \in Vocab)
      BY DEF IsHeadParam, name
    <3> QED BY <3>1, <3>2, VocabAlong
  <2>2. param[1] = name => param[2] \in Vocab
    BY DEF IsHeadParam, name
  <2>3. param[1] = name => gx[param[2]] = GradLogits(p, i, param[2]) * x /\ gx[param[2]] \in Int
    BY <1>7, <2>2 DEF gx, g
  <2> QED BY <2>1, <2>3 DEF RowColumn, name, x
<1>12. VocabSum(c) = RowBias(p, param, i) /\ VocabSum(c) \in Int
  <2>1. VocabSum(c) = IF param[1] = "output_bias" THEN gs[param[2]] ELSE 0
    <3>1. AlongRow(param, "output_bias", gs, c)
      BY <1>3, <1>7 DEF AlongRow
    <3>2. param = <<param[1], param[2]>> /\ (param[1] = "output_bias" => param[2] \in Vocab)
      BY DEF IsHeadParam
    <3> QED BY <3>1, <3>2, VocabAlong
  <2>2. param[1] = "output_bias" => param[2] \in Vocab
    BY DEF IsHeadParam
  <2>3. param[1] = "output_bias" => gs[param[2]] = GradLogits(p, i, param[2]) /\ gs[param[2]] \in Int
    BY <1>7, <2>2 DEF gs, g
  <2> QED BY <2>1, <2>3 DEF RowBias
<1>13. Reduced(VocabSum(h)) \in Int /\ Reduced(Reduced(VocabSum(h))) = Reduced(VocabSum(h))
  BY <1>9, ReducedType
<1> QED BY <1>5, <1>6, <1>8, <1>9, <1>10, <1>11, <1>12, <1>13 DEF t

(* The gradients of the head, over all rows.                               *)
HeadColumnOf(p, param) == IF param[1] = HeadName(p) THEN HeadColumn(p, param[2]) ELSE 0
HeadBiasOf(p, param) == IF param[1] = "output_bias" THEN HeadBias(p, param[2]) ELSE 0

LEMMA HeadDot ==
  ASSUME NEW p, IsPass(p), NEW param, IsHeadParam(p, param)
  PROVE  /\ IsRow(p, HiddenTangents(p, param)[p.net.layers])
         /\ IsRow(p, HeadInput(p)) /\ HeadColumnOf(p, param) \in Int /\ HeadBiasOf(p, param) \in Int
         /\ Tangent(p, param) \in Int
         /\ Reduced(Tangent(p, param))
              = Reduced(Dot(p, HeadInput(p), HiddenTangents(p, param)[p.net.layers])
                          + HeadColumnOf(p, param) + HeadBiasOf(p, param))
<1> DEFINE n == p.window.len
           top == HiddenTangents(p, param)[p.net.layers]
           back == HeadInput(p)
           h == [i \in RowsOf(p) |-> LossRow(p, param, top, i)]
           a == [i \in RowsOf(p) |-> top[i] * back[i]]
           b == [i \in RowsOf(p) |-> RowColumn(p, param, i)]
           c == [i \in RowsOf(p) |-> RowBias(p, param, i)]
           d == [i \in RowsOf(p) |-> 0]
<1>1. n \in Nat /\ RowsOf(p) = 1..n /\ p.net.layers \in 0..p.net.layers
  BY PassIs
<1>2. IsRow(p, top)
  BY <1>1, HiddenTangentsAre
<1>3. Tangent(p, param) = Reduced(RowSum(p, h))
  BY DEF Tangent, LossRow
<1> HIDE DEF top, back
<1>4. ASSUME NEW i \in 1..n
      PROVE  /\ h[i] \in Int /\ a[i] \in Int /\ b[i] \in Int /\ c[i] \in Int /\ d[i] \in Int
             /\ back[i] \in Int
             /\ Reduced(h[i]) = Reduced(a[i] + b[i] + c[i] + d[i])
  <2>1. /\ LossRow(p, param, top, i) \in Int /\ back[i] \in Int
        /\ RowColumn(p, param, i) \in Int /\ RowBias(p, param, i) \in Int
        /\ Reduced(LossRow(p, param, top, i))
             = Reduced(top[i] * back[i] + RowColumn(p, param, i) + RowBias(p, param, i) + 0)
    BY <1>1, <1>2, LossRowIs DEF back
  <2>2. /\ h[i] = LossRow(p, param, top, i) /\ a[i] = top[i] * back[i]
        /\ b[i] = RowColumn(p, param, i) /\ c[i] = RowBias(p, param, i) /\ d[i] = 0
    BY <1>1
  <2>3. top[i] \in Int
    BY <1>1, <1>2 DEF IsRow
  <2> HIDE DEF h, a, b, c, d
  <2>4. a[i] \in Int
    BY <2>1, <2>2, <2>3
  <2> QED BY <2>1, <2>2, <2>4
<1>5. /\ RowSum(p, h) = SumOf(h, n) /\ Dot(p, top, back) = SumOf(a, n)
  BY DEF RowSum, Dot
<1>6. IsRow(p, back)
  BY <1>1, <1>4 DEF IsRow
<1>7. Dot(p, top, back) = Dot(p, back, top)
  BY <1>2, <1>6, DotCommutes
<1>8. HeadColumnOf(p, param) = SumOf(b, n)
  <2>1. CASE param[1] = HeadName(p)
    <3>1. b = [i \in RowsOf(p) |->
             GradLogits(p, i, param[2]) * CachedOrZero(p, "hidden", p.net.layers + 1, i)]
      BY <2>1 DEF RowColumn
    <3> QED BY <2>1, <3>1 DEF HeadColumnOf, HeadColumn, RowSum
  <2>2. CASE param[1] # HeadName(p)
    <3>1. \A i \in 1..n : b[i] = 0
      BY <1>1, <2>2 DEF RowColumn
    <3> HIDE DEF b, n
    <3> QED BY <1>1, <2>2, <3>1, SumOfNone DEF HeadColumnOf
  <2> QED BY <2>1, <2>2
<1>9. HeadBiasOf(p, param) = SumOf(c, n)
  <2>1. CASE param[1] = "output_bias"
    <3>1. c = [i \in RowsOf(p) |-> GradLogits(p, i, param[2])]
      BY <2>1 DEF RowBias
    <3> QED BY <2>1, <3>1 DEF HeadBiasOf, HeadBias, RowSum
  <2>2. CASE param[1] # "output_bias"
    <3>1. \A i \in 1..n : c[i] = 0
      BY <1>1, <2>2 DEF RowBias
    <3> HIDE DEF c, n
    <3> QED BY <1>1, <2>2, <3>1, SumOfNone DEF HeadBiasOf
  <2> QED BY <2>1, <2>2
<1>10. SumOf(d, n) = 0
  <2>1. \A i \in 1..n : d[i] = 0
    BY <1>1
  <2> HIDE DEF d, n
  <2> QED BY <1>1, <2>1, SumOfNone
<1> HIDE DEF h, a, b, c, d, n
<1>11. Reduced(SumOf(h, n)) = Reduced(SumOf(a, n) + SumOf(b, n) + SumOf(c, n) + SumOf(d, n))
  <2>1. SumsOfFour(h, a, b, c, d, n)
    BY <1>4 DEF SumsOfFour
  <2> QED BY <1>1, <2>1, ReducedSumOfFour
<1>12. SumOf(h, n) \in Int /\ SumOf(a, n) \in Int /\ SumOf(b, n) \in Int /\ SumOf(c, n) \in Int
  BY <1>1, <1>4, SumInInt
<1>13. SumOf(a, n) + SumOf(b, n) + SumOf(c, n) + SumOf(d, n)
         = Dot(p, back, top) + HeadColumnOf(p, param) + HeadBiasOf(p, param)
  BY <1>5, <1>7, <1>8, <1>9, <1>10, <1>12
<1>14. Tangent(p, param) \in Int /\ Reduced(Tangent(p, param)) = Reduced(SumOf(h, n))
  BY <1>3, <1>5, <1>12, ReducedType
<1> QED BY <1>2, <1>6, <1>8, <1>9, <1>11, <1>12, <1>13, <1>14 DEF top, back

(* No supervised row, no tangent.                                          *)
LEMMA NoLoss ==
  ASSUME NEW p, IsPass(p), NEW param, IsHeadParam(p, param),
         \A i \in RowsOf(p) : ~Supervised(p, i)
  PROVE  Reduced(Tangent(p, param)) = Reduced(0)
<1> DEFINE top == HiddenTangents(p, param)[p.net.layers]
           n == p.window.len
           h == [i \in RowsOf(p) |-> LossRow(p, param, top, i)]
<1>1. n \in Nat /\ RowsOf(p) = 1..n /\ VocabSize \in Nat /\ Vocab = 1..VocabSize
  BY PassIs DEF Vocab
<1>2. Tangent(p, param) = Reduced(RowSum(p, h))
  BY DEF Tangent, LossRow
<1>3. Reduced(0) = 0
  BY ModuloIs, ModSmall DEF Reduced
<1>4. ASSUME NEW i \in 1..n PROVE h[i] = 0
  <2> DEFINE f == [v \in Vocab |-> GradLogits(p, i, v) * LogitTangent(p, param, top, i, v)]
  <2>1. ASSUME NEW v \in Vocab PROVE f[v] = 0
    <3>1. GradLogits(p, i, v) = 0
      BY <1>1 DEF GradLogits
    <3>2. LogitTangent(p, param, top, i, v) \in Int
      <4>1. Weight(p, HeadName(p), v) \in Int /\ CachedOrZero(p, "hidden", p.net.layers + 1, i) \in Int
        BY <1>1, HeadNumbers
      <4>2. top[i] \in Int
        BY <1>1, HeadDot DEF IsRow
      <4> DEFINE w == Weight(p, HeadName(p), v)
                 x == CachedOrZero(p, "hidden", p.net.layers + 1, i)
                 al == Along(param, HeadName(p), v)
                 be == Along(param, "output_bias", v)
                 t == top[i]
                 e == w * t + al * x + be
      <4>3. w \in Int /\ x \in Int /\ t \in Int /\ al \in Int /\ be \in Int
        BY <4>1, <4>2, AlongIs
      <4>4. LogitTangent(p, param, top, i, v) = Reduced(e)
        BY DEF LogitTangent
      <4> HIDE DEF w, x, al, be, t
      <4>5. e \in Int
        BY <4>3
      <4> HIDE DEF e
      <4> QED BY <4>4, <4>5, ReducedType
    <3> QED BY <3>1, <3>2
  <2>2. LossRow(p, param, top, i) = Reduced(SumOf(f, VocabSize))
    BY DEF LossRow, VocabSum
  <2> HIDE DEF f, top
  <2>3. SumOf(f, VocabSize) = 0
    BY <1>1, <2>1, SumOfNone
  <2> QED BY <1>1, <1>3, <2>2, <2>3
<1> HIDE DEF h, n
<1>5. SumOf(h, n) = 0
  BY <1>1, <1>4, SumOfNone
<1> QED BY <1>2, <1>3, <1>5 DEF RowSum, n

-----------------------------------------------------------------------------
(* The passes of a group, all over one network.                            *)

PassSet(n) ==
  [net : {n}, kind : {"all", "last"}, window : WindowType, draw : 0..Most, steps : 0..Most]

PassOf(n, p) == n \in Nets /\ p \in PassSet(n)
IsGroup(n, group) == n \in Nets /\ group \in Seq(PassSet(n))

LEMMA PassOfIs ==
  ASSUME NEW n, NEW p, PassOf(n, p)
  PROVE  IsPass(p) /\ p.net = n
BY TrainingStepAssumption DEF PassOf, PassSet, IsPass

LEMMA ParamsAre ==
  ASSUME NEW n, NEW param \in Params(n)
  PROVE  /\ param = <<param[1], param[2]>>
         /\ \A p : PassOf(n, p) => IsHeadParam(p, param)
         /\ "RMSNORM" \in n.flags => param[1] \notin {"beta_attn", "beta_ffn"}
<1>1. \/ param \in LayerParams(n) \X (1..n.layers)
      \/ param \in {"E", "output_bias"} \X Vocab
      \/ param \in {"W_out"} \X Vocab /\ "TIED" \notin n.flags
  BY DEF Params
<1>2. param = <<param[1], param[2]>>
  BY <1>1
<1>3. param[1] \in {"E", "W_out", "output_bias"} => param[2] \in Vocab
  <2>1. "E" \notin LayerParams(n) /\ "W_out" \notin LayerParams(n) /\ "output_bias" \notin LayerParams(n)
    BY DEF LayerParams
  <2> QED BY <1>1, <2>1
<1>4. ASSUME NEW p, PassOf(n, p) PROVE IsHeadParam(p, param)
  BY <1>2, <1>3 DEF IsHeadParam, HeadName
<1>5. "RMSNORM" \in n.flags => param[1] \notin {"beta_attn", "beta_ffn"}
  <2>1. "RMSNORM" \in n.flags => "beta_attn" \notin LayerParams(n) /\ "beta_ffn" \notin LayerParams(n)
    BY DEF LayerParams
  <2> QED BY <1>1, <2>1
<1> QED BY <1>2, <1>4, <1>5

LEMMA GroupGrows ==
  ASSUME NEW n, NEW group, IsGroup(n, group), NEW p, PassOf(n, p)
  PROVE  IsGroup(n, Append(group, p))
BY DEF IsGroup, PassOf

TangentsOf(group, param) == [n \in 1..Len(group) |-> Tangent(group[n], param)]

LEMMA ExpectedIs ==
  ASSUME NEW n, NEW group, IsGroup(n, group), NEW param \in Params(n)
  PROVE  /\ Expected(group, param) \in 0..(Modulo - 1) /\ Expected(group, param) \in Int
         /\ Reduced(Expected(group, param)) = Expected(group, param)
         /\ \A p : PassOf(n, p) =>
              /\ Tangent(p, param) \in Int
              /\ Reduced(Expected(Append(group, p), param))
                   = Reduced(Expected(group, param) + Tangent(p, param))
<1> DEFINE k == Len(group)
           f == TangentsOf(group, param)
<1>1. k \in Nat /\ \A i \in 1..k : PassOf(n, group[i])
  BY DEF IsGroup, PassOf
<1>2. \A p : PassOf(n, p) => Tangent(p, param) \in Int
  BY PassOfIs, ParamsAre, HeadDot
<1>3. \A i \in 1..k : f[i] = Tangent(group[i], param) /\ f[i] \in Int
  BY <1>1, <1>2 DEF TangentsOf
<1>4. Expected(group, param) = Reduced(SumOf(f, k))
  BY DEF Expected, TangentsOf
<1> HIDE DEF f, k
<1>5. SumOf(f, k) \in Int
  BY <1>1, <1>3, SumInInt
<1>6. /\ Expected(group, param) \in 0..(Modulo - 1) /\ Expected(group, param) \in Int
      /\ Reduced(Expected(group, param)) = Expected(group, param)
  BY <1>4, <1>5, ReducedType
<1>7. ASSUME NEW p, PassOf(n, p)
      PROVE  Reduced(Expected(Append(group, p), param)) = Reduced(Expected(group, param) + Tangent(p, param))
  <2> DEFINE more == Append(group, p)
             g == TangentsOf(more, param)
  <2>1. Len(more) = k + 1 /\ (\A i \in 1..k : more[i] = group[i]) /\ more[k + 1] = p
    BY DEF IsGroup, k
  <2>2. (\A i \in 1..k : g[i] = f[i]) /\ g[k + 1] = Tangent(p, param)
    BY <1>1, <1>3, <2>1 DEF TangentsOf
  <2>3. Expected(more, param) = Reduced(SumOf(g, k + 1))
    BY <2>1 DEF Expected, TangentsOf
  <2> HIDE DEF g, more
  <2>4. SumOf(g, k + 1) = SumOf(g, k) + g[k + 1]
    BY <1>1, SumOfSteps
  <2>5. SumOf(g, k) = SumOf(f, k)
    BY <1>1, <2>2, SumOfSame
  <2> DEFINE t == Tangent(p, param)
             s == SumOf(f, k)
  <2>6. Expected(more, param) = Reduced(s + t) /\ Expected(group, param) = Reduced(s)
    BY <1>4, <2>2, <2>3, <2>4, <2>5
  <2>7. s \in Int /\ t \in Int
    BY <1>2, <1>5, <1>7
  <2> HIDE DEF s, t
  <2>8. s + t \in Int
    BY <2>7
  <2>9. Reduced(Reduced(s + t)) = Reduced(s + t)
    <3> DEFINE e == s + t
    <3>1. e \in Int
      BY <2>8
    <3> HIDE DEF e
    <3>2. Reduced(Reduced(e)) = Reduced(e)
      BY <3>1, ReducedType
    <3> QED BY <3>2 DEF e
  <2>10. Reduced(Reduced(s) + t) = Reduced(s + t)
    BY <2>7, ReducedInside
  <2> QED BY <2>6, <2>9, <2>10 DEF more, t
<1> QED BY <1>2, <1>6, <1>7

LEMMA ExpectedOfNone ==
  ASSUME NEW n \in Nets, NEW param \in Params(n)
  PROVE  IsGroup(n, << >>) /\ Expected(<< >>, param) = 0
<1>1. Len(<< >>) = 0
  OBVIOUS
<1>2. IsGroup(n, << >>)
  BY DEF IsGroup
<1> DEFINE f == [i \in 1..Len(<< >>) |-> Tangent(<< >>[i], param)]
<1>3. Expected(<< >>, param) = Reduced(SumOf(f, 0))
  BY <1>1 DEF Expected
<1> HIDE DEF f
<1>4. SumOf(f, 0) = 0
  BY SumOfSteps
<1>5. Reduced(0) = 0
  BY ModuloIs, ModSmall DEF Reduced
<1> QED BY <1>2, <1>3, <1>4, <1>5

-----------------------------------------------------------------------------
(* The scratch buffers and the gradients.                                  *)

IsBuffer(b) == \A i \in Positions : b[i] \in Int

BufferNames == {"in", "out", "s2", "drop", "x1", "hidden", "gate", "concat", "scores", "q", "k", "v"}

IsScratch(w) == DOMAIN w = BufferNames /\ \A name \in BufferNames \ {"scores"} : IsBuffer(w[name])

(* Padded rows that hold nothing.                                          *)
PaddedZero(p, f) == \A i \in RowsOf(p) : Padded(p, i) => f[i] = 0

LEMMA BufferIsRow ==
  ASSUME NEW p, IsPass(p), NEW b, IsBuffer(b)
  PROVE  IsRow(p, b)
BY PassIs DEF IsBuffer, IsRow

LEMMA ReducedZero ==
  Reduced(0) = 0
BY ModuloIs, ModSmall DEF Reduced

LEMMA GradsAccumulatedIs ==
  ASSUME NEW p, IsPass(p), NEW b, IsBuffer(b), NEW f, IsRow(p, f)
  PROVE  /\ IsBuffer(Accumulate(p, b, f)) /\ IsRow(p, Accumulate(p, b, f))
         /\ \A i \in RowsOf(p) :
              /\ Accumulate(p, b, f)[i] = Reduced(b[i] + f[i])
              /\ Reduced(Accumulate(p, b, f)[i]) = Reduced(b[i] + f[i])
<1> DEFINE a == Accumulate(p, b, f)
<1>1. ASSUME NEW i \in Positions
      PROVE  a[i] = IF i \in RowsOf(p) THEN Reduced(b[i] + f[i]) ELSE b[i]
  BY DEF Accumulate
<1>2. ASSUME NEW i \in RowsOf(p)
      PROVE  /\ i \in Positions /\ a[i] = Reduced(b[i] + f[i]) /\ a[i] \in Int
             /\ Reduced(a[i]) = Reduced(b[i] + f[i])
  <2>1. i \in Positions
    BY PassIs
  <2>2. b[i] \in Int /\ f[i] \in Int
    BY <2>1 DEF IsBuffer, IsRow
  <2> DEFINE e == b[i] + f[i]
  <2>3. e \in Int
    BY <2>2
  <2>4. a[i] = Reduced(e)
    BY <1>1, <2>1
  <2> HIDE DEF e, a
  <2>5. Reduced(e) \in Int /\ Reduced(Reduced(e)) = Reduced(e)
    BY <2>3, ReducedType
  <2> QED BY <2>1, <2>4, <2>5 DEF e
<1> HIDE DEF a
<1>3. IsBuffer(a)
  BY <1>1, <1>2 DEF IsBuffer
<1> QED BY <1>2, <1>3, BufferIsRow DEF a

LEMMA CopiedIs ==
  ASSUME NEW p, IsPass(p), NEW b, IsBuffer(b), NEW f, IsRow(p, f)
  PROVE  /\ IsBuffer(Copied(p, b, f)) /\ IsRow(p, Copied(p, b, f))
         /\ \A i \in RowsOf(p) :
              /\ Copied(p, b, f)[i] = Reduced(f[i])
              /\ Reduced(Copied(p, b, f)[i]) = Reduced(f[i])
         /\ PaddedZero(p, f) => PaddedZero(p, Copied(p, b, f))
<1> DEFINE a == Copied(p, b, f)
<1>1. ASSUME NEW i \in Positions
      PROVE  a[i] = IF i \in RowsOf(p) THEN Reduced(f[i]) ELSE b[i]
  BY DEF Copied
<1>2. ASSUME NEW i \in RowsOf(p)
      PROVE  /\ i \in Positions /\ a[i] = Reduced(f[i]) /\ a[i] \in Int
             /\ Reduced(a[i]) = Reduced(f[i])
  <2>1. i \in Positions
    BY PassIs
  <2>2. f[i] \in Int
    BY DEF IsRow
  <2> QED BY <1>1, <2>1, <2>2, ReducedType
<1> HIDE DEF a
<1>3. IsBuffer(a)
  BY <1>1, <1>2 DEF IsBuffer
<1>4. PaddedZero(p, f) => PaddedZero(p, a)
  BY <1>2, ReducedZero DEF PaddedZero
<1> QED BY <1>2, <1>3, <1>4, BufferIsRow DEF a

LEMMA WrittenIs ==
  ASSUME NEW p, IsPass(p), NEW b, IsBuffer(b), NEW f, IsRow(p, f)
  PROVE  /\ IsBuffer(Written(p, b, f)) /\ IsRow(p, Written(p, b, f))
         /\ \A i \in RowsOf(p) :
              /\ Written(p, b, f)[i] = Reduced(f[i])
              /\ Reduced(Written(p, b, f)[i]) = Reduced(f[i])
         /\ PaddedZero(p, f) => PaddedZero(p, Written(p, b, f))
<1> DEFINE c == Cleared(p, b)
           a == Written(p, b, f)
<1>1. \A i \in Positions : c[i] = IF i \in RowsOf(p) THEN 0 ELSE b[i]
  BY DEF Cleared
<1>2. IsBuffer(c)
  BY <1>1 DEF IsBuffer
<1>3. a = Accumulate(p, c, f)
  BY DEF Written
<1>4. \A i \in RowsOf(p) : c[i] = 0 /\ f[i] \in Int /\ 0 + f[i] = f[i]
  BY <1>1, PassIs DEF IsRow
<1> HIDE DEF c, a
<1>5. /\ IsBuffer(a) /\ IsRow(p, a)
      /\ \A i \in RowsOf(p) : a[i] = Reduced(c[i] + f[i]) /\ Reduced(a[i]) = Reduced(c[i] + f[i])
  BY <1>2, <1>3, GradsAccumulatedIs
<1>6. \A i \in RowsOf(p) : a[i] = Reduced(f[i]) /\ Reduced(a[i]) = Reduced(f[i])
  BY <1>4, <1>5
<1>7. PaddedZero(p, f) => PaddedZero(p, a)
  BY <1>6, ReducedZero DEF PaddedZero
<1> QED BY <1>5, <1>6, <1>7 DEF a

(* What a norm hands back to the rows and to the dropout.                  *)
LEMMA NormStage ==
  ASSUME NEW p, IsPass(p), NEW l \in 1..p.net.layers, NEW names, NEW mask, IsNorm(names, mask),
         NEW in, IsRow(p, in), PaddedZero(p, in), NEW b, IsBuffer(b), NEW d, IsBuffer(d),
         NEW s, s = Copied(p, b, NormInput(p, l, names, in)),
         NEW drop, drop = Copied(p, d, Dropped(p, l, mask, NormInput(p, l, names, in)))
  PROVE  /\ IsBuffer(s) /\ IsRow(p, s) /\ PaddedZero(p, s)
         /\ IsBuffer(drop) /\ IsRow(p, drop) /\ PaddedZero(p, drop)
         /\ NormBack(p, l, names, mask, in, s, drop)
<1> DEFINE f == NormInput(p, l, names, in)
           g == Dropped(p, l, mask, f)
<1>1. ASSUME NEW i \in RowsOf(p)
      PROVE  /\ f[i] \in Int /\ Reduced(f[i]) = f[i]
             /\ f[i] = Reduced(NormSlope(p, names, l, i) * in[i])
             /\ Padded(p, i) => f[i] = 0
  <2> DEFINE e == NormSlope(p, names, l, i) * in[i]
  <2>1. NormSlope(p, names, l, i) \in Int /\ in[i] \in Int
    BY NormNumbers DEF IsRow
  <2>2. e \in Int /\ (in[i] = 0 => e = 0)
    BY <2>1
  <2>3. f[i] = Reduced(e)
    BY DEF NormInput
  <2>4. Padded(p, i) => e = 0
    BY <2>2 DEF PaddedZero
  <2> HIDE DEF e, f
  <2> QED BY <2>2, <2>3, <2>4, ReducedType, ReducedZero DEF e
<1>2. ASSUME NEW i \in RowsOf(p)
      PROVE  /\ g[i] \in Int /\ g[i] = Dropout(p, mask, l, i) * f[i] /\ (Padded(p, i) => g[i] = 0)
  <2>1. g[i] = Dropout(p, mask, l, i) * f[i]
    BY DEF Dropped
  <2>2. Dropout(p, mask, l, i) \in Int
    BY NormNumbers
  <2> HIDE DEF f, g
  <2> QED BY <1>1, <2>1, <2>2
<1> HIDE DEF f, g
<1>3. IsRow(p, f) /\ PaddedZero(p, f) /\ IsRow(p, g) /\ PaddedZero(p, g)
  BY <1>1, <1>2 DEF IsRow, PaddedZero
<1>4. s = Copied(p, b, f) /\ drop = Copied(p, d, g)
  BY DEF f, g
<1>5. /\ IsBuffer(s) /\ IsRow(p, s) /\ PaddedZero(p, s)
      /\ \A i \in RowsOf(p) : s[i] = Reduced(f[i])
  BY <1>3, <1>4, CopiedIs
<1>6. /\ IsBuffer(drop) /\ IsRow(p, drop) /\ PaddedZero(p, drop)
      /\ \A i \in RowsOf(p) : Reduced(drop[i]) = Reduced(g[i])
  BY <1>3, <1>4, CopiedIs
<1>7. ASSUME NEW i \in RowsOf(p)
      PROVE  /\ Padded(p, i) => in[i] = 0
             /\ Reduced(s[i]) = Reduced(NormSlope(p, names, l, i) * in[i])
             /\ Reduced(drop[i]) = Reduced(Dropout(p, mask, l, i) * s[i])
  <2>1. s[i] = f[i]
    BY <1>1, <1>5
  <2>2. Reduced(drop[i]) = Reduced(Dropout(p, mask, l, i) * s[i])
    BY <1>2, <1>6, <2>1
  <2>3. Reduced(s[i]) = Reduced(NormSlope(p, names, l, i) * in[i])
    BY <1>1, <2>1
  <2> QED BY <2>2, <2>3 DEF PaddedZero
<1>8. NormBack(p, l, names, mask, in, s, drop)
  BY <1>7 DEF NormBack
<1> QED BY <1>5, <1>6, <1>8

Grads(n) == [Params(n) -> 0..(Modulo - 1)]

LEMMA GradsInt ==
  ASSUME NEW n, NEW g \in Grads(n), NEW param \in Params(n)
  PROVE  g[param] \in Int /\ Reduced(g[param]) = g[param]
<1> DEFINE x == g[param]
<1>1. x \in 0..(Modulo - 1) /\ Modulo \in Nat \ {0}
  BY ModuloIs DEF Grads
<1> HIDE DEF x
<1>2. x % Modulo = x
  BY <1>1, ModSmall
<1> QED BY <1>1, <1>2 DEF Reduced, x

LEMMA PlusIs ==
  ASSUME NEW n, NEW g \in Grads(n), NEW name, NEW l, NEW term \in Int
  PROVE  /\ Plus(g, <<name, l>>, term) \in Grads(n)
         /\ \A param \in Params(n) :
              Reduced(Plus(g, <<name, l>>, term)[param]) = Reduced(g[param] + Along(param, name, l) * term)
<1> DEFINE h == Plus(g, <<name, l>>, term)
<1>1. h = [g EXCEPT ![<<name, l>>] = Reduced(g[<<name, l>>] + term)]
  BY DEF Plus
<1>2. DOMAIN h = Params(n) /\ h = [param \in Params(n) |-> h[param]]
  BY <1>1 DEF Grads
<1>3. ASSUME NEW param \in Params(n)
      PROVE  /\ h[param] \in 0..(Modulo - 1)
             /\ Reduced(h[param]) = Reduced(g[param] + Along(param, name, l) * term)
  <2> DEFINE a == Along(param, name, l)
             x == g[param]
             e == x + a * term
  <2>1. x \in Int /\ Reduced(x) = x /\ x \in 0..(Modulo - 1)
    BY GradsInt DEF Grads
  <2>2. CASE param = <<name, l>>
    <3>1. a = 1
      BY <2>2 DEF Along
    <3>2. h[param] = Reduced(x + term)
      BY <1>1, <2>2 DEF Grads
    <3> HIDE DEF a, x, h
    <3>3. e = x + term /\ e \in Int
      BY <2>1, <3>1
    <3> HIDE DEF e
    <3>4. Reduced(e) \in 0..(Modulo - 1) /\ Reduced(Reduced(e)) = Reduced(e)
      BY <3>3, ReducedType
    <3> QED BY <3>2, <3>3, <3>4 DEF e, a, x
  <2>3. CASE param # <<name, l>>
    <3>1. a = 0
      BY <2>3 DEF Along
    <3>2. h[param] = x
      BY <1>1, <2>3 DEF Grads
    <3> HIDE DEF a, x, h
    <3>3. e = x
      BY <2>1, <3>1
    <3> QED BY <2>1, <3>2, <3>3 DEF e, a, x
  <2> QED BY <2>2, <2>3
<1>4. h \in Grads(n)
  BY <1>2, <1>3 DEF Grads
<1> QED BY <1>3, <1>4

(* Terms added one after the other.                                        *)
LEMMA PlusAgain ==
  ASSUME NEW a \in Int, NEW b \in Int, NEW c \in Int, NEW d \in Int, NEW e \in Int,
         Reduced(a) = Reduced(b + c), Reduced(d) = Reduced(a + e)
  PROVE  Reduced(d) = Reduced(b + (c + e))
<1> DEFINE bc == b + c
<1>1. bc \in Int /\ Reduced(a) = Reduced(bc)
  OBVIOUS
<1> HIDE DEF bc
<1>2. Reduced(a + e) = Reduced(bc + e)
  BY <1>1, ReducedBeside
<1>3. bc + e = b + (c + e)
  BY DEF bc
<1> QED BY <1>2, <1>3

(* What leaves the rows and what reaches the gradient balance.             *)
Balance(g, h, owed, rest, moved) ==
  Reduced(h) = Reduced(g + moved) /\ Reduced(owed) = Reduced(rest + moved)

LEMMA Balances ==
  ASSUME NEW g \in Int, NEW h \in Int, NEW owed \in Int, NEW rest \in Int, NEW moved \in Int,
         Balance(g, h, owed, rest, moved)
  PROVE  Reduced(h + rest) = Reduced(g + owed)
<1> DEFINE u == g + moved
           v == rest + moved
<1>1. u \in Int /\ Reduced(h) = Reduced(u)
  BY DEF Balance
<1>5. v \in Int /\ Reduced(owed) = Reduced(v)
  BY DEF Balance
<1> HIDE DEF u, v
<1>2. Reduced(h + rest) = Reduced(u + rest)
  BY <1>1, ReducedBeside
<1>3. Reduced(owed + g) = Reduced(v + g)
  BY <1>5, ReducedBeside
<1>4. u + rest = v + g /\ owed + g = g + owed
  BY DEF u, v
<1> QED BY <1>2, <1>3, <1>4

-----------------------------------------------------------------------------
(* What a stage takes from the rows it adds to the gradient.               *)

Moved(g, h, before, after) == Reduced(h + after) = Reduced(g + before)

LEMMA ReducedAdded ==
  ASSUME NEW a \in Int, NEW b \in Int, NEW c \in Int, Reduced(a) = Reduced(b)
  PROVE  Reduced(a + c) = Reduced(b + c)
BY ReducedBeside

LEMMA MovedIs ==
  ASSUME NEW g \in Int, NEW h \in Int, NEW before \in Int, NEW after \in Int, Moved(g, h, before, after)
  PROVE  /\ \A r \in Int : Moved(g, h, before + r, after + r)
         /\ \A k, c \in Int : Moved(h, k, after, c) => Moved(g, k, before, c)
<1>1. PICK u \in Int, v \in Int : u = h + after /\ v = g + before
  OBVIOUS
<1>2. Reduced(u) = Reduced(v)
  BY <1>1 DEF Moved
<1>3. ASSUME NEW k \in Int, NEW c \in Int, Moved(h, k, after, c)
      PROVE  Moved(g, k, before, c)
  BY <1>3 DEF Moved
<1>4. ASSUME NEW r \in Int
      PROVE  Moved(g, h, before + r, after + r)
  <2>1. Reduced(u + r) = Reduced(v + r)
    BY <1>2, ReducedAdded, ZenonT(60)
  <2>2. h + (after + r) = u + r /\ g + (before + r) = v + r
    BY <1>1
  <2> QED BY <2>1, <2>2 DEF Moved
<1> QED BY <1>3, <1>4

LEMMA MovedSame ==
  ASSUME NEW g \in Int, NEW before \in Int, NEW after \in Int, Reduced(before) = Reduced(after)
  PROVE  Moved(g, g, before, after)
<1>1. Reduced(after + g) = Reduced(before + g)
  BY ReducedBeside
<1>2. after + g = g + after /\ before + g = g + before
  OBVIOUS
<1> QED BY <1>1, <1>2 DEF Moved

LEMMA MovedBy ==
  ASSUME NEW g \in Int, NEW h \in Int, NEW before \in Int, NEW after \in Int, NEW moved \in Int,
         Reduced(h) = Reduced(g + moved), Reduced(before) = Reduced(after + moved)
  PROVE  Moved(g, h, before, after)
<1>1. Balance(g, h, before, after, moved)
  BY DEF Balance
<1>2. Reduced(h + after) = Reduced(g + before)
  BY <1>1, Balances
<1> QED BY <1>2 DEF Moved

LEMMA AlongInt ==
  ASSUME NEW param, NEW name, NEW l, NEW d \in Int
  PROVE  Along(param, name, l) * d \in Int
BY AlongIs

LEMMA PlusTwice ==
  ASSUME NEW n, NEW g \in Grads(n), NEW name, NEW other, NEW l, NEW term \in Int, NEW more \in Int
  PROVE  /\ Plus(Plus(g, <<name, l>>, term), <<other, l>>, more) \in Grads(n)
         /\ \A param \in Params(n) :
              Reduced(Plus(Plus(g, <<name, l>>, term), <<other, l>>, more)[param])
                = Reduced(g[param] + (Along(param, name, l) * term + Along(param, other, l) * more))
<1> DEFINE g1 == Plus(g, <<name, l>>, term)
           g2 == Plus(g1, <<other, l>>, more)
<1>1. g1 \in Grads(n)
      /\ \A param \in Params(n) : Reduced(g1[param]) = Reduced(g[param] + Along(param, name, l) * term)
  BY PlusIs
<1> HIDE DEF g1
<1>2. g2 \in Grads(n)
      /\ \A param \in Params(n) : Reduced(g2[param]) = Reduced(g1[param] + Along(param, other, l) * more)
  BY <1>1, PlusIs
<1> HIDE DEF g2
<1>3. ASSUME NEW param \in Params(n)
      PROVE  Reduced(g2[param])
               = Reduced(g[param] + (Along(param, name, l) * term + Along(param, other, l) * more))
  <2>1. g[param] \in Int /\ g1[param] \in Int /\ g2[param] \in Int
    BY <1>1, <1>2, GradsInt
  <2> DEFINE a == Along(param, name, l) * term
             b == Along(param, other, l) * more
  <2>2. a \in Int
    BY AlongInt
  <2>6. b \in Int
    BY AlongInt
  <2>3. Reduced(g1[param]) = Reduced(g[param] + a)
    BY <1>1
  <2>4. Reduced(g2[param]) = Reduced(g1[param] + b)
    BY <1>2
  <2> HIDE DEF a, b
  <2>5. Reduced(g2[param]) = Reduced(g[param] + (a + b))
    BY <2>1, <2>2, <2>3, <2>4, <2>6, PlusAgain
  <2> QED BY <2>5 DEF a, b
<1> QED BY <1>2, <1>3 DEF g1, g2

(* The gains of a norm.                                                    *)
LEMMA NormMoves ==
  ASSUME NEW n, NEW p, PassOf(n, p), NEW l \in 1..n.layers, NEW g \in Grads(n),
         NEW names, NEW mask, IsNorm(names, mask),
         NEW in, NEW s, NEW drop, IsRow(p, in), IsRow(p, s), IsRow(p, drop),
         NormBack(p, l, names, mask, in, s, drop)
  PROVE  /\ NormGrads(p, g, l, names, in) \in Grads(n)
         /\ \A param \in Params(n) : \A outs, x : IsRow(p, outs) /\ IsRow(p, x) =>
              Moved(g[param], NormGrads(p, g, l, names, in)[param],
                    Dot(p, in, NormTangent(p, param, l, names, mask, outs, x)),
                    Dot(p, drop, outs) + Dot(p, s, x))
<1> DEFINE d1 == Dot(p, CacheRow(p, names.xhat, l), in)
           d2 == Dot(p, Ones, in)
           g1 == Plus(g, <<names.gamma, l>>, d1)
           g2 == Plus(g1, <<names.beta, l>>, d2)
           h == NormGrads(p, g, l, names, in)
<1>1. IsPass(p) /\ p.net = n
  BY PassOfIs
<1>2. l \in 1..p.net.layers
  BY <1>1
<1>3. names.xhat \in Holders /\ names.beta \in {"beta_attn", "beta_ffn"}
  BY DEF IsNorm, AttnNames, FfnNames, Holders
<1>4. IsRow(p, CacheRow(p, names.xhat, l)) /\ IsRow(p, Ones)
  BY <1>1, <1>2, <1>3, CacheRowIs, RowConstants
<1>5. d1 \in Int
  BY <1>1, <1>4, DotIs
<1>51. d2 \in Int
  BY <1>1, <1>4, DotIs
<1>6. h = IF Uses(p, "RMSNORM") THEN g1 ELSE g2
  BY DEF NormGrads
<1> HIDE DEF d1, d2, h
<1>7. g1 \in Grads(n)
      /\ \A param \in Params(n) : Reduced(g1[param]) = Reduced(g[param] + Along(param, names.gamma, l) * d1)
  BY <1>5, PlusIs
<1>8. g2 \in Grads(n)
      /\ \A param \in Params(n) : Reduced(g2[param])
           = Reduced(g[param] + (Along(param, names.gamma, l) * d1 + Along(param, names.beta, l) * d2))
  BY <1>5, <1>51, PlusTwice
<1> HIDE DEF g1, g2
<1>9. h \in Grads(n)
  BY <1>6, <1>7, <1>8
<1>10. ASSUME NEW param \in Params(n), NEW outs, NEW x, IsRow(p, outs), IsRow(p, x)
       PROVE  Moved(g[param], h[param], Dot(p, in, NormTangent(p, param, l, names, mask, outs, x)),
                    Dot(p, drop, outs) + Dot(p, s, x))
  <2> DEFINE a == Along(param, names.gamma, l) * d1
             b == Along(param, names.beta, l) * d2
             before == Dot(p, in, NormTangent(p, param, l, names, mask, outs, x))
             after == Dot(p, drop, outs) + Dot(p, s, x)
  <2>1. /\ g[param] \in Int /\ h[param] \in Int /\ g1[param] \in Int /\ g2[param] \in Int
        /\ Reduced(g[param]) = g[param]
    BY <1>7, <1>8, <1>9, GradsInt
  <2>2. a \in Int /\ b \in Int
    BY <1>5, <1>51, AlongInt
  <2>3. NormTangent(p, param, l, names, mask, outs, x) \in RowSet(p)
    BY <1>1, <1>2, <1>10, NormTangentIs
  <2>4. before \in Int /\ after \in Int
    BY <1>1, <1>10, <2>3, RowSetIs, DotIs
  <2>5. Reduced(before) = Reduced(Dot(p, drop, outs) + Dot(p, s, x) + a + b)
    BY <1>1, <1>2, <1>10, NormDot DEF d1, d2
  <2>6. Reduced(g1[param]) = Reduced(g[param] + a)
    BY <1>7
  <2>7. Reduced(g2[param]) = Reduced(g[param] + (a + b))
    BY <1>8
  <2>8. Uses(p, "RMSNORM") => b = 0
    <3>1. SUFFICES ASSUME Uses(p, "RMSNORM") PROVE b = 0
      OBVIOUS
    <3>2. param[1] \notin {"beta_attn", "beta_ffn"}
      BY <1>1, <3>1, ParamsAre DEF Uses
    <3>3. param # <<names.beta, l>>
      BY <1>3, <3>2
    <3>4. Along(param, names.beta, l) = 0
      BY <3>3, AlongIs
    <3> QED BY <1>51, <3>4
  <2>9. Dot(p, drop, outs) \in Int /\ Dot(p, s, x) \in Int
    BY <1>1, <1>10, DotIs
  <2> HIDE DEF a, b, before
  <2>10. Dot(p, drop, outs) + Dot(p, s, x) + a + b = after + (a + b)
    BY <2>2, <2>9
  <2> HIDE DEF after
  <2>11. Reduced(h[param]) = Reduced(g[param] + (a + b))
    <3>1. CASE Uses(p, "RMSNORM")
      <4>1. g[param] + (a + b) = g[param] + a
        BY <2>1, <2>2, <2>8, <3>1
      <4> QED BY <1>6, <2>6, <3>1, <4>1
    <3>2. CASE ~Uses(p, "RMSNORM")
      <4>1. h = g2
        BY <1>6, <3>2
      <4> QED BY <2>7, <4>1
    <3> QED BY <3>1, <3>2
  <2>12. a + b \in Int
    BY <2>2
  <2> QED BY <2>1, <2>4, <2>5, <2>10, <2>11, <2>12, MovedBy DEF before, after
<1> QED BY <1>9, <1>10 DEF h

(* A linear map with a bias, and one without.                              *)
LEMMA LinearMoves ==
  ASSUME NEW n, NEW p, PassOf(n, p), NEW l \in 1..n.layers, NEW g \in Grads(n),
         NEW name \in Holders, NEW bias, NEW input, NEW f, NEW back,
         IsRow(p, input), IsRow(p, f), IsRow(p, back), BackRow(p, name, l, f, back)
  PROVE  /\ LinearGrads(p, g, l, bias, name, input, f) \in Grads(n)
         /\ \A param \in Params(n) : \A t, y :
              IsRow(p, t) /\ LinearRow(p, param, name, l, Along(param, bias, l), t, input, y) =>
                /\ IsRow(p, y)
                /\ Moved(g[param], LinearGrads(p, g, l, bias, name, input, f)[param],
                         Dot(p, f, y), Dot(p, back, t))
<1> DEFINE d1 == Dot(p, Ones, f)
           d2 == Dot(p, input, f)
           g1 == Plus(g, <<bias, l>>, d1)
           h == LinearGrads(p, g, l, bias, name, input, f)
<1>1. IsPass(p) /\ p.net = n
  BY PassOfIs
<1>2. l \in 1..p.net.layers
  BY <1>1
<1>3. d1 \in Int /\ d2 \in Int
  BY <1>1, RowConstants, DotIs
<1>4. h = Plus(g1, <<name, l>>, d2)
  BY DEF LinearGrads
<1> HIDE DEF d1, d2, h
<1>5. g1 \in Grads(n)
      /\ \A param \in Params(n) : Reduced(g1[param]) = Reduced(g[param] + Along(param, bias, l) * d1)
  BY <1>3, PlusIs, SMTT(30)
<1> HIDE DEF g1
<1>6. h \in Grads(n)
      /\ \A param \in Params(n) : Reduced(h[param]) = Reduced(g1[param] + Along(param, name, l) * d2)
  BY <1>3, <1>4, <1>5, PlusIs
<1>7. ASSUME NEW param \in Params(n), NEW t, NEW y, IsRow(p, t),
             LinearRow(p, param, name, l, Along(param, bias, l), t, input, y)
      PROVE  IsRow(p, y) /\ Moved(g[param], h[param], Dot(p, f, y), Dot(p, back, t))
  <2> DEFINE a == Along(param, bias, l) * d1
             b == Along(param, name, l) * d2
             before == Dot(p, f, y)
             after == Dot(p, back, t)
  <2>1. g[param] \in Int /\ h[param] \in Int /\ g1[param] \in Int
    BY <1>5, <1>6, GradsInt
  <2>2. a \in Int /\ b \in Int /\ Along(param, bias, l) \in Int
    BY <1>3, AlongInt, AlongIs
  <2>3. IsRow(p, y) /\ Reduced(before) = Reduced(after + b + a)
    <3> DEFINE c == Along(param, bias, l)
    <3>1. c \in Int /\ LinearRow(p, param, name, l, c, t, input, y)
      BY <1>7, <2>2
    <3> HIDE DEF c
    <3>2. IsRow(p, y)
          /\ Reduced(Dot(p, f, y)) = Reduced(Dot(p, back, t) + Along(param, name, l) * Dot(p, input, f)
                                               + c * Dot(p, Ones, f))
      BY <1>1, <1>2, <1>7, <3>1, LinearDot
    <3> QED BY <3>2 DEF d1, d2, c
  <2>4. before \in Int /\ after \in Int
    BY <1>1, <1>7, <2>3, DotIs
  <2>5. Reduced(g1[param]) = Reduced(g[param] + a)
    BY <1>5
  <2>6. Reduced(h[param]) = Reduced(g1[param] + b)
    BY <1>6
  <2> HIDE DEF a, b, before, after
  <2>7. Reduced(h[param]) = Reduced(g[param] + (a + b))
    BY <2>1, <2>2, <2>5, <2>6, PlusAgain
  <2>8. after + b + a = after + (a + b) /\ a + b \in Int
    BY <2>2, <2>4
  <2>9. Moved(g[param], h[param], before, after)
    BY <2>1, <2>3, <2>4, <2>7, <2>8, MovedBy
  <2> QED BY <2>3, <2>9 DEF before, after
<1> QED BY <1>6, <1>7 DEF h

LEMMA WeightMoves ==
  ASSUME NEW n, NEW p, PassOf(n, p), NEW l \in 1..n.layers, NEW g \in Grads(n),
         NEW name \in Holders, NEW input, NEW f, NEW back,
         IsRow(p, input), IsRow(p, f), IsRow(p, back), BackRow(p, name, l, f, back)
  PROVE  /\ Plus(g, <<name, l>>, Dot(p, input, f)) \in Grads(n)
         /\ \A param \in Params(n) : \A t, y :
              IsRow(p, t) /\ LinearRow(p, param, name, l, 0, t, input, y) =>
                /\ IsRow(p, y)
                /\ Moved(g[param], Plus(g, <<name, l>>, Dot(p, input, f))[param],
                         Dot(p, f, y), Dot(p, back, t))
<1> DEFINE d1 == Dot(p, Ones, f)
           d2 == Dot(p, input, f)
           h == Plus(g, <<name, l>>, d2)
<1>1. IsPass(p) /\ p.net = n
  BY PassOfIs
<1>2. l \in 1..p.net.layers
  BY <1>1
<1>3. d1 \in Int /\ d2 \in Int
  BY <1>1, RowConstants, DotIs
<1> HIDE DEF d1, d2
<1>4. h \in Grads(n)
      /\ \A param \in Params(n) : Reduced(h[param]) = Reduced(g[param] + Along(param, name, l) * d2)
  BY <1>3, PlusIs, SMTT(30)
<1> HIDE DEF h
<1>5. ASSUME NEW param \in Params(n), NEW t, NEW y, IsRow(p, t),
             LinearRow(p, param, name, l, 0, t, input, y)
      PROVE  IsRow(p, y) /\ Moved(g[param], h[param], Dot(p, f, y), Dot(p, back, t))
  <2> DEFINE b == Along(param, name, l) * d2
             before == Dot(p, f, y)
             after == Dot(p, back, t)
  <2>1. g[param] \in Int /\ h[param] \in Int
    BY <1>4, GradsInt
  <2>2. b \in Int /\ 0 \in Int
    BY <1>3, AlongInt
  <2>3. IsRow(p, y) /\ Reduced(before) = Reduced(after + b + 0 * d1)
    BY <1>1, <1>2, <1>5, <2>2, LinearDot DEF d1, d2
  <2>4. before \in Int /\ after \in Int
    BY <1>1, <1>5, <2>3, DotIs
  <2>5. Reduced(h[param]) = Reduced(g[param] + b)
    BY <1>4
  <2> HIDE DEF b, before, after
  <2>6. after + b + 0 * d1 = after + b
    BY <1>3, <2>2, <2>4
  <2>7. Moved(g[param], h[param], before, after)
    BY <2>1, <2>2, <2>3, <2>4, <2>5, <2>6, MovedBy
  <2> QED BY <2>3, <2>7 DEF before, after
<1> QED BY <1>4, <1>5 DEF h, d2

-----------------------------------------------------------------------------
(* Rows that are the same modulo Modulo, and what is still owed.           *)

SameRow(p, f, g) == \A i \in RowsOf(p) : Reduced(f[i]) = Reduced(g[i])

LEMMA DotOfSame ==
  ASSUME NEW p, IsPass(p), NEW f, NEW g, NEW t, IsRow(p, f), IsRow(p, g), IsRow(p, t),
         SameRow(p, f, g)
  PROVE  Reduced(Dot(p, f, t)) = Reduced(Dot(p, g, t))
<1>1. ASSUME NEW i \in RowsOf(p)
      PROVE  Reduced(f[i] * t[i]) = Reduced(g[i] * t[i])
  <2> DEFINE a == f[i]
             b == g[i]
             c == t[i]
  <2>1. a \in Int
    BY DEF IsRow
  <2>2. b \in Int
    BY DEF IsRow
  <2>3. c \in Int
    BY DEF IsRow
  <2>4. Reduced(a) = Reduced(b)
    BY DEF SameRow
  <2> HIDE DEF a, b, c
  <2>5. Reduced(a * c) = Reduced(b * c)
    BY <2>1, <2>2, <2>3, <2>4, ReducedBeside
  <2> QED BY <2>5 DEF a, b, c
<1>2. SameProducts(p, f, t, g, t)
  BY <1>1 DEF SameProducts
<1> QED BY <1>2, DotOfOne

LEMMA RealRowsIs ==
  ASSUME NEW p, IsPass(p), NEW b, IsBuffer(b)
  PROVE  /\ IsBuffer(RealRows(p, b)) /\ IsRow(p, RealRows(p, b))
         /\ PaddedZero(p, RealRows(p, b))
         /\ \A i \in RowsOf(p) : ~Padded(p, i) => RealRows(p, b)[i] = b[i]
<1>1. \A i \in Positions : RealRows(p, b)[i] = IF i \in RowsOf(p) /\ Padded(p, i) THEN 0 ELSE b[i]
  BY DEF RealRows
<1>2. IsBuffer(RealRows(p, b))
  BY <1>1 DEF IsBuffer
<1>3. \A i \in RowsOf(p) : i \in Positions
  BY PassIs
<1> QED BY <1>1, <1>2, <1>3, BufferIsRow DEF PaddedZero

LEMMA RealDot ==
  ASSUME NEW p, IsPass(p), NEW b, IsBuffer(b), NEW f, NEW t, IsRow(p, f), IsRow(p, t),
         SameRow(p, b, f), PaddedZero(p, t)
  PROVE  Reduced(Dot(p, RealRows(p, b), t)) = Reduced(Dot(p, f, t))
<1> DEFINE r == RealRows(p, b)
<1>1. IsRow(p, r) /\ \A i \in RowsOf(p) : ~Padded(p, i) => r[i] = b[i]
  BY RealRowsIs
<1> HIDE DEF r
<1>2. ASSUME NEW i \in RowsOf(p)
      PROVE  Reduced(r[i] * t[i]) = Reduced(f[i] * t[i])
  <2> DEFINE a == r[i]
             d == f[i]
             c == t[i]
  <2>1. a \in Int
    BY <1>1 DEF IsRow
  <2>2. d \in Int
    BY DEF IsRow
  <2>3. c \in Int
    BY DEF IsRow
  <2>4. ~Padded(p, i) => Reduced(a) = Reduced(d)
    BY <1>1 DEF SameRow
  <2>5. Padded(p, i) => c = 0
    BY DEF PaddedZero
  <2> HIDE DEF a, d, c
  <2>6. CASE Padded(p, i)
    <3>1. a * c = 0
      BY <2>1, <2>3, <2>5, <2>6
    <3>2. d * c = 0
      BY <2>2, <2>3, <2>5, <2>6
    <3>3. Reduced(a * c) = Reduced(d * c)
      BY <3>1, <3>2
    <3> QED BY <3>3 DEF a, d, c
  <2>7. CASE ~Padded(p, i)
    <3>1. Reduced(a * c) = Reduced(d * c)
      BY <2>1, <2>2, <2>3, <2>4, <2>7, ReducedBeside
    <3> QED BY <3>1 DEF a, d, c
  <2> QED BY <2>6, <2>7
<1>3. SameProducts(p, r, t, f, t)
  BY <1>2 DEF SameProducts
<1>4. Reduced(Dot(p, r, t)) = Reduced(Dot(p, f, t))
  BY <1>1, <1>3, DotOfOne
<1> QED BY <1>4 DEF r

LEMMA HiddenPadded ==
  ASSUME NEW p, IsPass(p), NEW param, NEW l \in 1..p.net.layers
  PROVE  PaddedZero(p, HiddenTangents(p, param)[l])
<1> DEFINE x == HiddenTangents(p, param)[l - 1]
<1>1. l - 1 \in 0..p.net.layers
  BY PassIs
<1>2. IsRow(p, x) /\ HiddenTangents(p, param)[l] = LayerTangent(p, param, l, x)
  BY <1>1, HiddenTangentsAre
<1> HIDE DEF x
<1> DEFINE outs == FfnRows(p, param, l, x)
           m == MiddleRows(p, param, l, x)
<1>3. IsRow(p, outs) /\ IsRow(p, m)
      /\ LayerTangent(p, param, l, x) = NormTangent(p, param, l, FfnNames, "mask_ffn", outs, m)
  BY <1>2, LayerRows
<1> HIDE DEF outs, m
<1>4. IsNorm(FfnNames, "mask_ffn")
  BY DEF IsNorm
<1>5. \A i \in RowsOf(p) :
        Padded(p, i) => NormTangent(p, param, l, FfnNames, "mask_ffn", outs, m)[i] = 0
  BY <1>3, <1>4, NormTangentIs
<1> QED BY <1>2, <1>3, <1>5 DEF PaddedZero

(* A row that is the sum of four.                                          *)
RowOfFour(p, y, a, b, c, d) ==
  \A i \in RowsOf(p) : Reduced(y[i]) = Reduced(a[i] + b[i] + c[i] + d[i])

LEMMA FourTimes ==
  ASSUME NEW a \in Int, NEW b \in Int, NEW c \in Int, NEW d \in Int, NEW t \in Int
  PROVE  (a + b + c + d) * t = a * t + b * t + 1 * (c * t) + 1 * (d * t)
OBVIOUS

LEMMA DotOfRows ==
  ASSUME NEW p, IsPass(p), NEW y, NEW a, NEW b, NEW c, NEW d, NEW t,
         IsRow(p, y), IsRow(p, a), IsRow(p, b), IsRow(p, c), IsRow(p, d), IsRow(p, t),
         RowOfFour(p, y, a, b, c, d)
  PROVE  Reduced(Dot(p, y, t)) = Reduced(Dot(p, a, t) + Dot(p, b, t) + Dot(p, c, t) + Dot(p, d, t))
<1>1. ASSUME NEW i \in RowsOf(p)
      PROVE  Reduced(y[i] * t[i])
               = Reduced(a[i] * t[i] + b[i] * t[i] + 1 * (c[i] * t[i]) + 1 * (d[i] * t[i]))
  <2>1. a[i] \in Int /\ b[i] \in Int /\ c[i] \in Int /\ d[i] \in Int /\ t[i] \in Int /\ y[i] \in Int
    BY DEF IsRow
  <2> DEFINE s == a[i] + b[i] + c[i] + d[i]
             v == t[i]
             u == y[i]
  <2>2. s \in Int
    BY <2>1
  <2>3. v \in Int
    BY <2>1
  <2>4. u \in Int
    BY <2>1
  <2>5. Reduced(u) = Reduced(s)
    BY DEF RowOfFour
  <2>6. s * v = a[i] * t[i] + b[i] * t[i] + 1 * (c[i] * t[i]) + 1 * (d[i] * t[i])
    BY <2>1, FourTimes
  <2> HIDE DEF s, v, u
  <2>7. Reduced(u * v) = Reduced(s * v)
    BY <2>2, <2>3, <2>4, <2>5, ReducedBeside
  <2> QED BY <2>6, <2>7 DEF u, v
<1>2. SplitsInFour(p, y, t, a, t, b, t, 1, c, t, 1, d, t)
  BY <1>1 DEF SplitsInFour
<1>3. Reduced(Dot(p, y, t))
        = Reduced(Dot(p, a, t) + Dot(p, b, t) + 1 * Dot(p, c, t) + 1 * Dot(p, d, t))
  BY <1>2, DotOfFour
<1>4. 1 * Dot(p, c, t) = Dot(p, c, t) /\ 1 * Dot(p, d, t) = Dot(p, d, t)
  BY DotIs
<1> QED BY <1>3, <1>4

(* What the rows that came back so far still have to add to the gradient   *)
(* of one parameter: the product of what came back at each place with the  *)
(* tangent there.                                                          *)
FfnOwed(p, l, at, w, param, x) ==
  IF at = "ffn_out" THEN Dot(p, w.drop, FfnRows(p, param, l, x))
  ELSE IF at = "ffn_act" THEN Dot(p, w.hidden, ActivationRows(p, param, l, x))
  ELSE Dot(p, w.hidden, UpRows(p, param, l, x))
         + (IF Uses(p, "SWIGLU") THEN Dot(p, w.gate, SideRows(p, param, l, x)) ELSE 0)

AttnOwed(p, l, at, w, param, x) ==
  IF at = "attn_out" THEN Dot(p, w.drop, OutRows(p, param, l, x))
  ELSE IF at = "attn_probs" THEN Dot(p, w.concat, ContextRows(p, param, l, x))
  ELSE IF at = "attn_heads"
  THEN Scores(p, w.scores, ScoreRows(p, param, l, x)) + Dot(p, w.v, ValueRows(p, param, l, x))
  ELSE Dot(p, w.q, QueryRows(p, param, l, x)) + Dot(p, w.k, KeyRows(p, param, l, x))
         + Dot(p, w.v, ValueRows(p, param, l, x))

FfnPhases == {"ffn_out", "ffn_act", "ffn_in"}
AttnPhases == {"attn_out", "attn_probs", "attn_heads", "attn_in"}

LayerOwed(p, l, at, w, param, x) ==
  IF at \in FfnPhases
  THEN FfnOwed(p, l, at, w, param, x) + Dot(p, w.s2, MiddleRows(p, param, l, x))
  ELSE IF at = "attn_norm" THEN Dot(p, w.x1, MiddleRows(p, param, l, x))
  ELSE AttnOwed(p, l, at, w, param, x) + Dot(p, w.out, x)

Owed(p, l, at, w, param) ==
  IF at \in {"loss", "head"} THEN Tangent(p, param)
  ELSE IF at = "ffn_norm" THEN Dot(p, RealRows(p, w.in), HiddenTangents(p, param)[l])
  ELSE LayerOwed(p, l, at, w, param, HiddenTangents(p, param)[l - 1])

-----------------------------------------------------------------------------
(* Every stage moves what it takes from the rows into the gradient.        *)

Carried(n, p, l, from, w, g, k, to, v, h) ==
  /\ h \in Grads(n) /\ IsScratch(v)
  /\ \A param \in Params(n) :
       Moved(g[param], h[param], Owed(p, l, from, w, param), Owed(p, k, to, v, param))

LEMMA ScratchIs ==
  ASSUME NEW w, IsScratch(w)
  PROVE  /\ IsBuffer(w.in) /\ IsBuffer(w.out) /\ IsBuffer(w.s2) /\ IsBuffer(w.drop) /\ IsBuffer(w.x1)
         /\ IsBuffer(w.hidden) /\ IsBuffer(w.gate) /\ IsBuffer(w.concat)
         /\ IsBuffer(w.q) /\ IsBuffer(w.k) /\ IsBuffer(w.v)
         /\ DOMAIN w = BufferNames
BY DEF IsScratch, BufferNames

LEMMA PlaceIs ==
  ASSUME NEW n, NEW p, PassOf(n, p), NEW l \in 1..n.layers, NEW param
  PROVE  /\ IsPass(p) /\ p.net = n /\ l \in 1..p.net.layers
         /\ IsRow(p, HiddenTangents(p, param)[l - 1])
         /\ IsRow(p, HiddenTangents(p, param)[l])
         /\ HiddenTangents(p, param)[l]
              = LayerTangent(p, param, l, HiddenTangents(p, param)[l - 1])
<1>1. IsPass(p) /\ p.net = n
  BY PassOfIs
<1>2. l \in 1..p.net.layers /\ l - 1 \in 0..p.net.layers /\ l \in 0..p.net.layers
  BY <1>1, PassIs
<1> QED BY <1>1, <1>2, HiddenTangentsAre

LEMMA NormNames ==
  IsNorm(AttnNames, "mask_attn") /\ IsNorm(FfnNames, "mask_ffn")
BY DEF IsNorm

LEMMA FfnNormStage ==
  ASSUME NEW n, NEW p, PassOf(n, p), NEW l \in 1..n.layers, NEW g \in Grads(n), NEW w, IsScratch(w),
         NEW in, in = RealRows(p, w.in), NEW s, s = NormInput(p, l, FfnNames, in),
         NEW v, v = [w EXCEPT !.in = in, !.s2 = Copied(p, w.s2, s),
                              !.drop = Copied(p, w.drop, Dropped(p, l, "mask_ffn", s))]
  PROVE  /\ Carried(n, p, l, "ffn_norm", w, g, l, "ffn_out", v, NormGrads(p, g, l, FfnNames, in))
         /\ PaddedZero(p, v.drop) /\ PaddedZero(p, v.s2)
<1> DEFINE h == NormGrads(p, g, l, FfnNames, in)
           s2 == v.s2
           drop == v.drop
<1>1. IsPass(p) /\ l \in 1..p.net.layers
  BY PassOfIs
<1>2. DOMAIN w = BufferNames /\ IsBuffer(w.in) /\ IsBuffer(w.s2) /\ IsBuffer(w.drop)
  BY ScratchIs
<1>3. /\ DOMAIN v = BufferNames /\ v.in = in
      /\ \A name \in BufferNames \ {"in", "s2", "drop"} : v[name] = w[name]
  BY <1>2 DEF BufferNames
<1>4. s2 = Copied(p, w.s2, s)
  BY <1>2 DEF BufferNames
<1>5. drop = Copied(p, w.drop, Dropped(p, l, "mask_ffn", s))
  BY <1>2 DEF BufferNames
<1> HIDE DEF s2, drop, h
<1>6. IsBuffer(in) /\ IsRow(p, in) /\ PaddedZero(p, in)
  BY <1>1, <1>2, RealRowsIs
<1>7. IsBuffer(s2) /\ IsRow(p, s2) /\ PaddedZero(p, s2)
      /\ IsBuffer(drop) /\ IsRow(p, drop) /\ PaddedZero(p, drop)
      /\ NormBack(p, l, FfnNames, "mask_ffn", in, s2, drop)
  BY <1>1, <1>2, <1>4, <1>5, <1>6, NormNames, NormStage
<1>8. IsScratch(v)
  BY <1>3, <1>6, <1>7 DEF IsScratch, BufferNames, s2, drop
<1>9. h \in Grads(n)
  BY <1>6, <1>7, NormNames, NormMoves DEF h
<1>10. ASSUME NEW param \in Params(n)
       PROVE  Moved(g[param], h[param], Owed(p, l, "ffn_norm", w, param), Owed(p, l, "ffn_out", v, param))
  <2> DEFINE x == HiddenTangents(p, param)[l - 1]
             outs == FfnRows(p, param, l, x)
             m == MiddleRows(p, param, l, x)
  <2>1. IsRow(p, x) /\ HiddenTangents(p, param)[l] = LayerTangent(p, param, l, x)
    BY PlaceIs
  <2>2. /\ IsRow(p, outs) /\ IsRow(p, m)
        /\ LayerTangent(p, param, l, x) = NormTangent(p, param, l, FfnNames, "mask_ffn", outs, m)
    <3> HIDE DEF x
    <3> QED BY <1>1, <2>1, LayerRows
  <2>3. Owed(p, l, "ffn_norm", w, param) = Dot(p, in, HiddenTangents(p, param)[l])
    BY DEF Owed
  <2>4. Owed(p, l, "ffn_out", v, param) = Dot(p, drop, outs) + Dot(p, s2, m)
    BY DEF Owed, LayerOwed, FfnOwed, FfnPhases, drop, s2
  <2> HIDE DEF x, outs, m
  <2>5. Moved(g[param], h[param], Dot(p, in, NormTangent(p, param, l, FfnNames, "mask_ffn", outs, m)),
              Dot(p, drop, outs) + Dot(p, s2, m))
    BY <1>6, <1>7, <2>2, NormNames, NormMoves DEF h
  <2> QED BY <2>1, <2>2, <2>3, <2>4, <2>5
<1> QED BY <1>7, <1>8, <1>9, <1>10 DEF Carried, h, s2, drop

LEMMA BackIs ==
  ASSUME NEW p, IsPass(p), NEW l \in 1..p.net.layers, NEW name \in Holders, NEW f, IsRow(p, f),
         NEW b, IsBuffer(b), NEW v, v = Written(p, b, Back(p, name, l, f))
  PROVE  /\ IsBuffer(v) /\ IsRow(p, v) /\ BackRow(p, name, l, f, v)
         /\ PaddedZero(p, f) => PaddedZero(p, v)
<1> DEFINE e == Back(p, name, l, f)
<1>1. ASSUME NEW i \in RowsOf(p)
      PROVE  /\ e[i] \in Int /\ e[i] = f[i] * Weight(p, name, l)
             /\ f[i] = 0 => e[i] = 0
  <2>1. f[i] \in Int /\ Weight(p, name, l) \in Int
    BY LayerNumbers DEF IsRow
  <2>2. e[i] = f[i] * Weight(p, name, l)
    BY DEF Back
  <2> HIDE DEF e
  <2> QED BY <2>1, <2>2
<1> HIDE DEF e
<1>2. IsRow(p, e)
  BY <1>1 DEF IsRow
<1>3. v = Written(p, b, e)
  BY DEF e
<1>4. /\ IsBuffer(v) /\ IsRow(p, v)
      /\ \A i \in RowsOf(p) : Reduced(v[i]) = Reduced(e[i])
      /\ PaddedZero(p, e) => PaddedZero(p, v)
  BY <1>2, <1>3, WrittenIs
<1>5. BackRow(p, name, l, f, v)
  BY <1>1, <1>4 DEF BackRow
<1>6. PaddedZero(p, f) => PaddedZero(p, e)
  BY <1>1 DEF PaddedZero
<1> QED BY <1>4, <1>5, <1>6

FfnOutWrites(p, l, w, g, v, h) ==
  /\ v = [w EXCEPT !.hidden = Written(p, w.hidden, Back(p, "W_ff2", l, w.drop))]
  /\ h = LinearGrads(p, g, l, "b_ff2", "W_ff2", CacheRow(p, "ff_hidden", l), w.drop)

LEMMA FfnOutStage ==
  ASSUME NEW n, NEW p, PassOf(n, p), NEW l \in 1..n.layers, NEW g \in Grads(n), NEW w, IsScratch(w),
         PaddedZero(p, w.drop), NEW v, NEW h, FfnOutWrites(p, l, w, g, v, h)
  PROVE  /\ Carried(n, p, l, "ffn_out", w, g, l, "ffn_act", v, h)
         /\ PaddedZero(p, v.hidden) /\ v.s2 = w.s2
<1> DEFINE b == v.hidden
           f == w.drop
           input == CacheRow(p, "ff_hidden", l)
<1>1. IsPass(p) /\ l \in 1..p.net.layers
  BY PassOfIs
<1>2. DOMAIN w = BufferNames /\ IsBuffer(w.hidden) /\ IsBuffer(f) /\ IsBuffer(w.s2)
  BY ScratchIs
<1>3. /\ DOMAIN v = BufferNames /\ v.s2 = w.s2
      /\ \A name \in BufferNames \ {"hidden"} : v[name] = w[name]
  BY <1>2 DEF BufferNames, FfnOutWrites
<1>4. b = Written(p, w.hidden, Back(p, "W_ff2", l, f))
  BY <1>2 DEF BufferNames, FfnOutWrites
<1>5. PaddedZero(p, f) /\ h = LinearGrads(p, g, l, "b_ff2", "W_ff2", input, f)
  BY DEF FfnOutWrites
<1>6. IsRow(p, input) /\ \A i \in RowsOf(p) : input[i] = Cached(p, "ff_hidden", l, i)
  BY <1>1, HolderNames, CacheRowIs
<1>7. IsRow(p, f) /\ IsRow(p, w.s2)
  BY <1>1, <1>2, BufferIsRow
<1> HIDE DEF b, f, input
<1>8. IsBuffer(b) /\ IsRow(p, b) /\ BackRow(p, "W_ff2", l, f, b) /\ PaddedZero(p, b)
  BY <1>1, <1>2, <1>4, <1>5, <1>7, HolderNames, BackIs
<1>9. IsScratch(v)
  BY <1>3, <1>8 DEF IsScratch, BufferNames, b
<1>10. h \in Grads(n)
  BY <1>5, <1>6, <1>7, <1>8, HolderNames, LinearMoves
<1>11. ASSUME NEW param \in Params(n)
       PROVE  Moved(g[param], h[param], Owed(p, l, "ffn_out", w, param), Owed(p, l, "ffn_act", v, param))
  <2> DEFINE x == HiddenTangents(p, param)[l - 1]
             a == ActivationRows(p, param, l, x)
             y == FfnRows(p, param, l, x)
             m == MiddleRows(p, param, l, x)
             r == Dot(p, w.s2, m)
  <2>1. IsRow(p, x)
    BY PlaceIs
  <2>2. IsRow(p, a) /\ IsRow(p, m)
    <3> HIDE DEF x
    <3> QED BY <1>1, <2>1, LayerRows
  <2>3. Owed(p, l, "ffn_out", w, param) = Dot(p, f, y) + r
    BY DEF Owed, LayerOwed, FfnOwed, FfnPhases, f
  <2>4. Owed(p, l, "ffn_act", v, param) = Dot(p, b, a) + r
    BY <1>3 DEF Owed, LayerOwed, FfnOwed, FfnPhases, b
  <2>5. y = FfnOutTangent(p, param, l, a)
    BY DEF FfnRows
  <2> HIDE DEF x, a, y, m
  <2>6. LinearRow(p, param, "W_ff2", l, Along(param, "b_ff2", l), a, input, y)
    BY <1>1, <1>6, <2>2, <2>5, FfnOutTangentIs DEF LinearRow
  <2>7. IsRow(p, y) /\ Moved(g[param], h[param], Dot(p, f, y), Dot(p, b, a))
    BY <1>5, <1>6, <1>7, <1>8, <2>2, <2>6, HolderNames, LinearMoves
  <2>8. g[param] \in Int /\ h[param] \in Int
    BY <1>10, GradsInt
  <2>9. Dot(p, f, y) \in Int /\ Dot(p, b, a) \in Int /\ r \in Int
    BY <1>1, <1>7, <1>8, <2>2, <2>7, DotIs
  <2> HIDE DEF r
  <2>10. Moved(g[param], h[param], Dot(p, f, y) + r, Dot(p, b, a) + r)
    BY <2>7, <2>8, <2>9, MovedIs
  <2> QED BY <2>3, <2>4, <2>10
<1> QED BY <1>3, <1>8, <1>9, <1>10, <1>11 DEF Carried, b

FfnActivationWrites(p, l, w, v) ==
  v = [w EXCEPT !.hidden = Copied(p, w.hidden, ActBack(p, l, w.hidden)),
                !.gate = IF Uses(p, "SWIGLU")
                         THEN Copied(p, w.gate, GateBack(p, l, w.hidden)) ELSE w.gate]

LEMMA FfnActivationStage ==
  ASSUME NEW n, NEW p, PassOf(n, p), NEW l \in 1..n.layers, NEW g \in Grads(n), NEW w, IsScratch(w),
         PaddedZero(p, w.hidden), NEW v, FfnActivationWrites(p, l, w, v)
  PROVE  /\ Carried(n, p, l, "ffn_act", w, g, l, "ffn_in", v, g)
         /\ PaddedZero(p, v.hidden) /\ v.s2 = w.s2
         /\ Uses(p, "SWIGLU") => PaddedZero(p, v.gate)
<1> DEFINE b == v.hidden
           f == w.hidden
           c == v.gate
           e == ActBack(p, l, f)
           d == GateBack(p, l, f)
<1>1. IsPass(p) /\ l \in 1..p.net.layers
  BY PassOfIs
<1>2. DOMAIN w = BufferNames /\ IsBuffer(f) /\ IsBuffer(w.gate) /\ IsBuffer(w.s2)
  BY ScratchIs
<1>3. /\ DOMAIN v = BufferNames /\ v.s2 = w.s2
      /\ \A name \in BufferNames \ {"hidden", "gate"} : v[name] = w[name]
  BY <1>2 DEF BufferNames, FfnActivationWrites
<1>4. b = Copied(p, f, e)
  BY <1>2 DEF BufferNames, FfnActivationWrites
<1>5. c = IF Uses(p, "SWIGLU") THEN Copied(p, w.gate, d) ELSE w.gate
  BY <1>2 DEF BufferNames, FfnActivationWrites
<1>6. PaddedZero(p, f)
  OBVIOUS
<1>7. IsRow(p, f) /\ IsRow(p, w.s2) /\ IsRow(p, w.gate)
  BY <1>1, <1>2, BufferIsRow
<1>8. \A i \in RowsOf(p) : e[i] = f[i] * SlopeByInput(p, l, i) /\ d[i] = f[i] * SlopeByGate(p, l, i)
  BY DEF ActBack, GateBack
<1> HIDE DEF b, f, c, e, d
<1>9. ASSUME NEW i \in RowsOf(p)
      PROVE  /\ e[i] \in Int /\ d[i] \in Int
             /\ f[i] = 0 => e[i] = 0 /\ d[i] = 0
  <2>1. f[i] \in Int /\ SlopeByInput(p, l, i) \in Int /\ SlopeByGate(p, l, i) \in Int
    BY <1>1, <1>7, LayerNumbers DEF IsRow
  <2> QED BY <1>8, <2>1
<1>10. IsRow(p, e) /\ IsRow(p, d) /\ PaddedZero(p, e) /\ PaddedZero(p, d)
  BY <1>6, <1>9 DEF IsRow, PaddedZero
<1>11. /\ IsBuffer(b) /\ IsRow(p, b) /\ PaddedZero(p, b)
       /\ \A i \in RowsOf(p) : Reduced(b[i]) = Reduced(e[i])
  BY <1>1, <1>2, <1>4, <1>10, CopiedIs
<1>12. /\ IsBuffer(c) /\ IsRow(p, c)
       /\ Uses(p, "SWIGLU") => /\ PaddedZero(p, c)
                               /\ \A i \in RowsOf(p) : Reduced(c[i]) = Reduced(d[i])
  BY <1>1, <1>2, <1>5, <1>7, <1>10, CopiedIs
<1>13. ActRows(p, l, f, b, c)
  BY <1>8, <1>11, <1>12 DEF ActRows
<1>14. IsScratch(v)
  BY <1>3, <1>11, <1>12 DEF IsScratch, BufferNames, b, c
<1>15. ASSUME NEW param \in Params(n)
       PROVE  Moved(g[param], g[param], Owed(p, l, "ffn_act", w, param), Owed(p, l, "ffn_in", v, param))
  <2> DEFINE x == HiddenTangents(p, param)[l - 1]
             up == UpRows(p, param, l, x)
             side == SideRows(p, param, l, x)
             a == ActivationRows(p, param, l, x)
             m == MiddleRows(p, param, l, x)
             r == Dot(p, w.s2, m)
             before == Dot(p, f, a)
             after == Dot(p, b, up) + (IF Uses(p, "SWIGLU") THEN Dot(p, c, side) ELSE 0)
  <2>1. IsRow(p, x)
    BY PlaceIs
  <2>2. IsRow(p, up) /\ IsRow(p, side) /\ IsRow(p, a) /\ IsRow(p, m)
    <3> HIDE DEF x
    <3> QED BY <1>1, <2>1, LayerRows
  <2>3. Owed(p, l, "ffn_act", w, param) = before + r
    BY DEF Owed, LayerOwed, FfnOwed, FfnPhases, f
  <2>4. Owed(p, l, "ffn_in", v, param) = after + r
    BY <1>3 DEF Owed, LayerOwed, FfnOwed, FfnPhases, b, c
  <2>5. a = ActTangent(p, l, up, side)
    BY DEF ActivationRows
  <2> HIDE DEF x, a, up, side, m
  <2>6. Reduced(before) = Reduced(after)
    BY <1>1, <1>7, <1>11, <1>12, <1>13, <2>2, <2>5, ActDot
  <2>7. g[param] \in Int
    BY GradsInt
  <2>8. before \in Int
    BY <1>1, <1>7, <2>2, DotIs
  <2>9. Dot(p, b, up) \in Int /\ Dot(p, c, side) \in Int /\ r \in Int
    BY <1>1, <1>7, <1>11, <1>12, <2>2, DotIs
  <2>10. after \in Int
    BY <2>9
  <2> HIDE DEF r, before, after
  <2>11. Moved(g[param], g[param], before, after)
    BY <2>6, <2>7, <2>8, <2>10, MovedSame
  <2>12. Moved(g[param], g[param], before + r, after + r)
    BY <2>7, <2>8, <2>9, <2>10, <2>11, MovedIs
  <2> QED BY <2>3, <2>4, <2>12
<1> QED BY <1>3, <1>11, <1>12, <1>14, <1>15 DEF Carried, b, c

LEMMA MovedTwice ==
  ASSUME NEW g \in Int, NEW f \in Int, NEW h \in Int, NEW a \in Int, NEW b \in Int, NEW c \in Int,
         NEW d \in Int, Moved(g, f, a, b), Moved(f, h, c, d)
  PROVE  Moved(g, h, a + c, b + d)
<1> DEFINE u == a + c
           v == b + c
           x == b + d
<1>1. u \in Int
  OBVIOUS
<1>2. v \in Int
  OBVIOUS
<1>3. x \in Int
  OBVIOUS
<1>4. Moved(g, f, a + c, b + c)
  BY MovedIs
<1>5. Moved(f, h, c + b, d + b)
  BY MovedIs
<1>6. c + b = v /\ d + b = x
  OBVIOUS
<1>7. Moved(g, f, u, v)
  BY <1>4
<1> HIDE DEF u, v, x
<1>8. Moved(f, h, v, x)
  BY <1>5, <1>6
<1>9. Moved(g, h, u, x)
  BY <1>1, <1>2, <1>3, <1>7, <1>8, MovedIs
<1> QED BY <1>9 DEF u, x

(* The gradient of one parameter moved, and what it leaves the same.       *)
LEMMA MovedThen ==
  ASSUME NEW g \in Int, NEW h \in Int, NEW before \in Int, NEW after \in Int, NEW last \in Int,
         Moved(g, h, before, after), Reduced(after) = Reduced(last)
  PROVE  Moved(g, h, before, last)
<1>1. Moved(h, h, after, last)
  BY MovedSame
<1> QED BY <1>1, MovedIs

LEMMA BackOf ==
  ASSUME NEW p, IsPass(p), NEW l \in 1..p.net.layers, NEW name \in Holders, NEW f, IsRow(p, f)
  PROVE  /\ IsRow(p, Back(p, name, l, f)) /\ BackRow(p, name, l, f, Back(p, name, l, f))
         /\ \A i \in RowsOf(p) : Back(p, name, l, f)[i] = f[i] * Weight(p, name, l)
         /\ PaddedZero(p, f) => PaddedZero(p, Back(p, name, l, f))
<1> DEFINE e == Back(p, name, l, f)
<1>1. ASSUME NEW i \in RowsOf(p)
      PROVE  /\ e[i] \in Int /\ e[i] = f[i] * Weight(p, name, l)
             /\ f[i] = 0 => e[i] = 0
  <2>1. f[i] \in Int /\ Weight(p, name, l) \in Int
    BY LayerNumbers DEF IsRow
  <2>2. e[i] = f[i] * Weight(p, name, l)
    BY DEF Back
  <2> HIDE DEF e
  <2> QED BY <2>1, <2>2
<1> HIDE DEF e
<1>2. IsRow(p, e) /\ BackRow(p, name, l, f, e) /\ (PaddedZero(p, f) => PaddedZero(p, e))
  BY <1>1 DEF IsRow, BackRow, PaddedZero
<1> QED BY <1>1, <1>2 DEF e

(* What the gate hands back to the rows below, nothing without a gate.     *)
GateRow(p, l, gate) == IF Uses(p, "SWIGLU") THEN Back(p, "W_ff_gate", l, gate) ELSE Zeros

LEMMA GateRowIs ==
  ASSUME NEW p, IsPass(p), NEW l \in 1..p.net.layers, NEW hidden, NEW gate, NEW s2,
         IsRow(p, hidden), IsRow(p, gate), IsRow(p, s2),
         NEW b, IsBuffer(b), NEW v, v = Written(p, b, FfnInput(p, l, hidden, gate, s2))
  PROVE  /\ IsRow(p, GateRow(p, l, gate))
         /\ IsBuffer(v) /\ IsRow(p, v)
         /\ RowOfFour(p, v, Back(p, "W_ff1", l, hidden), GateRow(p, l, gate), s2, Zeros)
         /\ PaddedZero(p, hidden) /\ PaddedZero(p, s2) /\ (Uses(p, "SWIGLU") => PaddedZero(p, gate))
              => PaddedZero(p, v)
<1> DEFINE e == FfnInput(p, l, hidden, gate, s2)
           c == Back(p, "W_ff1", l, hidden)
           d == GateRow(p, l, gate)
<1>1. /\ IsRow(p, c) /\ \A i \in RowsOf(p) : c[i] = hidden[i] * Weight(p, "W_ff1", l)
      /\ PaddedZero(p, hidden) => PaddedZero(p, c)
  BY HolderNames, BackOf
<1>2. /\ IsRow(p, d)
      /\ \A i \in RowsOf(p) :
           d[i] = IF Uses(p, "SWIGLU") THEN gate[i] * Weight(p, "W_ff_gate", l) ELSE 0
      /\ (Uses(p, "SWIGLU") => PaddedZero(p, gate)) => PaddedZero(p, d)
  <2>1. CASE Uses(p, "SWIGLU")
    BY <2>1, HolderNames, BackOf DEF GateRow
  <2>2. CASE ~Uses(p, "SWIGLU")
    <3>1. d = Zeros
      BY <2>2 DEF GateRow
    <3> HIDE DEF d
    <3> QED BY <2>2, <3>1, RowConstants DEF PaddedZero
  <2> QED BY <2>1, <2>2
<1>3. ASSUME NEW i \in RowsOf(p)
      PROVE  e[i] = hidden[i] * Weight(p, "W_ff1", l)
                      + (IF Uses(p, "SWIGLU") THEN gate[i] * Weight(p, "W_ff_gate", l) ELSE 0) + s2[i]
  BY DEF FfnInput
<1>4. v = Written(p, b, e)
  OBVIOUS
<1> HIDE DEF c, d, e
<1>5. ASSUME NEW i \in RowsOf(p)
      PROVE  e[i] = c[i] + d[i] + s2[i]
  BY <1>1, <1>2, <1>3
<1>6. ASSUME NEW i \in RowsOf(p)
      PROVE  /\ e[i] \in Int /\ Zeros[i] = 0 /\ e[i] = c[i] + d[i] + s2[i] + Zeros[i]
             /\ c[i] = 0 /\ d[i] = 0 /\ s2[i] = 0 => e[i] = 0
  <2> DEFINE x == c[i]
             y == d[i]
             z == s2[i]
             s == e[i]
             o == Zeros[i]
  <2>1. x \in Int
    BY <1>1 DEF IsRow
  <2>2. y \in Int
    BY <1>2 DEF IsRow
  <2>3. z \in Int
    BY DEF IsRow
  <2>4. o = 0
    BY RowConstants
  <2>5. s = x + y + z
    BY <1>5
  <2> HIDE DEF x, y, z, s, o
  <2>6. s \in Int /\ o = 0 /\ s = x + y + z + o /\ (x = 0 /\ y = 0 /\ z = 0 => s = 0)
    BY <2>1, <2>2, <2>3, <2>4, <2>5
  <2> QED BY <2>5, <2>6 DEF x, y, z, s, o
<1>7. IsRow(p, e)
  BY <1>6 DEF IsRow
<1>8. /\ IsBuffer(v) /\ IsRow(p, v) /\ \A i \in RowsOf(p) : Reduced(v[i]) = Reduced(e[i])
      /\ PaddedZero(p, e) => PaddedZero(p, v)
  BY <1>4, <1>7, WrittenIs
<1>9. RowOfFour(p, v, c, d, s2, Zeros)
  BY <1>6, <1>8 DEF RowOfFour
<1>10. PaddedZero(p, c) /\ PaddedZero(p, d) /\ PaddedZero(p, s2) => PaddedZero(p, e)
  BY <1>6 DEF PaddedZero
<1> QED BY <1>1, <1>2, <1>8, <1>9, <1>10 DEF c, d

LEMMA FfnInStage ==
  ASSUME NEW n, NEW p, PassOf(n, p), NEW l \in 1..n.layers, NEW g \in Grads(n), NEW w, IsScratch(w),
         PaddedZero(p, w.hidden), PaddedZero(p, w.s2), Uses(p, "SWIGLU") => PaddedZero(p, w.gate),
         NEW v, v = [w EXCEPT !.x1 = Written(p, w.x1, FfnInput(p, l, w.hidden, w.gate, w.s2))],
         NEW input, input = RealRow(p, "x1", l),
         NEW first, first = LinearGrads(p, g, l, "b_ff1", "W_ff1", input, w.hidden),
         NEW h, h = IF Uses(p, "SWIGLU")
                    THEN LinearGrads(p, first, l, "b_ff_gate", "W_ff_gate", input, w.gate)
                    ELSE first
  PROVE  /\ Carried(n, p, l, "ffn_in", w, g, l, "attn_norm", v, h)
         /\ PaddedZero(p, v.x1)
<1> DEFINE f == w.hidden
           e == w.gate
           s == w.s2
           y == v.x1
           b1 == Back(p, "W_ff1", l, f)
           b2 == GateRow(p, l, e)
<1>1. IsPass(p) /\ l \in 1..p.net.layers
  BY PassOfIs
<1>2. DOMAIN w = BufferNames /\ IsBuffer(f) /\ IsBuffer(e) /\ IsBuffer(s) /\ IsBuffer(w.x1)
  BY ScratchIs
<1>3. /\ DOMAIN v = BufferNames
      /\ \A name \in BufferNames \ {"x1"} : v[name] = w[name]
  BY <1>2 DEF BufferNames
<1>4. y = Written(p, w.x1, FfnInput(p, l, f, e, s))
  BY <1>2 DEF BufferNames
<1>5. /\ PaddedZero(p, f) /\ PaddedZero(p, s) /\ (Uses(p, "SWIGLU") => PaddedZero(p, e))
      /\ first = LinearGrads(p, g, l, "b_ff1", "W_ff1", input, f)
      /\ h = IF Uses(p, "SWIGLU") THEN LinearGrads(p, first, l, "b_ff_gate", "W_ff_gate", input, e)
             ELSE first
  OBVIOUS
<1>6. IsRow(p, input) /\ \A i \in RowsOf(p) : input[i] = CachedOrZero(p, "x1", l, i)
  BY <1>1, HolderNames, CacheRowIs
<1>7. IsRow(p, f) /\ IsRow(p, e) /\ IsRow(p, s)
  BY <1>1, <1>2, BufferIsRow
<1> HIDE DEF f, e, s, y, b2
<1>8. IsRow(p, b1) /\ BackRow(p, "W_ff1", l, f, b1)
  BY <1>1, <1>7, HolderNames, BackOf
<1>9. /\ IsRow(p, b2) /\ IsBuffer(y) /\ IsRow(p, y) /\ RowOfFour(p, y, b1, b2, s, Zeros)
      /\ PaddedZero(p, y)
  BY <1>1, <1>2, <1>4, <1>5, <1>7, GateRowIs DEF b2
<1> HIDE DEF b1
<1>10. Uses(p, "SWIGLU") => BackRow(p, "W_ff_gate", l, e, b2)
  <2>1. BackRow(p, "W_ff_gate", l, e, Back(p, "W_ff_gate", l, e))
    BY <1>1, <1>7, HolderNames, BackOf
  <2> QED BY <2>1 DEF b2, GateRow
<1>11. IsScratch(v)
  BY <1>3, <1>9 DEF IsScratch, BufferNames, y
<1>12. first \in Grads(n)
  BY <1>5, <1>6, <1>7, <1>8, HolderNames, LinearMoves
<1>13. h \in Grads(n)
  <2>1. CASE Uses(p, "SWIGLU")
    <3>1. h = LinearGrads(p, first, l, "b_ff_gate", "W_ff_gate", input, e)
      BY <1>5, <2>1
    <3> QED BY <1>6, <1>7, <1>9, <1>10, <1>12, <2>1, <3>1, HolderNames, LinearMoves
  <2>2. CASE ~Uses(p, "SWIGLU")
    BY <1>5, <1>12, <2>2
  <2> QED BY <2>1, <2>2
<1>14. ASSUME NEW param \in Params(n)
       PROVE  Moved(g[param], h[param], Owed(p, l, "ffn_in", w, param), Owed(p, l, "attn_norm", v, param))
  <2> DEFINE x == HiddenTangents(p, param)[l - 1]
             up == UpRows(p, param, l, x)
             side == SideRows(p, param, l, x)
             m == MiddleRows(p, param, l, x)
             r == Dot(p, s, m)
             a1 == Dot(p, f, up)
             c1 == Dot(p, b1, m)
             a2 == IF Uses(p, "SWIGLU") THEN Dot(p, e, side) ELSE 0
             c2 == Dot(p, b2, m)
             last == Dot(p, y, m)
  <2>1. IsRow(p, x)
    BY PlaceIs
  <2>2. IsRow(p, up) /\ IsRow(p, side) /\ IsRow(p, m)
    <3> HIDE DEF x
    <3> QED BY <1>1, <2>1, LayerRows
  <2>3. Owed(p, l, "ffn_in", w, param) = (a1 + a2) + r
    BY DEF Owed, LayerOwed, FfnOwed, FfnPhases, f, e, s
  <2>4. Owed(p, l, "attn_norm", v, param) = last
    BY DEF Owed, LayerOwed, FfnPhases, y
  <2>5. /\ up = InputTangent(p, param, l, "W_ff1", "b_ff1", m)
        /\ side = InputTangent(p, param, l, "W_ff_gate", "b_ff_gate", m)
    BY DEF UpRows, SideRows
  <2> HIDE DEF x, up, side, m
  <2>6. LinearRow(p, param, "W_ff1", l, Along(param, "b_ff1", l), m, input, up)
    BY <1>1, <1>6, <2>2, <2>5, HolderNames, InputTangentIs DEF LinearRow
  <2>7. LinearRow(p, param, "W_ff_gate", l, Along(param, "b_ff_gate", l), m, input, side)
    BY <1>1, <1>6, <2>2, <2>5, HolderNames, InputTangentIs DEF LinearRow
  <2>8. Moved(g[param], first[param], a1, c1)
    BY <1>5, <1>6, <1>7, <1>8, <2>2, <2>6, HolderNames, LinearMoves
  <2>9. g[param] \in Int /\ h[param] \in Int /\ first[param] \in Int
    BY <1>12, <1>13, GradsInt
  <2>10. /\ a1 \in Int /\ c1 \in Int /\ Dot(p, e, side) \in Int /\ c2 \in Int /\ r \in Int /\ last \in Int
    BY <1>1, <1>7, <1>8, <1>9, <2>2, DotIs
  <2>11. a2 \in Int
    BY <2>10
  <2>12. Moved(first[param], h[param], a2, c2)
    <3>1. CASE Uses(p, "SWIGLU")
      <4>1. h = LinearGrads(p, first, l, "b_ff_gate", "W_ff_gate", input, e)
        BY <1>5, <3>1
      <4>2. Moved(first[param], h[param], Dot(p, e, side), Dot(p, b2, m))
        BY <1>6, <1>7, <1>9, <1>10, <1>12, <2>2, <2>7, <3>1, <4>1, HolderNames, LinearMoves
      <4> QED BY <3>1, <4>2
    <3>2. CASE ~Uses(p, "SWIGLU")
      <4>1. h = first /\ a2 = 0
        BY <1>5, <3>2
      <4>2. c2 = 0
        BY <1>1, <2>2, <3>2, RowConstants DEF b2, GateRow
      <4> HIDE DEF a2, c2
      <4> QED BY <2>9, <2>10, <2>11, <4>1, <4>2, MovedSame
    <3> QED BY <3>1, <3>2
  <2>13. Reduced(last) = Reduced(c1 + c2 + r + Dot(p, Zeros, m))
    BY <1>1, <1>7, <1>8, <1>9, <2>2, RowConstants, DotOfRows
  <2>14. Dot(p, Zeros, m) = 0
    BY <1>1, <2>2, RowConstants
  <2> HIDE DEF a1, a2, c1, c2, r, last
  <2>15. c1 + c2 + r + Dot(p, Zeros, m) = (c1 + c2) + r
    BY <2>10, <2>14
  <2>16. Moved(g[param], h[param], a1 + a2, c1 + c2)
    BY <2>8, <2>9, <2>10, <2>11, <2>12, MovedTwice
  <2> DEFINE a == a1 + a2
             c == c1 + c2
  <2>17. a \in Int
    BY <2>10, <2>11
  <2>18. c \in Int
    BY <2>10
  <2>19. Moved(g[param], h[param], a, c)
    BY <2>16
  <2>20. Reduced(last) = Reduced(c + r)
    BY <2>13, <2>15
  <2>21. Owed(p, l, "ffn_in", w, param) = a + r
    BY <2>3
  <2> HIDE DEF a, c
  <2>22. Moved(g[param], h[param], a + r, c + r)
    BY <2>9, <2>10, <2>17, <2>18, <2>19, MovedIs
  <2>23. a + r \in Int /\ c + r \in Int
    BY <2>10, <2>17, <2>18
  <2>24. Moved(g[param], h[param], a + r, last)
    BY <2>9, <2>10, <2>20, <2>22, <2>23, MovedThen
  <2> QED BY <2>4, <2>21, <2>24
<1> QED BY <1>9, <1>11, <1>13, <1>14 DEF Carried, y

LEMMA AttnNormStage ==
  ASSUME NEW n, NEW p, PassOf(n, p), NEW l \in 1..n.layers, NEW g \in Grads(n), NEW w, IsScratch(w),
         PaddedZero(p, w.x1), NEW s, s = NormInput(p, l, AttnNames, w.x1),
         NEW v, v = [w EXCEPT !.out = Copied(p, w.out, s),
                              !.drop = Copied(p, w.drop, Dropped(p, l, "mask_attn", s))]
  PROVE  Carried(n, p, l, "attn_norm", w, g, l, "attn_out", v, NormGrads(p, g, l, AttnNames, w.x1))
<1> DEFINE in == w.x1
           h == NormGrads(p, g, l, AttnNames, in)
           outs == v.out
           drop == v.drop
<1>1. IsPass(p) /\ l \in 1..p.net.layers
  BY PassOfIs
<1>2. DOMAIN w = BufferNames /\ IsBuffer(in) /\ IsBuffer(w.out) /\ IsBuffer(w.drop)
  BY ScratchIs
<1>3. /\ DOMAIN v = BufferNames
      /\ \A name \in BufferNames \ {"out", "drop"} : v[name] = w[name]
  BY <1>2 DEF BufferNames
<1>4. outs = Copied(p, w.out, s)
  BY <1>2 DEF BufferNames
<1>5. drop = Copied(p, w.drop, Dropped(p, l, "mask_attn", s))
  BY <1>2 DEF BufferNames
<1>6. PaddedZero(p, in) /\ s = NormInput(p, l, AttnNames, in)
  OBVIOUS
<1> HIDE DEF in, outs, drop, h
<1>7. IsRow(p, in)
  BY <1>1, <1>2, BufferIsRow
<1>8. IsBuffer(outs) /\ IsRow(p, outs) /\ IsBuffer(drop) /\ IsRow(p, drop)
      /\ NormBack(p, l, AttnNames, "mask_attn", in, outs, drop)
  BY <1>1, <1>2, <1>4, <1>5, <1>6, <1>7, NormNames, NormStage
<1>9. IsScratch(v)
  BY <1>3, <1>8, ScratchIs DEF IsScratch, BufferNames, outs, drop
<1>10. h \in Grads(n)
  BY <1>7, <1>8, NormNames, NormMoves DEF h
<1>11. ASSUME NEW param \in Params(n)
       PROVE  Moved(g[param], h[param], Owed(p, l, "attn_norm", w, param), Owed(p, l, "attn_out", v, param))
  <2> DEFINE x == HiddenTangents(p, param)[l - 1]
             o == OutRows(p, param, l, x)
             m == MiddleRows(p, param, l, x)
  <2>1. IsRow(p, x)
    BY PlaceIs
  <2>2. IsRow(p, o) /\ IsRow(p, m) /\ m = NormTangent(p, param, l, AttnNames, "mask_attn", o, x)
    <3> HIDE DEF x
    <3> QED BY <1>1, <2>1, LayerRows
  <2>3. Owed(p, l, "attn_norm", w, param) = Dot(p, in, m)
    BY DEF Owed, LayerOwed, FfnPhases, in
  <2>4. Owed(p, l, "attn_out", v, param) = Dot(p, drop, o) + Dot(p, outs, x)
    BY DEF Owed, LayerOwed, AttnOwed, FfnPhases, drop, outs
  <2> HIDE DEF x, o, m
  <2>5. Moved(g[param], h[param], Dot(p, in, NormTangent(p, param, l, AttnNames, "mask_attn", o, x)),
              Dot(p, drop, o) + Dot(p, outs, x))
    BY <1>7, <1>8, <2>1, <2>2, NormNames, NormMoves DEF h
  <2> QED BY <2>2, <2>3, <2>4, <2>5
<1> QED BY <1>9, <1>10, <1>11 DEF Carried, h, in

LEMMA ConcatRowIs ==
  ASSUME NEW p, IsPass(p), NEW l \in 1..p.net.layers
  PROVE  IsRow(p, [i \in RowsOf(p) |-> Concat(p, l, i)])
BY LayerNumbers DEF IsRow

LEMMA AttnOutStage ==
  ASSUME NEW n, NEW p, PassOf(n, p), NEW l \in 1..n.layers, NEW g \in Grads(n), NEW w, IsScratch(w),
         NEW v, v = [w EXCEPT !.concat = Written(p, w.concat, Back(p, "W_o", l, w.drop))],
         NEW h, h = Plus(g, <<"W_o", l>>, Dot(p, [i \in RowsOf(p) |-> Concat(p, l, i)], w.drop))
  PROVE  Carried(n, p, l, "attn_out", w, g, l, "attn_probs", v, h)
<1> DEFINE f == w.drop
           b == v.concat
           outs == w.out
           input == [i \in RowsOf(p) |-> Concat(p, l, i)]
<1>1. IsPass(p) /\ l \in 1..p.net.layers
  BY PassOfIs
<1>2. DOMAIN w = BufferNames /\ IsBuffer(f) /\ IsBuffer(outs) /\ IsBuffer(w.concat)
  BY ScratchIs
<1>3. /\ DOMAIN v = BufferNames /\ v.out = outs
      /\ \A name \in BufferNames \ {"concat"} : v[name] = w[name]
  BY <1>2 DEF BufferNames
<1>4. b = Written(p, w.concat, Back(p, "W_o", l, f))
  BY <1>2 DEF BufferNames
<1>5. h = Plus(g, <<"W_o", l>>, Dot(p, input, f))
  OBVIOUS
<1>6. IsRow(p, input)
  BY <1>1, ConcatRowIs
<1>61. \A i \in RowsOf(p) : input[i] = Concat(p, l, i)
  OBVIOUS
<1>7. IsRow(p, f) /\ IsRow(p, outs)
  BY <1>1, <1>2, BufferIsRow
<1> HIDE DEF f, b, outs, input
<1>8. IsBuffer(b) /\ IsRow(p, b) /\ BackRow(p, "W_o", l, f, b)
  BY <1>1, <1>2, <1>4, <1>7, HolderNames, BackIs
<1>9. IsScratch(v)
  BY <1>3, <1>8, ScratchIs DEF IsScratch, BufferNames, b
<1>10. h \in Grads(n)
  BY <1>5, <1>6, <1>7, <1>8, HolderNames, WeightMoves
<1>11. ASSUME NEW param \in Params(n)
       PROVE  Moved(g[param], h[param], Owed(p, l, "attn_out", w, param), Owed(p, l, "attn_probs", v, param))
  <2> DEFINE x == HiddenTangents(p, param)[l - 1]
             c == ContextRows(p, param, l, x)
             y == OutRows(p, param, l, x)
             r == Dot(p, outs, x)
             before == Dot(p, f, y)
             after == Dot(p, b, c)
  <2>1. IsRow(p, x)
    BY PlaceIs
  <2>2. IsRow(p, c) /\ IsRow(p, y)
    <3> HIDE DEF x
    <3> QED BY <1>1, <2>1, LayerRows
  <2>3. Owed(p, l, "attn_out", w, param) = before + r
    BY DEF Owed, LayerOwed, AttnOwed, FfnPhases, f, outs
  <2>4. Owed(p, l, "attn_probs", v, param) = after + r
    BY <1>3 DEF Owed, LayerOwed, AttnOwed, FfnPhases, b
  <2>5. y = AttnOutTangent(p, param, l, c)
    BY DEF OutRows
  <2> HIDE DEF x, c, y
  <2>6. LinearRow(p, param, "W_o", l, 0, c, input, y)
    <3>1. ASSUME NEW i \in RowsOf(p)
          PROVE  y[i] = Linear(p, param, "W_o", l, c[i], input[i]) + 0
      <4>1. y[i] = Linear(p, param, "W_o", l, c[i], input[i])
        BY <1>1, <1>61, <2>2, <2>5, AttnOutTangentIs
      <4>2. y[i] \in Int
        BY <2>2 DEF IsRow
      <4> QED BY <4>1, <4>2
    <3> QED BY <3>1 DEF LinearRow
  <2>7. Moved(g[param], h[param], before, after)
    BY <1>5, <1>6, <1>7, <1>8, <2>2, <2>6, HolderNames, WeightMoves
  <2>8. g[param] \in Int /\ h[param] \in Int
    BY <1>10, GradsInt
  <2>9. before \in Int /\ after \in Int /\ r \in Int
    BY <1>1, <1>7, <1>8, <2>1, <2>2, DotIs
  <2> HIDE DEF r, before, after
  <2>10. Moved(g[param], h[param], before + r, after + r)
    BY <2>7, <2>8, <2>9, MovedIs
  <2> QED BY <2>3, <2>4, <2>10
<1> QED BY <1>9, <1>10, <1>11 DEF Carried

LEMMA ScoresInt ==
  ASSUME NEW p, IsPass(p), NEW b, NEW s, IsSquare(p, b), IsSquare(p, s)
  PROVE  Scores(p, b, s) \in Int
<1> DEFINE f == [i \in RowsOf(p) |-> Dot(p, b[i], s[i])]
<1>1. ASSUME NEW i \in RowsOf(p)
      PROVE  f[i] \in Int
  <2>1. IsRow(p, b[i]) /\ IsRow(p, s[i])
    BY DEF IsSquare, IsRow
  <2>2. Dot(p, b[i], s[i]) \in Int
    BY <2>1, DotIs
  <2> QED BY <2>2
<1>2. IsRow(p, f)
  BY <1>1 DEF IsRow
<1>3. RowSum(p, f) \in Int
  BY <1>2, RowSumIs
<1> QED BY <1>3 DEF Scores

AttnProbsWrites(p, l, w, v) ==
  v = [w EXCEPT !.v = Written(p, w.v, ValueBack(p, l, w.concat)),
                !.scores = [i \in RowsOf(p) |-> [j \in RowsOf(p) |-> ScoreBack(p, l, w.concat, i, j)]]]

LEMMA AttnProbsStage ==
  ASSUME NEW n, NEW p, PassOf(n, p), NEW l \in 1..n.layers, NEW g \in Grads(n), NEW w, IsScratch(w),
         NEW v, AttnProbsWrites(p, l, w, v)
  PROVE  /\ Carried(n, p, l, "attn_probs", w, g, l, "attn_heads", v, g)
         /\ IsSquare(p, v.scores)
<1> DEFINE c == w.concat
           b == v.scores
           d == v.v
           e == ValueBack(p, l, c)
           outs == w.out
<1>1. IsPass(p) /\ l \in 1..p.net.layers
  BY PassOfIs
<1>2. DOMAIN w = BufferNames /\ IsBuffer(c) /\ IsBuffer(outs) /\ IsBuffer(w.v)
  BY ScratchIs
<1>3. /\ DOMAIN v = BufferNames /\ v.out = outs
      /\ \A name \in BufferNames \ {"v", "scores"} : v[name] = w[name]
  BY <1>2 DEF BufferNames, AttnProbsWrites
<1>4. d = Written(p, w.v, e)
  BY <1>2 DEF BufferNames, AttnProbsWrites
<1>5. b = [i \in RowsOf(p) |-> [j \in RowsOf(p) |-> ScoreBack(p, l, c, i, j)]]
  BY <1>2 DEF BufferNames, AttnProbsWrites
<1>6. IsRow(p, c) /\ IsRow(p, outs)
  BY <1>1, <1>2, BufferIsRow
<1> HIDE DEF c, b, d, outs
<1>7. BackSquare(p, l, c, b)
  BY <1>5 DEF BackSquare
<1>8. IsSquare(p, b) /\ IsRow(p, e)
  <2>1. IsRow(p, Zeros) /\ IsSquare(p, [i \in RowsOf(p) |-> Zeros])
    BY <1>1, RowConstants DEF IsSquare, IsRow
  <2> QED BY <1>1, <1>6, <1>7, <2>1, ProbsDot
<1>9. IsBuffer(d) /\ IsRow(p, d) /\ SameRow(p, d, e)
  <2> HIDE DEF e
  <2> QED BY <1>1, <1>2, <1>4, <1>8, WrittenIs DEF SameRow
<1>10. IsScratch(v)
  BY <1>3, <1>9, ScratchIs DEF IsScratch, BufferNames, d
<1>11. ASSUME NEW param \in Params(n)
       PROVE  Moved(g[param], g[param], Owed(p, l, "attn_probs", w, param), Owed(p, l, "attn_heads", v, param))
  <2> DEFINE x == HiddenTangents(p, param)[l - 1]
             s == ScoreRows(p, param, l, x)
             u == ValueRows(p, param, l, x)
             y == ContextRows(p, param, l, x)
             r == Dot(p, outs, x)
             before == Dot(p, c, y)
             k == Scores(p, b, s)
             after == k + Dot(p, d, u)
  <2>1. IsRow(p, x)
    BY PlaceIs
  <2>2. IsSquare(p, s) /\ IsRow(p, u) /\ IsRow(p, y)
    <3> HIDE DEF x
    <3> QED BY <1>1, <2>1, LayerRows
  <2>3. Owed(p, l, "attn_probs", w, param) = before + r
    BY DEF Owed, LayerOwed, AttnOwed, FfnPhases, c, outs
  <2>4. Owed(p, l, "attn_heads", v, param) = after + r
    BY <1>3 DEF Owed, LayerOwed, AttnOwed, FfnPhases, b, d
  <2>5. y = ContextTangent(p, l, s, u)
    BY DEF ContextRows
  <2> HIDE DEF x, s, u, y
  <2>6. Reduced(before) = Reduced(k + Dot(p, e, u))
    BY <1>1, <1>6, <1>7, <2>2, <2>5, ProbsDot
  <2>7. Reduced(Dot(p, d, u)) = Reduced(Dot(p, e, u))
    <3> HIDE DEF e
    <3> QED BY <1>1, <1>8, <1>9, <2>2, DotOfSame
  <2>8. g[param] \in Int /\ before \in Int
    BY <1>1, <1>6, <2>2, DotIs, GradsInt
  <2>9. k \in Int
    BY <1>1, <1>8, <2>2, ScoresInt
  <2>10. Dot(p, d, u) \in Int /\ Dot(p, e, u) \in Int /\ r \in Int
    BY <1>1, <1>6, <1>8, <1>9, <2>1, <2>2, DotIs
  <2> DEFINE du == Dot(p, d, u)
             eu == Dot(p, e, u)
  <2>11. du \in Int
    BY <2>10
  <2>12. eu \in Int /\ Reduced(du) = Reduced(eu)
    BY <2>7, <2>10
  <2>13. Reduced(before) = Reduced(k + eu)
    BY <2>6
  <2>14. after = k + du
    OBVIOUS
  <2> HIDE DEF r, before, k, du, eu, after
  <2>15. Reduced(du + k) = Reduced(eu + k)
    BY <2>9, <2>11, <2>12, ReducedBeside
  <2>16. du + k = k + du /\ eu + k = k + eu /\ k + du \in Int
    BY <2>9, <2>11, <2>12
  <2>17. after \in Int /\ Reduced(before) = Reduced(after)
    BY <2>13, <2>14, <2>15, <2>16
  <2>18. Moved(g[param], g[param], before, after)
    BY <2>8, <2>17, MovedSame
  <2>19. Moved(g[param], g[param], before + r, after + r)
    BY <2>8, <2>10, <2>17, <2>18, MovedIs
  <2> QED BY <2>3, <2>4, <2>19
<1> QED BY <1>8, <1>10, <1>11 DEF Carried, b

LEMMA RotatedBackIs ==
  ASSUME NEW p, IsPass(p), NEW l \in 1..p.net.layers, NEW f, IsRow(p, f), NEW b, IsBuffer(b),
         NEW v, v = RotatedBack(p, Written(p, b, f))
  PROVE  IsBuffer(v) /\ IsRow(p, v) /\ RotatedRow(p, f, v)
<1> DEFINE u == Written(p, b, f)
           e == [i \in RowsOf(p) |-> u[i] * Rotation(p, i)]
<1>1. IsBuffer(u) /\ IsRow(p, u) /\ \A i \in RowsOf(p) : Reduced(u[i]) = Reduced(f[i])
  BY WrittenIs
<1>2. v = Copied(p, u, e)
  BY DEF RotatedBack
<1> HIDE DEF u
<1>3. ASSUME NEW i \in RowsOf(p)
      PROVE  e[i] \in Int /\ Reduced(e[i]) = Reduced(f[i] * Rotation(p, i))
  <2> DEFINE x == u[i]
             y == f[i]
             r == Rotation(p, i)
  <2>1. x \in Int
    BY <1>1 DEF IsRow
  <2>2. y \in Int
    BY DEF IsRow
  <2>3. r \in Int
    BY LayerNumbers
  <2>4. Reduced(x) = Reduced(y)
    BY <1>1
  <2>5. e[i] = x * r
    OBVIOUS
  <2> HIDE DEF e, x, y, r
  <2>6. Reduced(x * r) = Reduced(y * r)
    BY <2>1, <2>2, <2>3, <2>4, ReducedBeside
  <2>7. x * r \in Int
    BY <2>1, <2>3
  <2> QED BY <2>5, <2>6, <2>7 DEF y, r
<1> HIDE DEF e
<1>4. IsRow(p, e)
  BY <1>3 DEF IsRow
<1>5. /\ IsBuffer(v) /\ IsRow(p, v) /\ \A i \in RowsOf(p) : Reduced(v[i]) = Reduced(e[i])
  BY <1>1, <1>2, <1>4, CopiedIs
<1> QED BY <1>3, <1>5 DEF RotatedRow

LEMMA AttnHeadsStage ==
  ASSUME NEW n, NEW p, PassOf(n, p), NEW l \in 1..n.layers, NEW g \in Grads(n), NEW w, IsScratch(w),
         IsSquare(p, w.scores),
         NEW v, v = [w EXCEPT !.q = RotatedBack(p, Written(p, w.q, QueryBack(p, l, w.scores))),
                              !.k = RotatedBack(p, Written(p, w.k, KeyBack(p, l, w.scores)))]
  PROVE  Carried(n, p, l, "attn_heads", w, g, l, "attn_in", v, g)
<1> DEFINE b == w.scores
           q == v.q
           k == v.k
           d == w.v
           qb == QueryBack(p, l, b)
           kb == KeyBack(p, l, b)
           outs == w.out
<1>1. IsPass(p) /\ l \in 1..p.net.layers
  BY PassOfIs
<1>2. DOMAIN w = BufferNames /\ IsBuffer(w.q) /\ IsBuffer(w.k) /\ IsBuffer(outs) /\ IsBuffer(d)
  BY ScratchIs
<1>3. /\ DOMAIN v = BufferNames /\ v.out = outs /\ v.v = d
      /\ \A name \in BufferNames \ {"q", "k"} : v[name] = w[name]
  BY <1>2 DEF BufferNames
<1>4. q = RotatedBack(p, Written(p, w.q, qb))
  BY <1>2 DEF BufferNames
<1>5. k = RotatedBack(p, Written(p, w.k, kb))
  BY <1>2 DEF BufferNames
<1>6. IsSquare(p, b)
  OBVIOUS
<1>7. IsRow(p, d) /\ IsRow(p, outs)
  BY <1>1, <1>2, BufferIsRow
<1> HIDE DEF b, q, k, d, outs
<1>8. IsRow(p, qb) /\ IsRow(p, kb)
  BY <1>1, <1>6, <1>7, HeadsDot
<1> HIDE DEF qb, kb
<1>9. IsBuffer(q) /\ IsRow(p, q) /\ RotatedRow(p, qb, q)
  BY <1>1, <1>2, <1>4, <1>8, RotatedBackIs
<1>10. IsBuffer(k) /\ IsRow(p, k) /\ RotatedRow(p, kb, k)
  BY <1>1, <1>2, <1>5, <1>8, RotatedBackIs
<1>11. IsScratch(v)
  BY <1>3, <1>9, <1>10, ScratchIs DEF IsScratch, BufferNames, q, k
<1>12. ASSUME NEW param \in Params(n)
       PROVE  Moved(g[param], g[param], Owed(p, l, "attn_heads", w, param), Owed(p, l, "attn_in", v, param))
  <2> DEFINE x == HiddenTangents(p, param)[l - 1]
             s == ScoreRows(p, param, l, x)
             u == ValueRows(p, param, l, x)
             y == QueryRows(p, param, l, x)
             z == KeyRows(p, param, l, x)
             ry == Rotated(p, y)
             rz == Rotated(p, z)
             r == Dot(p, d, u)
             t == Dot(p, outs, x)
             before == Scores(p, b, s)
             after == Dot(p, q, y) + Dot(p, k, z)
  <2>1. IsRow(p, x)
    BY PlaceIs
  <2>2. IsSquare(p, s) /\ IsRow(p, u) /\ IsRow(p, y) /\ IsRow(p, z) /\ IsRow(p, ry) /\ IsRow(p, rz)
    <3> HIDE DEF x
    <3> QED BY <1>1, <2>1, LayerRows
  <2>3. Owed(p, l, "attn_heads", w, param) = (before + r) + t
    BY DEF Owed, LayerOwed, AttnOwed, FfnPhases, b, d, outs
  <2>4. Owed(p, l, "attn_in", v, param) = (after + r) + t
    BY <1>3 DEF Owed, LayerOwed, AttnOwed, FfnPhases, q, k
  <2>5. s = ScoreTangent(p, l, ry, rz)
    BY DEF ScoreRows
  <2> HIDE DEF x, s, u, y, z
  <2>6. Reduced(Dot(p, qb, ry)) = Reduced(Dot(p, q, y))
    BY <1>1, <1>8, <1>9, <2>2, RotatedDot
  <2>7. Reduced(Dot(p, kb, rz)) = Reduced(Dot(p, k, z))
    BY <1>1, <1>8, <1>10, <2>2, RotatedDot
  <2>8. Reduced(before) = Reduced(Dot(p, qb, ry) + Dot(p, kb, rz))
    <3> HIDE DEF ry, rz
    <3> QED BY <1>1, <1>6, <2>2, <2>5, HeadsDot DEF qb, kb
  <2> HIDE DEF ry, rz
  <2>9. /\ Dot(p, qb, ry) \in Int /\ Dot(p, kb, rz) \in Int /\ Dot(p, q, y) \in Int
        /\ Dot(p, k, z) \in Int /\ r \in Int /\ t \in Int
    BY <1>1, <1>7, <1>8, <1>9, <1>10, <2>1, <2>2, DotIs
  <2>10. g[param] \in Int /\ before \in Int
    BY <1>1, <1>6, <2>2, ScoresInt, GradsInt
  <2> DEFINE a1 == Dot(p, qb, ry)
             a2 == Dot(p, kb, rz)
             c1 == Dot(p, q, y)
             c2 == Dot(p, k, z)
  <2>11. a1 \in Int
    BY <2>9
  <2>12. a2 \in Int
    BY <2>9
  <2>13. c1 \in Int /\ Reduced(a1) = Reduced(c1)
    BY <2>6, <2>9
  <2>14. c2 \in Int /\ Reduced(a2) = Reduced(c2)
    BY <2>7, <2>9
  <2>15. Reduced(before) = Reduced(a1 + a2)
    BY <2>8
  <2>16. after = c1 + c2
    OBVIOUS
  <2> HIDE DEF before, after, r, t, a1, a2, c1, c2
  <2>17. Moved(g[param], g[param], a1, c1)
    BY <2>10, <2>11, <2>13, MovedSame
  <2>18. Moved(g[param], g[param], a2, c2)
    BY <2>10, <2>12, <2>14, MovedSame
  <2>19. Moved(g[param], g[param], a1 + a2, c1 + c2)
    BY <2>10, <2>11, <2>12, <2>13, <2>14, <2>17, <2>18, MovedTwice
  <2>20. a1 + a2 \in Int
    BY <2>11, <2>12
  <2>21. c1 + c2 \in Int
    BY <2>13, <2>14
  <2>22. Moved(g[param], g[param], before, a1 + a2)
    BY <2>10, <2>15, <2>20, MovedSame
  <2>23. after \in Int /\ Moved(g[param], g[param], before, after)
    BY <2>10, <2>16, <2>19, <2>20, <2>21, <2>22, MovedIs
  <2>24. r + t \in Int /\ before + (r + t) = (before + r) + t /\ after + (r + t) = (after + r) + t
    BY <2>9, <2>10, <2>23
  <2>25. Moved(g[param], g[param], before + (r + t), after + (r + t))
    BY <2>10, <2>23, <2>24, MovedIs
  <2> QED BY <2>3, <2>4, <2>24, <2>25
<1> QED BY <1>11, <1>12 DEF Carried

LEMMA ProjectionRow ==
  ASSUME NEW p, IsPass(p), NEW l \in 1..p.net.layers, NEW param, NEW name \in Holders,
         NEW x, IsRow(p, x), NEW input, input = RealRow(p, "hidden", l),
         NEW y, y = Projection(p, param, name, l, x, "hidden")
  PROVE  IsRow(p, y) /\ LinearRow(p, param, name, l, 0, x, input, y)
<1>1. IsRow(p, y) /\ \A i \in RowsOf(p) :
        y[i] = Linear(p, param, name, l, x[i], CachedOrZero(p, "hidden", l, i))
  BY HolderNames, ProjectionIs
<1>2. \A i \in RowsOf(p) : input[i] = CachedOrZero(p, "hidden", l, i)
  BY HolderNames, CacheRowIs
<1>3. ASSUME NEW i \in RowsOf(p)
      PROVE  y[i] = Linear(p, param, name, l, x[i], input[i]) + 0
  <2>1. y[i] = Linear(p, param, name, l, x[i], input[i])
    BY <1>1, <1>2
  <2>2. y[i] \in Int
    BY <1>1 DEF IsRow
  <2> QED BY <2>1, <2>2
<1> QED BY <1>1, <1>3 DEF LinearRow

LEMMA AttnInputIs ==
  ASSUME NEW p, IsPass(p), NEW l \in 1..p.net.layers, NEW q, NEW k, NEW d,
         IsRow(p, q), IsRow(p, k), IsRow(p, d), NEW outs, IsBuffer(outs),
         NEW v, v = Accumulate(p, outs, AttnInput(p, l, q, k, d))
  PROVE  /\ IsBuffer(v) /\ IsRow(p, v) /\ IsRow(p, outs)
         /\ RowOfFour(p, v, Back(p, "W_q", l, q), Back(p, "W_k", l, k), Back(p, "W_v", l, d), outs)
<1> DEFINE e == AttnInput(p, l, q, k, d)
           b1 == Back(p, "W_q", l, q)
           b2 == Back(p, "W_k", l, k)
           b3 == Back(p, "W_v", l, d)
<1>1. ASSUME NEW i \in RowsOf(p)
      PROVE  e[i] = q[i] * Weight(p, "W_q", l) + k[i] * Weight(p, "W_k", l) + d[i] * Weight(p, "W_v", l)
  BY DEF AttnInput
<1>2. IsRow(p, b1) /\ \A i \in RowsOf(p) : b1[i] = q[i] * Weight(p, "W_q", l)
  BY HolderNames, BackOf
<1>3. IsRow(p, b2) /\ \A i \in RowsOf(p) : b2[i] = k[i] * Weight(p, "W_k", l)
  BY HolderNames, BackOf
<1>4. IsRow(p, b3) /\ \A i \in RowsOf(p) : b3[i] = d[i] * Weight(p, "W_v", l)
  BY HolderNames, BackOf
<1>5. v = Accumulate(p, outs, e)
  OBVIOUS
<1>6. IsRow(p, outs)
  BY BufferIsRow
<1> HIDE DEF e, b1, b2, b3
<1>7. ASSUME NEW i \in RowsOf(p)
      PROVE  e[i] = b1[i] + b2[i] + b3[i]
  BY <1>1, <1>2, <1>3, <1>4
<1>8. ASSUME NEW i \in RowsOf(p)
      PROVE  e[i] \in Int /\ outs[i] + e[i] = b1[i] + b2[i] + b3[i] + outs[i]
  <2> DEFINE x == b1[i]
             y == b2[i]
             z == b3[i]
             s == e[i]
             o == outs[i]
  <2>1. x \in Int
    BY <1>2 DEF IsRow
  <2>2. y \in Int
    BY <1>3 DEF IsRow
  <2>3. z \in Int
    BY <1>4 DEF IsRow
  <2>4. o \in Int
    BY <1>6 DEF IsRow
  <2>5. s = x + y + z
    BY <1>7
  <2> HIDE DEF x, y, z, s, o
  <2>6. s \in Int /\ o + s = x + y + z + o
    BY <2>1, <2>2, <2>3, <2>4, <2>5
  <2> QED BY <2>6 DEF x, y, z, s, o
<1>9. IsRow(p, e)
  BY <1>8 DEF IsRow
<1>10. /\ IsBuffer(v) /\ IsRow(p, v)
       /\ \A i \in RowsOf(p) : Reduced(v[i]) = Reduced(outs[i] + e[i])
  BY <1>5, <1>9, GradsAccumulatedIs
<1>11. RowOfFour(p, v, b1, b2, b3, outs)
  BY <1>8, <1>10 DEF RowOfFour
<1> QED BY <1>6, <1>10, <1>11 DEF b1, b2, b3

LEMMA AttnInMoves ==
  ASSUME NEW n, NEW p, PassOf(n, p), NEW l \in 1..n.layers, NEW g \in Grads(n), NEW w, IsScratch(w),
         NEW input, input = RealRow(p, "hidden", l),
         NEW h, h = Plus(Plus(Plus(g, <<"W_q", l>>, Dot(p, input, w.q)),
                              <<"W_k", l>>, Dot(p, input, w.k)),
                         <<"W_v", l>>, Dot(p, input, w.v)),
         NEW v, v = Accumulate(p, w.out, AttnInput(p, l, w.q, w.k, w.v))
  PROVE  /\ h \in Grads(n) /\ IsBuffer(v) /\ IsRow(p, v)
         /\ \A param \in Params(n) :
              /\ Owed(p, l, "attn_in", w, param) \in Int
              /\ Dot(p, v, HiddenTangents(p, param)[l - 1]) \in Int
              /\ Moved(g[param], h[param], Owed(p, l, "attn_in", w, param),
                       Dot(p, v, HiddenTangents(p, param)[l - 1]))
<1> DEFINE q == w.q
           k == w.k
           d == w.v
           outs == w.out
           b1 == Back(p, "W_q", l, q)
           b2 == Back(p, "W_k", l, k)
           b3 == Back(p, "W_v", l, d)
           g1 == Plus(g, <<"W_q", l>>, Dot(p, input, q))
           g2 == Plus(g1, <<"W_k", l>>, Dot(p, input, k))
<1>1. IsPass(p) /\ l \in 1..p.net.layers
  BY PassOfIs
<1>2. IsBuffer(q) /\ IsBuffer(k) /\ IsBuffer(outs) /\ IsBuffer(d)
  BY ScratchIs
<1>3. v = Accumulate(p, outs, AttnInput(p, l, q, k, d))
  OBVIOUS
<1>4. h = Plus(g2, <<"W_v", l>>, Dot(p, input, d))
  OBVIOUS
<1>5. IsRow(p, input)
  BY <1>1, HolderNames, CacheRowIs
<1> HIDE DEF q, k, d, outs
<1>6. IsRow(p, q) /\ IsRow(p, k) /\ IsRow(p, d)
  BY <1>1, <1>2, BufferIsRow
<1>7. IsBuffer(v) /\ IsRow(p, v) /\ IsRow(p, outs) /\ RowOfFour(p, v, b1, b2, b3, outs)
  BY <1>1, <1>2, <1>3, <1>6, AttnInputIs
<1>8. IsRow(p, b1) /\ BackRow(p, "W_q", l, q, b1)
  BY <1>1, <1>6, HolderNames, BackOf
<1>9. IsRow(p, b2) /\ BackRow(p, "W_k", l, k, b2)
  BY <1>1, <1>6, HolderNames, BackOf
<1>10. IsRow(p, b3) /\ BackRow(p, "W_v", l, d, b3)
  BY <1>1, <1>6, HolderNames, BackOf
<1> HIDE DEF b1, b2, b3
<1>11. g1 \in Grads(n)
  BY <1>5, <1>6, <1>8, HolderNames, WeightMoves
<1>12. g2 \in Grads(n)
  <2> HIDE DEF g1
  <2> QED BY <1>5, <1>6, <1>9, <1>11, HolderNames, WeightMoves
<1>13. h \in Grads(n)
  <2> HIDE DEF g1, g2
  <2> QED BY <1>4, <1>5, <1>6, <1>10, <1>12, HolderNames, WeightMoves
<1>14. ASSUME NEW param \in Params(n)
       PROVE  /\ Owed(p, l, "attn_in", w, param) \in Int
              /\ Dot(p, v, HiddenTangents(p, param)[l - 1]) \in Int
              /\ Moved(g[param], h[param], Owed(p, l, "attn_in", w, param),
                       Dot(p, v, HiddenTangents(p, param)[l - 1]))
  <2> DEFINE x == HiddenTangents(p, param)[l - 1]
             y == QueryRows(p, param, l, x)
             z == KeyRows(p, param, l, x)
             u == ValueRows(p, param, l, x)
             a1 == Dot(p, q, y)
             a2 == Dot(p, k, z)
             a3 == Dot(p, d, u)
             c1 == Dot(p, b1, x)
             c2 == Dot(p, b2, x)
             c3 == Dot(p, b3, x)
             r == Dot(p, outs, x)
             last == Dot(p, v, x)
  <2>1. IsRow(p, x)
    BY PlaceIs
  <2>2. Owed(p, l, "attn_in", w, param) = ((a1 + a2) + a3) + r
    BY DEF Owed, LayerOwed, AttnOwed, FfnPhases, q, k, d, outs
  <2>3. /\ y = Projection(p, param, "W_q", l, x, "hidden")
        /\ z = Projection(p, param, "W_k", l, x, "hidden")
        /\ u = Projection(p, param, "W_v", l, x, "hidden")
    BY DEF QueryRows, KeyRows, ValueRows
  <2> DEFINE top == Dot(p, v, HiddenTangents(p, param)[l - 1])
  <2>31. top = last
    OBVIOUS
  <2> HIDE DEF x, y, z, u, top
  <2>4. IsRow(p, y) /\ LinearRow(p, param, "W_q", l, 0, x, input, y)
    BY <1>1, <2>1, <2>3, HolderNames, ProjectionRow
  <2>5. IsRow(p, z) /\ LinearRow(p, param, "W_k", l, 0, x, input, z)
    BY <1>1, <2>1, <2>3, HolderNames, ProjectionRow
  <2>6. IsRow(p, u) /\ LinearRow(p, param, "W_v", l, 0, x, input, u)
    BY <1>1, <2>1, <2>3, HolderNames, ProjectionRow
  <2>7. Moved(g[param], g1[param], a1, c1)
    BY <1>5, <1>6, <1>8, <2>1, <2>4, HolderNames, WeightMoves
  <2>8. Moved(g1[param], g2[param], a2, c2)
    <3> HIDE DEF g1
    <3> QED BY <1>5, <1>6, <1>9, <1>11, <2>1, <2>5, HolderNames, WeightMoves
  <2> HIDE DEF g1, g2
  <2>9. Moved(g2[param], h[param], a3, c3)
    BY <1>4, <1>5, <1>6, <1>10, <1>12, <2>1, <2>6, HolderNames, WeightMoves
  <2>10. g[param] \in Int /\ h[param] \in Int /\ g1[param] \in Int /\ g2[param] \in Int
    BY <1>11, <1>12, <1>13, GradsInt
  <2>11. /\ a1 \in Int /\ a2 \in Int /\ a3 \in Int /\ c1 \in Int /\ c2 \in Int /\ c3 \in Int
         /\ r \in Int /\ last \in Int
    BY <1>1, <1>6, <1>7, <1>8, <1>9, <1>10, <2>1, <2>4, <2>5, <2>6, DotIs
  <2>12. Reduced(last) = Reduced(c1 + c2 + c3 + r)
    BY <1>1, <1>7, <1>8, <1>9, <1>10, <2>1, DotOfRows
  <2> HIDE DEF a1, a2, a3, c1, c2, c3, r, last
  <2> DEFINE a == (a1 + a2) + a3
             c == (c1 + c2) + c3
  <2>13. Moved(g[param], g2[param], a1 + a2, c1 + c2)
    BY <2>7, <2>8, <2>10, <2>11, MovedTwice
  <2>14. a1 + a2 \in Int /\ c1 + c2 \in Int
    BY <2>11
  <2>15. Moved(g[param], h[param], a, c)
    BY <2>9, <2>10, <2>11, <2>13, <2>14, MovedTwice
  <2>16. a \in Int
    BY <2>11
  <2>17. c \in Int
    BY <2>11
  <2>18. Reduced(last) = Reduced(c + r)
    BY <2>12
  <2>19. Owed(p, l, "attn_in", w, param) = a + r
    BY <2>2
  <2> HIDE DEF a, c
  <2>20. Moved(g[param], h[param], a + r, c + r)
    BY <2>10, <2>11, <2>15, <2>16, <2>17, MovedIs
  <2>21. a + r \in Int /\ c + r \in Int
    BY <2>11, <2>16, <2>17
  <2>22. Moved(g[param], h[param], a + r, last)
    BY <2>10, <2>11, <2>18, <2>20, <2>21, MovedThen
  <2> QED BY <2>11, <2>19, <2>21, <2>22, <2>31 DEF top
<1> QED BY <1>7, <1>13, <1>14

(* The rows a layer above the first hands down.                            *)
LEMMA AttnInStage ==
  ASSUME NEW n, NEW p, PassOf(n, p), NEW l \in 1..n.layers, l # 1, NEW g \in Grads(n), NEW w, IsScratch(w),
         NEW input, input = RealRow(p, "hidden", l),
         NEW h, h = Plus(Plus(Plus(g, <<"W_q", l>>, Dot(p, input, w.q)),
                              <<"W_k", l>>, Dot(p, input, w.k)),
                         <<"W_v", l>>, Dot(p, input, w.v)),
         NEW outs, outs = Accumulate(p, w.out, AttnInput(p, l, w.q, w.k, w.v)),
         NEW v, v = [w EXCEPT !.out = outs, !.in = Copied(p, w.in, outs)]
  PROVE  l - 1 \in 1..n.layers /\ Carried(n, p, l, "attn_in", w, g, l - 1, "ffn_norm", v, h)
<1> DEFINE in == v.in
           k == l - 1
<1>1. IsPass(p) /\ l \in 1..p.net.layers
  BY PassOfIs
<1>2. k \in 1..n.layers
  BY <1>1, PassOfIs, PassIs
<1>3. DOMAIN w = BufferNames /\ IsBuffer(w.in)
  BY ScratchIs
<1>4. /\ DOMAIN v = BufferNames /\ v.out = outs
      /\ \A name \in BufferNames \ {"in", "out"} : v[name] = w[name]
  BY <1>3 DEF BufferNames
<1>5. in = Copied(p, w.in, outs)
  BY <1>3 DEF BufferNames
<1> HIDE DEF in
<1>6. h \in Grads(n) /\ IsBuffer(outs) /\ IsRow(p, outs)
  BY AttnInMoves
<1>7. IsBuffer(in) /\ IsRow(p, in) /\ SameRow(p, in, outs)
  BY <1>1, <1>3, <1>5, <1>6, CopiedIs DEF SameRow
<1>8. IsScratch(v)
  BY <1>4, <1>6, <1>7, ScratchIs DEF IsScratch, BufferNames, in
<1>9. ASSUME NEW param \in Params(n)
      PROVE  Moved(g[param], h[param], Owed(p, l, "attn_in", w, param), Owed(p, k, "ffn_norm", v, param))
  <2> DEFINE x == HiddenTangents(p, param)[k]
             before == Owed(p, l, "attn_in", w, param)
             after == Dot(p, outs, x)
             last == Owed(p, k, "ffn_norm", v, param)
  <2>1. IsRow(p, x)
    BY PlaceIs
  <2>2. PaddedZero(p, x)
    BY <1>1, <1>2, PassOfIs, HiddenPadded
  <2>3. last = Dot(p, RealRows(p, in), x)
    BY DEF Owed, in
  <2>4. before \in Int /\ after \in Int /\ Moved(g[param], h[param], before, after)
    BY AttnInMoves
  <2> HIDE DEF x, before
  <2>5. Reduced(Dot(p, RealRows(p, in), x)) = Reduced(after)
    BY <1>1, <1>6, <1>7, <2>1, <2>2, RealDot
  <2>6. Dot(p, RealRows(p, in), x) \in Int
    BY <1>1, <1>7, <2>1, RealRowsIs, DotIs
  <2> HIDE DEF after, last
  <2>7. last \in Int /\ Reduced(after) = Reduced(last)
    BY <2>3, <2>5, <2>6
  <2>8. g[param] \in Int /\ h[param] \in Int
    BY <1>6, GradsInt
  <2>9. Moved(g[param], h[param], before, last)
    BY <2>4, <2>7, <2>8, MovedThen
  <2> QED BY <2>9 DEF before, last
<1> QED BY <1>2, <1>6, <1>8, <1>9 DEF Carried

(* The first layer scatters into the embeddings, and owes nothing more.    *)
ScatteredGrads(n, p, e, outs) ==
  [param \in Params(n) |->
    IF param[1] = "E" THEN Reduced(e[param] + Scattered(p, outs, param[2])) ELSE e[param]]

LEMMA FirstLayerStage ==
  ASSUME NEW n, NEW p, PassOf(n, p), NEW l \in 1..n.layers, l = 1, NEW g \in Grads(n),
         NEW w, IsScratch(w), NEW input, input = RealRow(p, "hidden", l),
         NEW e, e = Plus(Plus(Plus(g, <<"W_q", l>>, Dot(p, input, w.q)),
                              <<"W_k", l>>, Dot(p, input, w.k)),
                         <<"W_v", l>>, Dot(p, input, w.v)),
         NEW outs, outs = Accumulate(p, w.out, AttnInput(p, l, w.q, w.k, w.v)),
         NEW h, h = ScatteredGrads(n, p, e, outs), NEW v, v = [w EXCEPT !.out = outs]
  PROVE  /\ h \in Grads(n) /\ IsScratch(v)
         /\ \A param \in Params(n) :
              Reduced(h[param]) = Reduced(g[param] + Owed(p, l, "attn_in", w, param))
<1>1. IsPass(p) /\ l - 1 = 0
  BY PassOfIs
<1>2. e \in Grads(n) /\ IsBuffer(outs) /\ IsRow(p, outs)
  BY AttnInMoves
<1>3. DOMAIN w = BufferNames
  BY ScratchIs
<1>4. /\ DOMAIN v = BufferNames /\ v.out = outs
      /\ \A name \in BufferNames \ {"out"} : v[name] = w[name]
  BY <1>3 DEF BufferNames
<1>5. IsScratch(v)
  BY <1>2, <1>4, ScratchIs DEF IsScratch, BufferNames
<1>6. ASSUME NEW param \in Params(n)
      PROVE  /\ h[param] \in 0..(Modulo - 1)
             /\ Reduced(h[param]) = Reduced(g[param] + Owed(p, l, "attn_in", w, param))
  <2> DEFINE x == HiddenTangents(p, param)[l - 1]
             before == Owed(p, l, "attn_in", w, param)
             after == Dot(p, outs, x)
             s == Scattered(p, outs, param[2])
             c == e[param]
  <2>1. param = <<param[1], param[2]>>
    BY ParamsAre
  <2>2. x = EmbeddingTangent(p, param)
    BY <1>1, HiddenTangentsAre
  <2>3. before \in Int /\ after \in Int /\ Moved(g[param], c, before, after)
    BY AttnInMoves
  <2>4. s \in Int /\ after = IF param[1] = "E" THEN s ELSE 0
    <3> HIDE DEF x
    <3> QED BY <1>1, <1>2, <2>1, <2>2, EmbeddingDot
  <2>5. c \in Int /\ Reduced(c) = c /\ c \in 0..(Modulo - 1)
    BY <1>2, GradsInt DEF Grads
  <2>6. h[param] = IF param[1] = "E" THEN Reduced(c + s) ELSE c
    BY DEF ScatteredGrads
  <2> HIDE DEF before, after, s, c
  <2>7. Reduced(c + after) = Reduced(g[param] + before)
    BY <2>3 DEF Moved
  <2> DEFINE t == c + after
  <2>8. t \in Int
    BY <2>3, <2>5
  <2>9. h[param] = Reduced(t)
    <3>1. CASE param[1] = "E"
      BY <2>4, <2>6, <3>1
    <3>2. CASE param[1] # "E"
      <4>1. t = c
        BY <2>4, <2>5, <3>2
      <4> HIDE DEF t
      <4> QED BY <2>5, <2>6, <3>2, <4>1
    <3> QED BY <3>1, <3>2
  <2>10. Reduced(t) = Reduced(g[param] + before)
    BY <2>7
  <2> HIDE DEF t
  <2>11. Reduced(t) \in 0..(Modulo - 1) /\ Reduced(Reduced(t)) = Reduced(t)
    BY <2>8, ReducedType
  <2> QED BY <2>9, <2>10, <2>11 DEF before
<1>7. h \in Grads(n)
  <2>1. h = [param \in Params(n) |-> h[param]]
    BY DEF ScatteredGrads
  <2> QED BY <1>6, <2>1 DEF Grads
<1> QED BY <1>5, <1>6, <1>7

(* The head's own parameters, and the rows handed to the top layer.        *)
LEMMA HeadStage ==
  ASSUME NEW n, NEW p, PassOf(n, p), NEW l, NEW g \in Grads(n), NEW w, IsScratch(w),
         NEW h, h = [param \in Params(n) |->
                      Reduced(g[param] + (CASE param[1] = HeadName(p) -> HeadColumn(p, param[2])
                                            [] param[1] = "output_bias" -> HeadBias(p, param[2])
                                            [] OTHER -> 0))],
         NEW v, v = [w EXCEPT !.in = Written(p, w.in, HeadInput(p))]
  PROVE  n.layers \in 1..n.layers /\ Carried(n, p, l, "head", w, g, n.layers, "ffn_norm", v, h)
<1> DEFINE in == v.in
           k == n.layers
<1>1. IsPass(p) /\ p.net = n
  BY PassOfIs
<1>2. k \in 1..n.layers
  BY <1>1, PassIs
<1>3. DOMAIN w = BufferNames /\ IsBuffer(w.in)
  BY ScratchIs
<1>4. /\ DOMAIN v = BufferNames
      /\ \A name \in BufferNames \ {"in"} : v[name] = w[name]
  BY <1>3 DEF BufferNames
<1>5. in = Written(p, w.in, HeadInput(p))
  BY <1>3 DEF BufferNames
<1> HIDE DEF in, k
<1>6. ASSUME NEW param \in Params(n)
      PROVE  IsRow(p, HeadInput(p))
  <2>1. IsHeadParam(p, param)
    BY ParamsAre
  <2> QED BY <1>1, <2>1, HeadDot
<1>7. IsRow(p, HeadInput(p))
  <2>1. <<"E", 1>> \in Params(n)
    BY <1>1, PassIs DEF Params
  <2> QED BY <1>6, <2>1
<1>8. IsBuffer(in) /\ IsRow(p, in) /\ SameRow(p, in, HeadInput(p))
  BY <1>1, <1>3, <1>5, <1>7, WrittenIs DEF SameRow
<1>9. IsScratch(v)
  BY <1>4, <1>8, ScratchIs DEF IsScratch, BufferNames, in
<1>10. ASSUME NEW param \in Params(n)
       PROVE  /\ h[param] \in 0..(Modulo - 1)
              /\ Moved(g[param], h[param], Owed(p, l, "head", w, param), Owed(p, k, "ffn_norm", v, param))
  <2> DEFINE x == HiddenTangents(p, param)[k]
             before == Tangent(p, param)
             after == Dot(p, HeadInput(p), x)
             last == Owed(p, k, "ffn_norm", v, param)
             a == HeadColumnOf(p, param)
             b == HeadBiasOf(p, param)
             c == g[param]
  <2>1. IsHeadParam(p, param)
    BY ParamsAre
  <2>2. IsRow(p, x) /\ a \in Int /\ b \in Int /\ before \in Int
    BY <1>1, <2>1, HeadDot DEF k
  <2>3. Reduced(before) = Reduced(after + a + b)
    BY <1>1, <2>1, HeadDot DEF k
  <2>4. PaddedZero(p, x)
    BY <1>1, <1>2, HiddenPadded
  <2>5. Owed(p, l, "head", w, param) = before
    BY DEF Owed
  <2>6. last = Dot(p, RealRows(p, in), x)
    BY DEF Owed, in
  <2>7. after \in Int
    <3> HIDE DEF x
    <3> QED BY <1>1, <1>7, <2>2, DotIs
  <2>8. c \in Int
    BY GradsInt
  <2>9. h[param] = Reduced(c + (a + b))
    <3> DEFINE u == HeadColumn(p, param[2])
               d == HeadBias(p, param[2])
               t == CASE param[1] = HeadName(p) -> u [] param[1] = "output_bias" -> d [] OTHER -> 0
    <3>1. h[param] = Reduced(c + t)
      OBVIOUS
    <3>2. HeadName(p) # "output_bias"
      BY DEF HeadName
    <3>3. a = IF param[1] = HeadName(p) THEN u ELSE 0
      BY DEF HeadColumnOf
    <3>4. b = IF param[1] = "output_bias" THEN d ELSE 0
      BY DEF HeadBiasOf
    <3> HIDE DEF a, b, u, d
    <3>5. t = IF param[1] = HeadName(p) THEN a ELSE IF param[1] = "output_bias" THEN b ELSE 0
      <4>1. CASE param[1] = HeadName(p)
        <5>1. t = u
          BY <3>2, <4>1
        <5> QED BY <3>3, <4>1, <5>1
      <4>2. CASE param[1] # HeadName(p) /\ param[1] = "output_bias"
        <5>1. t = d
          BY <4>2
        <5> QED BY <3>4, <4>2, <5>1
      <4>3. CASE param[1] # HeadName(p) /\ param[1] # "output_bias"
        BY <4>3
      <4> QED BY <4>1, <4>2, <4>3
    <3> HIDE DEF t
    <3>6. t = a + b
      BY <2>2, <3>2, <3>3, <3>4, <3>5
    <3> QED BY <3>1, <3>6
  <2> HIDE DEF x, before, after, a, b, c, last
  <2>10. Reduced(Dot(p, RealRows(p, in), x)) = Reduced(after)
    BY <1>1, <1>7, <1>8, <2>2, <2>4, RealDot DEF after
  <2>11. Dot(p, RealRows(p, in), x) \in Int
    BY <1>1, <1>8, <2>2, RealRowsIs, DotIs
  <2>12. last \in Int /\ Reduced(after) = Reduced(last)
    BY <2>6, <2>10, <2>11
  <2> DEFINE ab == a + b
  <2>13. ab \in Int /\ after + a + b = after + ab
    BY <2>2, <2>7
  <2>14. h[param] = Reduced(c + ab)
    BY <2>9
  <2> HIDE DEF ab
  <2>15. c + ab \in Int
    BY <2>8, <2>13
  <2>16. h[param] \in 0..(Modulo - 1) /\ h[param] \in Int /\ Reduced(h[param]) = Reduced(c + ab)
    BY <2>14, <2>15, ReducedType
  <2>17. Moved(c, h[param], before, after)
    BY <2>2, <2>3, <2>7, <2>8, <2>13, <2>16, MovedBy
  <2>18. Moved(c, h[param], before, last)
    BY <2>2, <2>7, <2>8, <2>12, <2>16, <2>17, MovedThen
  <2> QED BY <2>5, <2>16, <2>18 DEF c, last
<1>11. h \in Grads(n)
  <2>1. h = [param \in Params(n) |-> h[param]]
    OBVIOUS
  <2> QED BY <1>10, <2>1 DEF Grads
<1> QED BY <1>2, <1>9, <1>10, <1>11 DEF Carried, k

-----------------------------------------------------------------------------
(* The inductive invariant: what the gradients hold and what the rows that *)
(* came back still owe is, together, what the group and the window should  *)
(* leave; padded rows that no kernel masks again hold nothing.             *)

Descending == {"ffn_norm", "attn_norm"} \cup FfnPhases \cup AttnPhases
AtWork == {"loss", "head"} \cup Descending

StepTypes ==
  /\ net \in Nets /\ grads \in Grads(net) /\ IsScratch(ws)
  /\ passes \in 0..MaxPasses /\ steps \in 0..MaxSteps
  /\ IsGroup(net, seen)
  /\ phase \in {"idle", "applied", "failed"} \cup AtWork
  /\ phase \in AtWork => PassOf(net, pass)
  /\ phase \in Descending => layer \in 1..net.layers

GroupCounted ==
  /\ Len(seen) <= passes
  /\ phase \in AtWork => Len(seen) + 1 <= passes

CleanPadding ==
  /\ phase = "ffn_out" => PaddedZero(pass, ws.drop)
  /\ phase \in FfnPhases => PaddedZero(pass, ws.s2)
  /\ phase \in {"ffn_act", "ffn_in"} => PaddedZero(pass, ws.hidden)
  /\ phase = "ffn_in" /\ Uses(pass, "SWIGLU") => PaddedZero(pass, ws.gate)
  /\ phase = "attn_norm" => PaddedZero(pass, ws.x1)
  /\ phase = "attn_heads" => IsSquare(pass, ws.scores)

Balanced ==
  /\ phase = "idle" => \A param \in Params(net) : grads[param] = Expected(seen, param)
  /\ phase \in AtWork => \A param \in Params(net) :
       Reduced(grads[param] + Owed(pass, layer, phase, ws, param))
         = Reduced(Expected(seen, param) + Tangent(pass, param))

StepInv == StepTypes /\ GroupCounted /\ CleanPadding /\ Balanced

LEMMA StepBounds ==
  /\ MaxPasses \in Nat /\ MaxSteps \in Nat /\ MaxPasses <= Most /\ MaxSteps <= Most /\ Most \in Nat
BY TrainingStepAssumption

LEMMA GroupLength ==
  ASSUME NEW n, NEW group, IsGroup(n, group)
  PROVE  Len(group) \in Nat /\ \A p : Len(Append(group, p)) = Len(group) + 1
<1>1. group \in Seq(PassSet(n))
  BY DEF IsGroup
<1> QED BY <1>1

(* No gradient, of no group.                                               *)
LEMMA NothingSeen ==
  ASSUME NEW n \in Nets
  PROVE  /\ IsGroup(n, << >>) /\ Len(<< >>) = 0
         /\ [param \in Params(n) |-> 0] \in Grads(n)
         /\ \A param \in Params(n) : Expected(<< >>, param) = 0
<1>1. 0 \in 0..(Modulo - 1)
  BY ModuloIs
<1>2. [param \in Params(n) |-> 0] \in Grads(n)
  BY <1>1 DEF Grads
<1>3. IsGroup(n, << >>)
  BY DEF IsGroup
<1> QED BY <1>2, <1>3, ExpectedOfNone

LEMMA ScratchAtFirst ==
  IsScratch(Scratch)
<1>1. IsBuffer(Heap)
  <2>1. ASSUME NEW i \in Positions PROVE Heap[i] \in Int
    <3>1. "heap" \in Holders /\ 0 \in 0..Most /\ i \in 0..Most
      BY TrainingStepAssumption DEF Holders, Positions
    <3>2. Content[<<"heap", 0, i, 0, 0>>] \in Int
      BY <3>1, ContentInt
    <3> QED BY <3>2 DEF Heap
  <2> QED BY <2>1 DEF IsBuffer
<1>2. DOMAIN Scratch = BufferNames
  BY DEF Scratch, BufferNames
<1>3. \A name \in BufferNames \ {"scores"} : Scratch[name] = Heap
  <2> HIDE DEF Heap
  <2> QED BY DEF Scratch, BufferNames
<1> QED BY <1>1, <1>2, <1>3 DEF IsScratch

LEMMA StepInitInv ==
  ASSUME StepInit
  PROVE  StepInv
<1>1. /\ net \in Nets /\ grads = [param \in Params(net) |-> 0] /\ ws = Scratch /\ phase = "idle"
      /\ seen = << >> /\ passes = 0 /\ steps = 0
  BY DEF StepInit, NoGrads
<1>2. phase \notin AtWork /\ phase \notin Descending /\ phase \notin FfnPhases
  BY <1>1 DEF AtWork, Descending, FfnPhases, AttnPhases
<1>3. IsGroup(net, seen) /\ grads \in Grads(net) /\ Len(seen) = 0
  BY <1>1, NothingSeen
<1>4. \A param \in Params(net) : grads[param] = Expected(seen, param)
  BY <1>1, NothingSeen
<1>5. StepTypes
  BY <1>1, <1>2, <1>3, ScratchAtFirst, StepBounds DEF StepTypes
<1>6. GroupCounted /\ CleanPadding /\ Balanced
  BY <1>1, <1>2, <1>3, <1>4 DEF GroupCounted, CleanPadding, Balanced
<1> QED BY <1>5, <1>6 DEF StepInv

(* From one stage to the next.                                             *)
LEMMA StageSteps ==
  ASSUME StepInv, phase \in Descending \cup {"head"}, phase' \in Descending,
         UNCHANGED stepRest, layer' \in 1..net.layers,
         Carried(net, pass, layer, phase, ws, grads, layer', phase', ws', grads')
  PROVE  StepTypes' /\ GroupCounted' /\ Balanced'
<1>1. UNCHANGED <<net, pass, seen, passes, adam, steps>>
  BY DEF stepRest
<1>2. StepTypes /\ GroupCounted /\ Balanced
  BY DEF StepInv
<1>3. phase \in AtWork /\ phase' \in AtWork /\ phase' # "idle"
  BY DEF AtWork, Descending, FfnPhases, AttnPhases
<1>4. /\ grads' \in Grads(net) /\ IsScratch(ws')
      /\ \A param \in Params(net) :
           Moved(grads[param], grads'[param], Owed(pass, layer, phase, ws, param),
                 Owed(pass, layer', phase', ws', param))
  BY DEF Carried
<1>5. StepTypes'
  BY <1>1, <1>2, <1>3, <1>4 DEF StepTypes
<1>6. GroupCounted'
  BY <1>1, <1>2, <1>3 DEF GroupCounted
<1>7. ASSUME NEW param \in Params(net)
      PROVE  Reduced(grads'[param] + Owed(pass, layer', phase', ws', param))
               = Reduced(Expected(seen, param) + Tangent(pass, param))
  <2>1. Reduced(grads[param] + Owed(pass, layer, phase, ws, param))
          = Reduced(Expected(seen, param) + Tangent(pass, param))
    BY <1>2, <1>3 DEF Balanced
  <2>2. Reduced(grads'[param] + Owed(pass, layer', phase', ws', param))
          = Reduced(grads[param] + Owed(pass, layer, phase, ws, param))
    BY <1>4 DEF Moved
  <2> QED BY <2>1, <2>2
<1>8. Balanced'
  BY <1>1, <1>3, <1>7 DEF Balanced
<1> QED BY <1>5, <1>6, <1>8

(* Back to idle, with the window counted among those seen.                 *)
LEMMA PassSeen ==
  ASSUME StepInv, phase \in AtWork, phase' = "idle", seen' = Append(seen, pass),
         UNCHANGED <<net, pass, passes, steps>>, grads' \in Grads(net), IsScratch(ws'),
         \A param \in Params(net) :
           Reduced(grads'[param]) = Reduced(grads[param] + Owed(pass, layer, phase, ws, param))
  PROVE  StepInv'
<1>1. StepTypes /\ GroupCounted /\ Balanced
  BY DEF StepInv
<1>2. phase' \notin AtWork /\ phase' \notin Descending /\ phase' \notin FfnPhases
  BY DEF AtWork, Descending, FfnPhases, AttnPhases
<1>3. IsGroup(net, seen) /\ PassOf(net, pass)
  BY <1>1 DEF StepTypes
<1>4. IsGroup(net, seen')
  BY <1>3, GroupGrows
<1>5. StepTypes'
  BY <1>1, <1>2, <1>4 DEF StepTypes
<1>6. GroupCounted'
  <2>1. Len(seen') = Len(seen) + 1
    BY <1>3, GroupLength
  <2>2. Len(seen) + 1 <= passes
    BY <1>1 DEF GroupCounted
  <2> QED BY <1>2, <2>1, <2>2 DEF GroupCounted
<1>7. ASSUME NEW param \in Params(net)
      PROVE  grads'[param] = Expected(seen', param)
  <2>1. Reduced(grads[param] + Owed(pass, layer, phase, ws, param))
          = Reduced(Expected(seen, param) + Tangent(pass, param))
    BY <1>1 DEF Balanced
  <2>2. Reduced(Expected(seen', param)) = Reduced(Expected(seen, param) + Tangent(pass, param))
    BY <1>3, ExpectedIs
  <2>3. Reduced(Expected(seen', param)) = Expected(seen', param)
    BY <1>4, ExpectedIs
  <2>4. Reduced(grads'[param]) = grads'[param]
    BY GradsInt
  <2>5. Reduced(grads'[param]) = Reduced(grads[param] + Owed(pass, layer, phase, ws, param))
    OBVIOUS
  <2> QED BY <2>1, <2>2, <2>3, <2>4, <2>5
<1>8. Balanced' /\ CleanPadding'
  BY <1>2, <1>7 DEF Balanced, CleanPadding
<1> QED BY <1>5, <1>6, <1>8 DEF StepInv

LEMMA PhaseSets ==
  /\ Descending = {"ffn_norm", "ffn_out", "ffn_act", "ffn_in", "attn_norm", "attn_out", "attn_probs",
                   "attn_heads", "attn_in"}
  /\ FfnPhases = {"ffn_out", "ffn_act", "ffn_in"}
  /\ AtWork = {"loss", "head"} \cup Descending
BY DEF Descending, FfnPhases, AttnPhases, AtWork

LEMMA InvParts ==
  ASSUME StepInv
  PROVE  StepTypes /\ GroupCounted /\ CleanPadding /\ Balanced
         /\ net \in Nets /\ grads \in Grads(net) /\ IsScratch(ws) /\ IsGroup(net, seen)
         /\ (phase \in AtWork => PassOf(net, pass))
         /\ (phase \in Descending => layer \in 1..net.layers)
BY DEF StepInv, StepTypes

LEMMA StageIs ==
  ASSUME NEW from, NEW to, Stage(from, to)
  PROVE  phase = from /\ phase' = to /\ UNCHANGED stepRest /\ layer' = layer
         /\ UNCHANGED <<net, pass, seen, passes, adam, steps>>
BY DEF Stage, stepRest

LEMMA ForwardPassInv ==
  ASSUME StepInv, NEW kind \in {"all", "last"}, NEW window \in WindowType, ForwardPass(kind, window)
  PROVE  StepInv'
<1>1. /\ phase = "idle" /\ passes < MaxPasses
      /\ pass' = [net |-> net, kind |-> kind, window |-> window, draw |-> passes, steps |-> steps]
      /\ passes' = passes + 1 /\ phase' = "loss"
      /\ UNCHANGED <<net, grads, ws, layer, seen, adam, steps>>
  BY DEF ForwardPass
<1>2. StepTypes /\ GroupCounted /\ Balanced /\ IsGroup(net, seen)
  BY InvParts
<1>3. phase' \in AtWork /\ phase' \notin Descending /\ phase' \notin FfnPhases
  BY <1>1, PhaseSets
<1>4. passes \in 0..Most /\ steps \in 0..Most /\ passes' \in 0..MaxPasses /\ net \in Nets
  BY <1>1, <1>2, StepBounds DEF StepTypes
<1>5. PassOf(net, pass')
  BY <1>1, <1>4 DEF PassOf, PassSet
<1>6. StepTypes'
  BY <1>1, <1>2, <1>3, <1>4, <1>5 DEF StepTypes
<1>7. GroupCounted'
  BY <1>1, <1>2, <1>4, GroupLength DEF GroupCounted
<1>8. CleanPadding'
  BY <1>1, <1>3 DEF CleanPadding
<1>9. ASSUME NEW param \in Params(net)
      PROVE  Reduced(grads[param] + Owed(pass', layer, "loss", ws, param))
               = Reduced(Expected(seen, param) + Tangent(pass', param))
  <2>1. Owed(pass', layer, "loss", ws, param) = Tangent(pass', param)
    BY DEF Owed
  <2>2. grads[param] = Expected(seen, param)
    BY <1>1, <1>2 DEF Balanced
  <2> QED BY <2>1, <2>2
<1>10. Balanced'
  BY <1>1, <1>3, <1>9 DEF Balanced
<1> QED BY <1>6, <1>7, <1>8, <1>10 DEF StepInv

LEMMA AccumulateInv ==
  ASSUME StepInv, NEW w \in Windows, AccumulateAll(w) \/ AccumulateLast(w)
  PROVE  StepInv'
<1>1. w \in WindowType
  BY TrainingStepAssumption
<1>2. [w EXCEPT !.padding = {}, !.blocked = {}] \in WindowType
  BY <1>1 DEF WindowType
<1>3. CASE AccumulateAll(w)
  BY <1>1, <1>3, ForwardPassInv DEF AccumulateAll
<1>4. CASE AccumulateLast(w)
  BY <1>2, <1>4, ForwardPassInv DEF AccumulateLast
<1> QED BY <1>3, <1>4

LEMMA LossInv ==
  ASSUME StepInv, Loss
  PROVE  StepInv'
<1>1. phase = "loss" /\ UNCHANGED <<net, grads, ws, pass, layer, passes, adam, steps>>
  BY DEF Loss
<1>2. StepTypes /\ GroupCounted /\ Balanced /\ PassOf(net, pass) /\ grads \in Grads(net) /\ IsScratch(ws)
  BY <1>1, PhaseSets, InvParts
<1>3. CASE \E i \in RowsOf(pass) : Supervised(pass, i)
  <2>1. phase' = "head" /\ seen' = seen
    BY <1>3 DEF Loss
  <2>2. phase' \in AtWork /\ phase' \notin Descending /\ phase' \notin FfnPhases /\ phase \in AtWork
    BY <1>1, <2>1, PhaseSets
  <2>3. StepTypes' /\ GroupCounted' /\ CleanPadding'
    BY <1>1, <1>2, <2>1, <2>2 DEF StepTypes, GroupCounted, CleanPadding
  <2>4. ASSUME NEW param \in Params(net)
        PROVE  Owed(pass, layer, "head", ws, param) = Owed(pass, layer, "loss", ws, param)
    BY DEF Owed
  <2>5. Balanced'
    BY <1>1, <1>2, <2>1, <2>2, <2>4 DEF Balanced
  <2> QED BY <2>3, <2>5 DEF StepInv
<1>4. CASE ~\E i \in RowsOf(pass) : Supervised(pass, i)
  <2>1. phase' = "idle" /\ seen' = Append(seen, pass)
    BY <1>4 DEF Loss
  <2>2. ASSUME NEW param \in Params(net)
        PROVE  Reduced(grads'[param]) = Reduced(grads[param] + Owed(pass, layer, phase, ws, param))
    <3> DEFINE t == Tangent(pass, param)
               g == grads[param]
    <3>1. Owed(pass, layer, phase, ws, param) = t
      BY <1>1 DEF Owed
    <3>2. IsPass(pass) /\ IsHeadParam(pass, param)
      BY <1>2, PassOfIs, ParamsAre
    <3>3. t \in Int /\ Reduced(t) = Reduced(0)
      BY <1>4, <3>2, NoLoss, HeadDot
    <3>4. g \in Int /\ grads'[param] = g
      BY <1>1, <1>2, GradsInt
    <3> DEFINE z == 0
    <3>8. z \in Int /\ Reduced(t) = Reduced(z)
      BY <3>3
    <3>9. t \in Int
      BY <3>3
    <3> HIDE DEF t, g, z
    <3>10. Reduced(t + g) = Reduced(z + g)
      BY <3>4, <3>8, <3>9, ReducedBeside
    <3>5. Reduced(t + g) = Reduced(0 + g)
      BY <3>10 DEF z
    <3>6. t + g = g + t /\ 0 + g = g
      BY <3>3, <3>4
    <3>7. Reduced(g) = Reduced(g + t)
      BY <3>5, <3>6
    <3> QED BY <3>1, <3>4, <3>7 DEF g
  <2>3. grads' \in Grads(net) /\ IsScratch(ws') /\ phase \in AtWork
    BY <1>1, <1>2, PhaseSets
  <2> QED BY <1>1, <2>1, <2>2, <2>3, PassSeen
<1> QED BY <1>3, <1>4

LEMMA HeadBackwardInv ==
  ASSUME StepInv, HeadBackward
  PROVE  StepInv'
<1>1. phase = "head" /\ phase' = "ffn_norm" /\ layer' = net.layers /\ UNCHANGED stepRest
  BY DEF HeadBackward
<1>2. PassOf(net, pass) /\ grads \in Grads(net) /\ IsScratch(ws)
  BY <1>1, PhaseSets, InvParts
<1>3. grads' = [param \in Params(net) |->
        Reduced(grads[param] + (CASE param[1] = HeadName(pass) -> HeadColumn(pass, param[2])
                                  [] param[1] = "output_bias" -> HeadBias(pass, param[2])
                                  [] OTHER -> 0))]
  BY DEF HeadBackward
<1>4. ws' = [ws EXCEPT !.in = Written(pass, ws.in, HeadInput(pass))]
  BY DEF HeadBackward
<1>5. net.layers \in 1..net.layers
      /\ Carried(net, pass, layer, "head", ws, grads, net.layers, "ffn_norm", ws', grads')
  BY <1>2, <1>3, <1>4, HeadStage
<1>6. StepTypes' /\ GroupCounted' /\ Balanced'
  BY <1>1, <1>5, PhaseSets, StageSteps
<1>7. CleanPadding'
  BY <1>1, PhaseSets DEF CleanPadding
<1> QED BY <1>6, <1>7 DEF StepInv

LEMMA FfnNormInv ==
  ASSUME StepInv, FfnNorm
  PROVE  StepInv'
<1> DEFINE in == RealRows(pass, ws.in)
           s == NormInput(pass, layer, FfnNames, in)
<1>1. Stage("ffn_norm", "ffn_out")
  BY DEF FfnNorm
<1>2. /\ phase = "ffn_norm" /\ phase' = "ffn_out" /\ UNCHANGED stepRest /\ layer' = layer
      /\ UNCHANGED <<net, pass, seen, passes, adam, steps>>
  BY <1>1, StageIs
<1>3. PassOf(net, pass) /\ grads \in Grads(net) /\ IsScratch(ws) /\ layer \in 1..net.layers
  BY <1>2, PhaseSets, InvParts
<1>4. grads' = NormGrads(pass, grads, layer, FfnNames, in)
  BY DEF FfnNorm
<1>5. ws' = [ws EXCEPT !.in = in, !.s2 = Copied(pass, ws.s2, s),
                       !.drop = Copied(pass, ws.drop, Dropped(pass, layer, "mask_ffn", s))]
  BY DEF FfnNorm
<1> HIDE DEF s, in
<1>6. /\ Carried(net, pass, layer, "ffn_norm", ws, grads, layer, "ffn_out", ws', grads')
      /\ PaddedZero(pass, ws'.drop) /\ PaddedZero(pass, ws'.s2)
  BY <1>3, <1>4, <1>5, FfnNormStage DEF s, in
<1>7. StepTypes' /\ GroupCounted' /\ Balanced'
  BY <1>2, <1>3, <1>6, PhaseSets, StageSteps
<1>8. CleanPadding'
  BY <1>2, <1>6, PhaseSets DEF CleanPadding
<1> QED BY <1>7, <1>8 DEF StepInv

LEMMA FfnOutInv ==
  ASSUME StepInv, FfnOut
  PROVE  StepInv'
<1>1. Stage("ffn_out", "ffn_act")
  BY DEF FfnOut
<1>2. /\ phase = "ffn_out" /\ phase' = "ffn_act" /\ UNCHANGED stepRest /\ layer' = layer
      /\ UNCHANGED <<net, pass, seen, passes, adam, steps>>
  BY <1>1, StageIs
<1>3. PassOf(net, pass) /\ grads \in Grads(net) /\ IsScratch(ws) /\ layer \in 1..net.layers
      /\ PaddedZero(pass, ws.drop) /\ PaddedZero(pass, ws.s2)
  BY <1>2, PhaseSets, InvParts DEF CleanPadding
<1>5. FfnOutWrites(pass, layer, ws, grads, ws', grads')
  BY DEF FfnOut, FfnOutWrites
<1>6. /\ Carried(net, pass, layer, "ffn_out", ws, grads, layer, "ffn_act", ws', grads')
      /\ PaddedZero(pass, ws'.hidden) /\ ws'.s2 = ws.s2
  BY <1>3, <1>5, FfnOutStage
<1>7. StepTypes' /\ GroupCounted' /\ Balanced'
  BY <1>2, <1>3, <1>6, PhaseSets, StageSteps
<1>8. CleanPadding'
  BY <1>2, <1>3, <1>6, PhaseSets DEF CleanPadding
<1> QED BY <1>7, <1>8 DEF StepInv

LEMMA FfnActivationInv ==
  ASSUME StepInv, FfnActivation
  PROVE  StepInv'
<1>1. Stage("ffn_act", "ffn_in")
  BY DEF FfnActivation
<1>2. /\ phase = "ffn_act" /\ phase' = "ffn_in" /\ UNCHANGED stepRest /\ layer' = layer
      /\ UNCHANGED <<net, pass, seen, passes, adam, steps>>
  BY <1>1, StageIs
<1>3. PassOf(net, pass) /\ grads \in Grads(net) /\ IsScratch(ws) /\ layer \in 1..net.layers
      /\ PaddedZero(pass, ws.hidden) /\ PaddedZero(pass, ws.s2)
  BY <1>2, PhaseSets, InvParts DEF CleanPadding
<1>4. grads' = grads
  BY DEF FfnActivation
<1>5. FfnActivationWrites(pass, layer, ws, ws')
  BY DEF FfnActivation, FfnActivationWrites
<1>6. /\ Carried(net, pass, layer, "ffn_act", ws, grads, layer, "ffn_in", ws', grads)
      /\ PaddedZero(pass, ws'.hidden) /\ ws'.s2 = ws.s2
      /\ Uses(pass, "SWIGLU") => PaddedZero(pass, ws'.gate)
  BY <1>3, <1>5, FfnActivationStage
<1>7. StepTypes' /\ GroupCounted' /\ Balanced'
  BY <1>2, <1>3, <1>4, <1>6, PhaseSets, StageSteps
<1>8. CleanPadding'
  BY <1>2, <1>3, <1>6, PhaseSets DEF CleanPadding
<1> QED BY <1>7, <1>8 DEF StepInv

LEMMA FfnInInv ==
  ASSUME StepInv, FfnIn
  PROVE  StepInv'
<1> DEFINE input == RealRow(pass, "x1", layer)
           first == LinearGrads(pass, grads, layer, "b_ff1", "W_ff1", input, ws.hidden)
<1>1. Stage("ffn_in", "attn_norm")
  BY DEF FfnIn
<1>2. /\ phase = "ffn_in" /\ phase' = "attn_norm" /\ UNCHANGED stepRest /\ layer' = layer
      /\ UNCHANGED <<net, pass, seen, passes, adam, steps>>
  BY <1>1, StageIs
<1>3. /\ PassOf(net, pass) /\ grads \in Grads(net) /\ IsScratch(ws) /\ layer \in 1..net.layers
      /\ PaddedZero(pass, ws.hidden) /\ PaddedZero(pass, ws.s2)
      /\ Uses(pass, "SWIGLU") => PaddedZero(pass, ws.gate)
  BY <1>2, PhaseSets, InvParts DEF CleanPadding
<1>4. grads' = IF Uses(pass, "SWIGLU")
               THEN LinearGrads(pass, first, layer, "b_ff_gate", "W_ff_gate", input, ws.gate)
               ELSE first
  BY DEF FfnIn
<1>5. ws' = [ws EXCEPT !.x1 = Written(pass, ws.x1, FfnInput(pass, layer, ws.hidden, ws.gate, ws.s2))]
  BY DEF FfnIn
<1>6. /\ Carried(net, pass, layer, "ffn_in", ws, grads, layer, "attn_norm", ws', grads')
      /\ PaddedZero(pass, ws'.x1)
  BY <1>3, <1>4, <1>5, FfnInStage
<1>7. StepTypes' /\ GroupCounted' /\ Balanced'
  BY <1>2, <1>3, <1>6, PhaseSets, StageSteps
<1>8. CleanPadding'
  BY <1>2, <1>6, PhaseSets DEF CleanPadding
<1> QED BY <1>7, <1>8 DEF StepInv

LEMMA AttnNormInv ==
  ASSUME StepInv, AttnNorm
  PROVE  StepInv'
<1> DEFINE s == NormInput(pass, layer, AttnNames, ws.x1)
<1>1. Stage("attn_norm", "attn_out")
  BY DEF AttnNorm
<1>2. /\ phase = "attn_norm" /\ phase' = "attn_out" /\ UNCHANGED stepRest /\ layer' = layer
      /\ UNCHANGED <<net, pass, seen, passes, adam, steps>>
  BY <1>1, StageIs
<1>3. /\ PassOf(net, pass) /\ grads \in Grads(net) /\ IsScratch(ws) /\ layer \in 1..net.layers
      /\ PaddedZero(pass, ws.x1)
  BY <1>2, PhaseSets, InvParts DEF CleanPadding
<1>4. grads' = NormGrads(pass, grads, layer, AttnNames, ws.x1)
  BY DEF AttnNorm
<1>5. ws' = [ws EXCEPT !.out = Copied(pass, ws.out, s),
                       !.drop = Copied(pass, ws.drop, Dropped(pass, layer, "mask_attn", s))]
  BY DEF AttnNorm
<1> HIDE DEF s
<1>6. Carried(net, pass, layer, "attn_norm", ws, grads, layer, "attn_out", ws', grads')
  BY <1>3, <1>4, <1>5, AttnNormStage DEF s
<1>7. StepTypes' /\ GroupCounted' /\ Balanced'
  BY <1>2, <1>3, <1>6, PhaseSets, StageSteps
<1>8. CleanPadding'
  BY <1>2, PhaseSets DEF CleanPadding
<1> QED BY <1>7, <1>8 DEF StepInv

LEMMA AttnOutInv ==
  ASSUME StepInv, AttnOut
  PROVE  StepInv'
<1>1. Stage("attn_out", "attn_probs")
  BY DEF AttnOut
<1>2. /\ phase = "attn_out" /\ phase' = "attn_probs" /\ UNCHANGED stepRest /\ layer' = layer
      /\ UNCHANGED <<net, pass, seen, passes, adam, steps>>
  BY <1>1, StageIs
<1>3. PassOf(net, pass) /\ grads \in Grads(net) /\ IsScratch(ws) /\ layer \in 1..net.layers
  BY <1>2, PhaseSets, InvParts
<1>4. grads' = Plus(grads, <<"W_o", layer>>,
                    Dot(pass, [i \in RowsOf(pass) |-> Concat(pass, layer, i)], ws.drop))
  BY DEF AttnOut
<1>5. ws' = [ws EXCEPT !.concat = Written(pass, ws.concat, Back(pass, "W_o", layer, ws.drop))]
  BY DEF AttnOut
<1>6. Carried(net, pass, layer, "attn_out", ws, grads, layer, "attn_probs", ws', grads')
  BY <1>3, <1>4, <1>5, AttnOutStage
<1>7. StepTypes' /\ GroupCounted' /\ Balanced'
  BY <1>2, <1>3, <1>6, PhaseSets, StageSteps
<1>8. CleanPadding'
  BY <1>2, PhaseSets DEF CleanPadding
<1> QED BY <1>7, <1>8 DEF StepInv

LEMMA AttnProbsInv ==
  ASSUME StepInv, AttnProbs
  PROVE  StepInv'
<1>1. Stage("attn_probs", "attn_heads")
  BY DEF AttnProbs
<1>2. /\ phase = "attn_probs" /\ phase' = "attn_heads" /\ UNCHANGED stepRest /\ layer' = layer
      /\ UNCHANGED <<net, pass, seen, passes, adam, steps>>
  BY <1>1, StageIs
<1>3. PassOf(net, pass) /\ grads \in Grads(net) /\ IsScratch(ws) /\ layer \in 1..net.layers
  BY <1>2, PhaseSets, InvParts
<1>4. grads' = grads
  BY DEF AttnProbs
<1>5. AttnProbsWrites(pass, layer, ws, ws')
  BY DEF AttnProbs, AttnProbsWrites
<1>6. /\ Carried(net, pass, layer, "attn_probs", ws, grads, layer, "attn_heads", ws', grads)
      /\ IsSquare(pass, ws'.scores)
  BY <1>3, <1>5, AttnProbsStage
<1>7. StepTypes' /\ GroupCounted' /\ Balanced'
  BY <1>2, <1>3, <1>4, <1>6, PhaseSets, StageSteps
<1>8. CleanPadding'
  BY <1>2, <1>6, PhaseSets DEF CleanPadding
<1> QED BY <1>7, <1>8 DEF StepInv

LEMMA AttnHeadsInv ==
  ASSUME StepInv, AttnHeads
  PROVE  StepInv'
<1>1. Stage("attn_heads", "attn_in")
  BY DEF AttnHeads
<1>2. /\ phase = "attn_heads" /\ phase' = "attn_in" /\ UNCHANGED stepRest /\ layer' = layer
      /\ UNCHANGED <<net, pass, seen, passes, adam, steps>>
  BY <1>1, StageIs
<1>3. PassOf(net, pass) /\ grads \in Grads(net) /\ IsScratch(ws) /\ layer \in 1..net.layers
      /\ IsSquare(pass, ws.scores)
  BY <1>2, PhaseSets, InvParts DEF CleanPadding
<1>4. grads' = grads
  BY DEF AttnHeads
<1>5. ws' = [ws EXCEPT !.q = RotatedBack(pass, Written(pass, ws.q, QueryBack(pass, layer, ws.scores))),
                       !.k = RotatedBack(pass, Written(pass, ws.k, KeyBack(pass, layer, ws.scores)))]
  BY DEF AttnHeads
<1>6. Carried(net, pass, layer, "attn_heads", ws, grads, layer, "attn_in", ws', grads)
  BY <1>3, <1>5, AttnHeadsStage
<1>7. StepTypes' /\ GroupCounted' /\ Balanced'
  BY <1>2, <1>3, <1>4, <1>6, PhaseSets, StageSteps
<1>8. CleanPadding'
  BY <1>2, PhaseSets DEF CleanPadding
<1> QED BY <1>7, <1>8 DEF StepInv

LEMMA AttnInInv ==
  ASSUME StepInv, AttnIn
  PROVE  StepInv'
<1> DEFINE input == RealRow(pass, "hidden", layer)
           g == Plus(Plus(Plus(grads, <<"W_q", layer>>, Dot(pass, input, ws.q)),
                          <<"W_k", layer>>, Dot(pass, input, ws.k)),
                     <<"W_v", layer>>, Dot(pass, input, ws.v))
           outs == Accumulate(pass, ws.out, AttnInput(pass, layer, ws.q, ws.k, ws.v))
<1>1. phase = "attn_in" /\ UNCHANGED <<net, pass, passes, adam, steps>>
  BY DEF AttnIn
<1>2. /\ PassOf(net, pass) /\ grads \in Grads(net) /\ IsScratch(ws) /\ layer \in 1..net.layers
      /\ phase \in AtWork
  BY <1>1, PhaseSets, InvParts
<1>3. CASE layer = 1
  <2>1. /\ grads' = ScatteredGrads(net, pass, g, outs) /\ ws' = [ws EXCEPT !.out = outs]
        /\ phase' = "idle" /\ seen' = Append(seen, pass)
    BY <1>3 DEF AttnIn, ScatteredGrads
  <2>2. /\ grads' \in Grads(net) /\ IsScratch(ws')
        /\ \A param \in Params(net) :
             Reduced(grads'[param]) = Reduced(grads[param] + Owed(pass, layer, "attn_in", ws, param))
    BY <1>2, <1>3, <2>1, FirstLayerStage
  <2> HIDE DEF g, outs
  <2> QED BY <1>1, <1>2, <2>1, <2>2, PassSeen
<1>4. CASE layer # 1
  <2>1. /\ grads' = g /\ ws' = [ws EXCEPT !.out = outs, !.in = Copied(pass, ws.in, outs)]
        /\ phase' = "ffn_norm" /\ layer' = layer - 1 /\ UNCHANGED seen
    BY <1>4 DEF AttnIn
  <2>2. layer - 1 \in 1..net.layers
        /\ Carried(net, pass, layer, "attn_in", ws, grads, layer - 1, "ffn_norm", ws', grads')
    BY <1>2, <1>4, <2>1, AttnInStage
  <2> HIDE DEF g, outs
  <2>3. UNCHANGED stepRest
    BY <1>1, <2>1 DEF stepRest
  <2>4. StepTypes' /\ GroupCounted' /\ Balanced'
    BY <1>1, <1>2, <2>1, <2>2, <2>3, PhaseSets, StageSteps
  <2>5. CleanPadding'
    BY <2>1, PhaseSets DEF CleanPadding
  <2> QED BY <2>4, <2>5 DEF StepInv
<1> QED BY <1>3, <1>4

LEMMA ZeroInv ==
  ASSUME StepInv, Zero
  PROVE  StepInv'
<1>1. /\ grads' = [param \in Params(net) |-> 0] /\ seen' = << >> /\ phase' = "idle"
      /\ UNCHANGED <<net, ws, pass, layer, passes, adam, steps>>
  BY DEF Zero, NoGrads
<1>2. StepTypes /\ net \in Nets
  BY InvParts
<1>3. phase' \notin AtWork /\ phase' \notin Descending /\ phase' \notin FfnPhases
  BY <1>1, PhaseSets
<1>4. IsGroup(net, seen') /\ grads' \in Grads(net) /\ Len(seen') = 0
      /\ \A param \in Params(net) : grads'[param] = Expected(seen', param)
  BY <1>1, <1>2, NothingSeen
<1>5. StepTypes'
  BY <1>1, <1>2, <1>3, <1>4 DEF StepTypes
<1>6. GroupCounted' /\ CleanPadding' /\ Balanced'
  BY <1>1, <1>2, <1>3, <1>4 DEF StepTypes, GroupCounted, CleanPadding, Balanced
<1> QED BY <1>5, <1>6 DEF StepInv

LEMMA ApplyInv ==
  ASSUME StepInv, NEW fault \in {"none", "moments", "decay"}, Apply(fault)
  PROVE  StepInv'
<1> DEFINE c == Content[<<"mean", 0, 0, 0, Len(seen)>>]
<1>1. /\ phase = "idle" /\ steps < MaxSteps /\ steps' \in {steps, steps + 1}
      /\ phase' \in {"applied", "failed"}
      /\ UNCHANGED <<net, ws, pass, layer, seen, passes>>
      /\ grads' = [param \in Params(net) |-> Reduced(grads[param] * c)]
  BY DEF Apply
<1>2. StepTypes /\ GroupCounted /\ grads \in Grads(net) /\ IsGroup(net, seen)
  BY InvParts
<1>3. phase' \notin AtWork /\ phase' \notin Descending /\ phase' \notin FfnPhases
      /\ phase' \notin {"idle", "attn_norm", "attn_heads", "ffn_act", "ffn_in", "ffn_out"}
  BY <1>1, PhaseSets
<1>4. c \in Int
  <2>1. Len(seen) \in 0..Most /\ 0 \in 0..Most
    BY <1>2, GroupLength, StepBounds DEF StepTypes, GroupCounted
  <2>2. "mean" \in Holders
    BY DEF Holders
  <2> QED BY <2>1, <2>2, ContentInt
<1> HIDE DEF c
<1>5. ASSUME NEW param \in Params(net)
      PROVE  grads'[param] \in 0..(Modulo - 1)
  <2> DEFINE g == grads[param]
             t == g * c
  <2>1. g \in Int
    BY <1>2, GradsInt
  <2>2. grads'[param] = Reduced(t)
    BY <1>1
  <2> HIDE DEF g
  <2>3. t \in Int
    BY <1>4, <2>1
  <2> HIDE DEF t
  <2> QED BY <2>2, <2>3, ReducedType
<1>6. grads' \in Grads(net)
  <2>1. grads' = [param \in Params(net) |-> grads'[param]]
    BY <1>1
  <2> QED BY <1>5, <2>1 DEF Grads
<1>7. steps' \in 0..MaxSteps
  BY <1>1, <1>2, StepBounds DEF StepTypes
<1>8. StepTypes'
  BY <1>1, <1>2, <1>3, <1>6, <1>7 DEF StepTypes
<1>9. GroupCounted' /\ CleanPadding' /\ Balanced'
  BY <1>1, <1>2, <1>3 DEF GroupCounted, CleanPadding, Balanced
<1> QED BY <1>8, <1>9 DEF StepInv

(* The gradients always agree with the tangents: for every architecture,   *)
(* window, mask and number a cache or a parameter may hold, what the       *)
(* backward pass accumulates in a parameter by the end of each window of a *)
(* group is the sum of the derivatives of the windows' losses              *)
(* (backward_layer_stack, model_accumulate_gradients_all_masked).          *)
THEOREM GradientAlwaysMatches == StepSpec => []GradientMatchesTangent
<1>1. StepInit => StepInv
  BY StepInitInv
<1>2. StepInv /\ [StepNext]_stepVars => StepInv'
  <2> SUFFICES ASSUME StepInv, [StepNext]_stepVars
               PROVE  StepInv'
    OBVIOUS
  <2>1. ASSUME NEW w \in Windows, AccumulateAll(w) \/ AccumulateLast(w)
        PROVE  StepInv'
    BY <2>1, AccumulateInv
  <2>2. CASE Loss
    BY <2>2, LossInv
  <2>3. CASE HeadBackward
    BY <2>3, HeadBackwardInv
  <2>4. CASE LayerBackward
    BY <2>4, FfnNormInv, FfnOutInv, FfnActivationInv, FfnInInv, AttnNormInv, AttnOutInv, AttnProbsInv,
       AttnHeadsInv, AttnInInv DEF LayerBackward
  <2>5. CASE Zero
    BY <2>5, ZeroInv
  <2>6. ASSUME NEW fault \in {"none", "moments", "decay"}, Apply(fault)
        PROVE  StepInv'
    BY <2>6, ApplyInv
  <2>7. CASE UNCHANGED stepVars
    <3>1. UNCHANGED <<net, grads, ws, pass, phase, layer, seen, passes, adam, steps>>
      BY <2>7 DEF stepVars
    <3> QED BY <3>1 DEF StepInv, StepTypes, GroupCounted, CleanPadding, Balanced
  <2> QED BY <2>1, <2>2, <2>3, <2>4, <2>5, <2>6, <2>7 DEF StepNext
<1>3. StepInv => GradientMatchesTangent
  BY DEF StepInv, Balanced, GradientMatchesTangent
<1> QED BY <1>1, <1>2, <1>3, PTL DEF StepSpec
=============================================================================
