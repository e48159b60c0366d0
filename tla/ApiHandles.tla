----------------------------- MODULE ApiHandles ------------------------------
(***************************************************************************)
(* Lifetimes in the embedding API: dranzer_bundle_load gives out a model   *)
(* and a tokenizer handle, caches and generation sessions retain what they *)
(* use, and whoever drops a reference count to zero destroys the object.   *)
(*                                                                         *)
(* A count is a plain size_t: an update is a load and a store, and calls   *)
(* of different threads may interleave between the two. Applications keep  *)
(* to the documented contract: a handle is given to one call at a time and *)
(* not after it has been freed. Exclusive restricts them further: no two   *)
(* calls at once whose handles lead to the same model or tokenizer.        *)
(***************************************************************************)
EXTENDS Integers

CONSTANTS
  Callers,      (* Threads of the application.                             *)
  Bundles,      (* Bundle loads; each yields a model and a tokenizer.      *)
  Sessions,     (* Cache and generation handles; each is used once.        *)
  Compatible,   (* <<model's bundle, tokenizer's bundle>> of equal vocab.  *)
  Exclusive     (* Does the application keep objects to one call at a time? *)

Model(b) == <<"model", b>>
Tokenizer(b) == <<"tokenizer", b>>
Objects == {"model", "tokenizer"} \X Bundles
Handles == Objects \cup Sessions

ASSUME ApiHandlesAssumption ==
  /\ Compatible \subseteq Bundles \X Bundles
  /\ Exclusive \in BOOLEAN
  /\ Sessions \cap Objects = {}

VARIABLES
  references,   (* dranzer_model.references, dranzer_tokenizer.references. *)
  state,        (* absent until loaded, live, gone once destroyed.         *)
  holds,        (* handle -> the objects whose count includes it.          *)
  open,         (* Handles given out and not given back.                   *)
  used,         (* Sessions ever created.                                  *)
  calls         (* Per caller, the reference updates its call still makes. *)

vars == <<references, state, holds, open, used, calls>>

NoCall == [op |-> "none", handle |-> "none", uses |-> {}, objects |-> {},
           todo |-> {}, reading |-> {}, count |-> 0]

Init ==
  /\ references = [o \in Objects |-> 0]
  /\ state = [o \in Objects |-> "absent"]
  /\ holds = [h \in Handles |-> {}]
  /\ open = {}
  /\ used = {}
  /\ calls = [c \in Callers |-> NoCall]

Idle(c) == calls[c].op = "none"

(* The contract: the handles a call is given are open and in no other call.*)
MayCall(c, given, objects) ==
  /\ Idle(c)
  /\ given \subseteq open
  /\ \A d \in Callers :
       /\ calls[d].uses \cap given = {}
       /\ Exclusive => calls[d].objects \cap objects = {}

Begin(c, op, handle, uses, todo) ==
  calls' = [calls EXCEPT ![c] =
    [op |-> op, handle |-> handle, uses |-> uses, objects |-> todo,
     todo |-> todo, reading |-> {}, count |-> 0]]

-----------------------------------------------------------------------------
(* The calls.                                                              *)

(* dranzer_bundle_load succeeding: two objects that nothing else refers to *)
(* yet. A load that fails frees what it built and gives out nothing.       *)
BundleLoad(c, b) ==
  LET loaded == {Model(b), Tokenizer(b)}
  IN  /\ MayCall(c, {}, {})
      /\ \A o \in loaded : state[o] = "absent"
      /\ state' = [o \in Objects |-> IF o \in loaded THEN "live" ELSE state[o]]
      /\ references' = [o \in Objects |->
                          IF o \in loaded THEN 1 ELSE references[o]]
      /\ holds' = [h \in Handles |-> IF h \in loaded THEN {h} ELSE holds[h]]
      /\ open' = open \cup loaded
      /\ UNCHANGED <<used, calls>>

(* dranzer_cache_create and dranzer_generation_create allocate first: a    *)
(* failure returns before anything is retained.                            *)
Create(c, s, retained) ==
  /\ s \notin used
  /\ MayCall(c, retained, retained)
  /\ used' = used \cup {s}
  /\ Begin(c, "create", s, retained, retained)
  /\ UNCHANGED <<references, state, holds, open>>

CacheCreate(c, s) == \E b \in Bundles : Create(c, s, {Model(b)})

GenerationCreate(c, s) ==
  \E pair \in Compatible :
    Create(c, s, {Model(pair[1]), Tokenizer(pair[2])})

(* Mutant: freeing a session leaves the tokenizer's count alone.           *)
Released_ModelOnly(h) == {o \in holds[h] : o[1] = "model"}

Released(h) == holds[h]

(* dranzer_model_free and dranzer_tokenizer_free of a loaded handle,       *)
(* dranzer_cache_free, dranzer_generation_free.                            *)
Free(c, h) ==
  /\ MayCall(c, {h}, Released(h))
  /\ open' = open \ {h}
  /\ Begin(c, "free", h, {h}, Released(h))
  /\ UNCHANGED <<references, state, holds, used>>

-----------------------------------------------------------------------------
(* The updates a call makes: the model's count before the tokenizer's.     *)

Due(c) ==
  {o \in calls[c].todo :
     o[1] = "model" \/ \A p \in calls[c].todo : p[1] = "tokenizer"}

(* The read half of references++ or --references.                          *)
ReadCount(c) ==
  /\ calls[c].reading = {}
  /\ \E o \in Due(c) :
       calls' = [calls EXCEPT ![c].reading = {o}, ![c].count = references[o]]
  /\ UNCHANGED <<references, state, holds, open, used>>

(* Mutant: a session uses the tokenizer without retaining it.              *)
Retained_ModelOnly(c, o) ==
  IF o[1] = "model" THEN calls[c].count + 1 ELSE calls[c].count

(* model_retain, tokenizer_retain                                          *)
Retained(c, o) == calls[c].count + 1

(* Mutant: the last reference but one destroys.                            *)
Destroys_Early(c) == calls[c].count - 1 <= 1

(* --references == 0                                                       *)
Destroys(c) == calls[c].count - 1 = 0

Updated(c, o) ==
  calls' = [calls EXCEPT ![c].reading = {}, ![c].todo = @ \ {o}]

StoreRetain(c) ==
  /\ calls[c].op = "create"
  /\ \E o \in calls[c].reading :
       /\ references' = [references EXCEPT ![o] = Retained(c, o)]
       /\ holds' = [holds EXCEPT ![calls[c].handle] = @ \cup {o}]
       /\ Updated(c, o)
  /\ UNCHANGED <<state, open, used>>

(* The decrement, and model_free or bpe_encoder_free when it reaches zero. *)
StoreRelease(c) ==
  /\ calls[c].op = "free"
  /\ \E o \in calls[c].reading :
       /\ references' = [references EXCEPT ![o] = calls[c].count - 1]
       /\ holds' = [holds EXCEPT ![calls[c].handle] = @ \ {o}]
       /\ state' = IF Destroys(c) THEN [state EXCEPT ![o] = "gone"] ELSE state
       /\ Updated(c, o)
  /\ UNCHANGED <<open, used>>

(* The call returns; a create gives out its handle.                        *)
Return(c) ==
  /\ ~Idle(c)
  /\ calls[c].todo = {}
  /\ open' = IF calls[c].op = "create" THEN open \cup {calls[c].handle}
             ELSE open
  /\ calls' = [calls EXCEPT ![c] = NoCall]
  /\ UNCHANGED <<references, state, holds, used>>

Next ==
  \E c \in Callers :
    \/ \E b \in Bundles : BundleLoad(c, b)
    \/ \E s \in Sessions : CacheCreate(c, s)
    \/ \E s \in Sessions : GenerationCreate(c, s)
    \/ \E h \in open : Free(c, h)
    \/ ReadCount(c)
    \/ StoreRetain(c)
    \/ StoreRelease(c)
    \/ Return(c)

Spec == Init /\ [][Next]_vars

-----------------------------------------------------------------------------
(* Properties.                                                             *)

Call ==
  [op : {"none", "create", "free"}, handle : Handles \cup {"none"},
   uses : SUBSET Handles, objects : SUBSET Objects, todo : SUBSET Objects,
   reading : SUBSET Objects, count : Nat]

(* Counts never go below zero, and only sessions and loads are handed out. *)
TypeOK ==
  /\ references \in [Objects -> Nat]
  /\ state \in [Objects -> {"absent", "live", "gone"}]
  /\ holds \in [Handles -> SUBSET Objects]
  /\ open \subseteq Handles
  /\ used \subseteq Sessions
  /\ calls \in [Callers -> Call]

(* public-api.md: "the underlying objects live until the last dependent    *)
(* handle is freed". No handle the application still has, in whatever      *)
(* order the others were freed, refers to a destroyed model or tokenizer.  *)
HeldIsLive ==
  \A h \in open : \A o \in holds[h] : state[o] = "live"

(* And not longer: with every handle given back and no call under way,     *)
(* every object that was ever loaded has been destroyed.                   *)
NothingLeaks ==
  open = {} /\ (\A c \in Callers : Idle(c)) =>
    \A o \in Objects : state[o] # "live"

Lifetime == INSTANCE Ownership

(* The counts implement ownership, step by step.                           *)
RefinesOwnership == Lifetime!Spec
=============================================================================
