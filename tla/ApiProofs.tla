------------------------------ MODULE ApiProofs ------------------------------
(***************************************************************************)
(* The embedding API. For any number of threads, bundles and sessions:     *)
(* while no two calls at once lead to the same model or tokenizer,         *)
(* reference counting implements ownership. For any tokens, prompts and    *)
(* window: whatever calls of a generation session succeed or fail, the     *)
(* next token follows the prompt and every token returned.                 *)
(***************************************************************************)
EXTENDS ApiHandles, ApiGeneration, KVCacheProofs, FiniteSetTheorems

-----------------------------------------------------------------------------
(* Handles and their counts.                                               *)

Holders(o) == {h \in Handles : o \in holds[h]}

(* A count is the number of handles that hold the object.                  *)
Counted ==
  \A o \in Objects :
    /\ IsFiniteSet(Holders(o))
    /\ references[o] = Cardinality(Holders(o))

Living == \A o \in Objects : state[o] = "live" <=> Holders(o) # {}

(* Handles that have been given out at some time.                          *)
Known == used \cup {o \in Objects : state[o] # "absent"}

(* Calls under way have no object and no handle in common.                 *)
Apart ==
  \A c, d \in Callers : c # d =>
    /\ calls[c].objects \cap calls[d].objects = {}
    /\ Idle(c) \/ Idle(d) \/ calls[c].handle # calls[d].handle

CallOK(c) ==
  /\ Idle(c) =>
       calls[c].uses = {} /\ calls[c].objects = {} /\ calls[c].todo = {}
  /\ calls[c].todo \subseteq calls[c].objects
  /\ calls[c].reading \subseteq calls[c].todo
  /\ \A o \in calls[c].reading : calls[c].count = references[o]
  /\ ~Idle(c) => calls[c].handle \in Known /\ calls[c].handle \notin open
  /\ calls[c].op = "create" =>
       /\ calls[c].handle \in Sessions
       /\ calls[c].uses \subseteq open
       /\ calls[c].objects \subseteq calls[c].uses
       /\ calls[c].todo \cap holds[calls[c].handle] = {}
  /\ calls[c].op = "free" => calls[c].todo = holds[calls[c].handle]

CallsOK == \A c \in Callers : CallOK(c)

HandlesOK ==
  /\ \A o \in Objects : holds[o] \subseteq {o}
  /\ \A o \in open \cap Objects : o \in holds[o]
  /\ open \subseteq Known
  /\ \A h \in Handles :
       \/ h \in open
       \/ holds[h] = {}
       \/ \E c \in Callers : ~Idle(c) /\ calls[c].handle = h

HandlesInv == TypeOK /\ Counted /\ Living /\ Apart /\ CallsOK /\ HandlesOK

-----------------------------------------------------------------------------
(* Facts about one state.                                                  *)

(* An object that was never loaded is held by nobody.                      *)
LEMMA AbsentIsUnheld ==
  ASSUME HandlesInv, NEW o \in Objects, state[o] = "absent", NEW h \in Handles
  PROVE  o \notin holds[h]
BY DEF HandlesInv, Living, Holders

(* What a call still has to update is live.                                *)
LEMMA TodoIsLive ==
  ASSUME HandlesInv, NEW c \in Callers, NEW o \in calls[c].todo
  PROVE  o \in Objects /\ state[o] = "live"
<1>1. /\ calls[c] \in Call /\ CallOK(c)
      /\ \A p \in Objects : state[p] = "live" <=> \E h \in Handles : p \in holds[h]
      /\ \A p \in open \cap Objects : p \in holds[p]
  BY DEF HandlesInv, TypeOK, CallsOK, Living, Holders, HandlesOK
<1>2. o \in Objects /\ o \in calls[c].objects
  BY <1>1 DEF Call, CallOK
<1>3. CASE calls[c].op = "create"
  <2>1. o \in open
    BY <1>1, <1>2, <1>3 DEF CallOK
  <2> QED BY <1>1, <1>2, <2>1 DEF Handles
<1>4. CASE calls[c].op = "free"
  <2>1. o \in holds[calls[c].handle] /\ calls[c].handle \in Known
    BY <1>1, <1>4 DEF CallOK, Idle
  <2>2. calls[c].handle \in Handles
    BY <2>1 DEF Known, Handles, HandlesInv, TypeOK
  <2> QED BY <1>1, <1>2, <2>1, <2>2
<1>5. CASE Idle(c)
  BY <1>1, <1>5 DEF CallOK
<1> QED BY <1>1, <1>3, <1>4, <1>5 DEF Call, Idle

(* What a call d relies on, if a step of another call leaves it alone.     *)
LEMMA OtherCall ==
  ASSUME TypeOK, NEW d \in Callers, CallOK(d), calls'[d] = calls[d],
         Known \subseteq Known',
         ~Idle(d) => /\ calls[d].handle \notin open'
                     /\ holds'[calls[d].handle] = holds[calls[d].handle],
         calls[d].uses \subseteq open => calls[d].uses \subseteq open',
         \A o \in calls[d].todo : references'[o] = references[o]
  PROVE  CallOK(d)'
<1>1. calls[d] \in Call
  BY DEF TypeOK
<1>2. (Idle(d) <=> Idle(d)') /\ (calls[d].op # "none" => ~Idle(d))
  BY DEF Idle
<1>3. \A o \in calls'[d].reading : calls'[d].count = references'[o]
  BY DEF CallOK
<1>4. calls[d].op = "create" =>
        /\ calls[d].handle \in Sessions
        /\ calls[d].uses \subseteq open'
        /\ calls[d].objects \subseteq calls[d].uses
        /\ calls[d].todo \cap holds'[calls[d].handle] = {}
  BY <1>2 DEF CallOK
<1>5. calls[d].op = "free" => calls[d].todo = holds'[calls[d].handle]
  BY <1>2 DEF CallOK
<1>6. ~Idle(d) => calls[d].handle \in Known' /\ calls[d].handle \notin open'
  BY DEF CallOK
<1> QED BY <1>2, <1>3, <1>4, <1>5, <1>6 DEF CallOK

-----------------------------------------------------------------------------
(* Every step preserves the invariant.                                     *)

LEMMA InitHandlesInv == Init => HandlesInv
<1> SUFFICES ASSUME Init PROVE HandlesInv
  OBVIOUS
<1>1. \A o \in Objects : Holders(o) = {}
  BY DEF Init, Holders
<1>2. TypeOK
  BY DEF Init, TypeOK, Call, NoCall
<1>3. Counted
  BY <1>1, FS_EmptySet DEF Counted, Init
<1>4. Living
  BY <1>1 DEF Living, Init
<1>5. Apart /\ CallsOK
  BY DEF Apart, CallsOK, CallOK, Init, NoCall, Idle
<1>6. HandlesOK
  BY DEF HandlesOK, Init, Handles, Known
<1> QED BY <1>2, <1>3, <1>4, <1>5, <1>6 DEF HandlesInv

LEMMA BundleLoadHandlesInv ==
  ASSUME HandlesInv, NEW c \in Callers, NEW b \in Bundles, BundleLoad(c, b)
  PROVE  HandlesInv'
<1> DEFINE loaded == {Model(b), Tokenizer(b)}
<1>1. /\ loaded \subseteq Objects /\ Objects \subseteq Handles
      /\ \A o \in loaded : state[o] = "absent"
  BY DEF BundleLoad, Model, Tokenizer, Objects, Handles
<1>2. /\ state' = [o \in Objects |-> IF o \in loaded THEN "live" ELSE state[o]]
      /\ references' = [o \in Objects |->
                          IF o \in loaded THEN 1 ELSE references[o]]
      /\ holds' = [h \in Handles |-> IF h \in loaded THEN {h} ELSE holds[h]]
      /\ open' = open \cup loaded /\ used' = used /\ calls' = calls
  BY DEF BundleLoad
<1> HIDE DEF loaded
<1>3. \A h \in Handles : holds[h] \cap loaded = {}
  BY <1>1, AbsentIsUnheld
<1>4. TypeOK'
  BY <1>1, <1>2 DEF HandlesInv, TypeOK
<1>5. \A h \in loaded : holds[h] = {}
  BY <1>1, <1>3 DEF HandlesInv, HandlesOK
<1>6. \A o \in Objects : Holders(o)' = IF o \in loaded THEN {o} ELSE Holders(o)
  <2> SUFFICES ASSUME NEW o \in Objects
               PROVE  Holders(o)' = IF o \in loaded THEN {o} ELSE Holders(o)
    OBVIOUS
  <2>1. CASE o \in loaded
    BY <1>1, <1>2, <1>3, <2>1 DEF Holders
  <2>2. CASE o \notin loaded
    BY <1>1, <1>2, <1>5, <2>2 DEF Holders
  <2> QED BY <2>1, <2>2
<1>7. Counted'
  <2>1. \A o \in Objects : IsFiniteSet({o}) /\ Cardinality({o}) = 1
    BY FS_Singleton
  <2> QED BY <1>2, <1>6, <2>1 DEF HandlesInv, Counted
<1>8. Living'
  BY <1>2, <1>6 DEF HandlesInv, Living
<1>9. Apart'
  BY <1>2 DEF HandlesInv, Apart, Idle
<1>10. /\ Known' = Known \cup loaded /\ Known \cap loaded = {}
  BY <1>1, <1>2, ApiHandlesAssumption DEF Known, HandlesInv, TypeOK
<1>11. CallsOK'
  <2> SUFFICES ASSUME NEW d \in Callers PROVE CallOK(d)'
    BY DEF CallsOK
  <2>1. TypeOK /\ CallOK(d) /\ calls'[d] = calls[d] /\ Known \subseteq Known'
    BY <1>2, <1>10 DEF HandlesInv, CallsOK
  <2>2. ~Idle(d) => /\ calls[d].handle \notin open'
                    /\ holds'[calls[d].handle] = holds[calls[d].handle]
    <3> SUFFICES ASSUME ~Idle(d)
                 PROVE  /\ calls[d].handle \notin open'
                        /\ holds'[calls[d].handle] = holds[calls[d].handle]
      OBVIOUS
    <3>1. calls[d].handle \in Known /\ calls[d].handle \notin open
      BY <2>1 DEF CallOK
    <3>2. calls[d].handle \in Handles
      BY <3>1 DEF Known, Handles, HandlesInv, TypeOK
    <3> QED BY <1>2, <1>10, <3>1, <3>2
  <2>3. calls[d].uses \subseteq open => calls[d].uses \subseteq open'
    BY <1>2
  <2>4. \A o \in calls[d].todo : references'[o] = references[o]
    BY <1>1, <1>2, TodoIsLive
  <2> QED BY <2>1, <2>2, <2>3, <2>4, OtherCall
<1>12. HandlesOK'
  <2>1. \A o \in Objects : holds'[o] \subseteq {o}
    BY <1>1, <1>2 DEF HandlesInv, HandlesOK
  <2>2. \A o \in open' \cap Objects : o \in holds'[o]
    BY <1>1, <1>2 DEF HandlesInv, HandlesOK
  <2>3. open' \subseteq Known'
    BY <1>2, <1>10 DEF HandlesInv, HandlesOK
  <2>4. ASSUME NEW h \in Handles
        PROVE  \/ h \in open' \/ holds'[h] = {}
               \/ \E d \in Callers : ~Idle(d)' /\ calls'[d].handle = h
    BY <1>2 DEF HandlesInv, HandlesOK, Idle
  <2> QED BY <2>1, <2>2, <2>3, <2>4 DEF HandlesOK
<1> QED BY <1>4, <1>7, <1>8, <1>9, <1>11, <1>12 DEF HandlesInv

(* The handle of a call is one the application was given before, so a new  *)
(* session's is not.                                                       *)
LEMMA CreateHandlesInv ==
  ASSUME HandlesInv, Exclusive, NEW c \in Callers, NEW s \in Sessions,
         NEW retained \in SUBSET Objects, Create(c, s, retained)
  PROVE  HandlesInv'
<1> DEFINE call == [op |-> "create", handle |-> s, uses |-> retained,
                    objects |-> retained, todo |-> retained,
                    reading |-> {}, count |-> 0]
<1>1. /\ calls' = [calls EXCEPT ![c] = call] /\ used' = used \cup {s}
      /\ references' = references /\ state' = state /\ holds' = holds
      /\ open' = open
      /\ s \notin used /\ Idle(c) /\ retained \subseteq open
      /\ \A d \in Callers : calls[d].objects \cap retained = {}
  BY DEF Create, Begin, MayCall
<1>2. calls'[c] = call /\ \A d \in Callers \ {c} : calls'[d] = calls[d]
  BY <1>1 DEF HandlesInv, TypeOK
<1>3. s \in Handles /\ s \notin Objects /\ Objects \subseteq Handles
  BY ApiHandlesAssumption DEF Handles
<1>4. s \notin Known /\ Known' = Known \cup {s} /\ s \notin open
  BY <1>1, <1>3 DEF Known, HandlesInv, HandlesOK
<1>5. TypeOK'
  <2>1. call \in Call
    BY <1>3 DEF Call
  <2> HIDE DEF call
  <2> QED BY <1>1, <2>1 DEF HandlesInv, TypeOK
<1>6. Counted' /\ Living'
  BY <1>1 DEF HandlesInv, Counted, Living, Holders
<1>7. \A d \in Callers \ {c} : ~Idle(d) => calls[d].handle # s
  BY <1>4 DEF HandlesInv, CallsOK, CallOK
<1>8. Apart'
  <2>1. ASSUME NEW d \in Callers \ {c}
        PROVE  /\ calls'[c].objects \cap calls'[d].objects = {}
               /\ Idle(d)' \/ calls'[c].handle # calls'[d].handle
    BY <1>1, <1>2, <1>7 DEF Idle
  <2>2. ASSUME NEW d \in Callers \ {c}, NEW e \in Callers \ {c}, d # e
        PROVE  /\ calls'[d].objects \cap calls'[e].objects = {}
               /\ Idle(d)' \/ Idle(e)' \/ calls'[d].handle # calls'[e].handle
    BY <1>2, <2>2 DEF HandlesInv, Apart, Idle
  <2> QED BY <2>1, <2>2 DEF Apart
<1>9. holds[s] = {}
  BY <1>3, <1>4 DEF HandlesInv, HandlesOK, CallsOK, CallOK
<1>10. CallsOK'
  <2> SUFFICES ASSUME NEW d \in Callers PROVE CallOK(d)'
    BY DEF CallsOK
  <2>1. CASE d = c
    BY <1>1, <1>2, <1>4, <1>9, <2>1 DEF CallOK, Idle
  <2>2. CASE d # c
    <3>1. TypeOK /\ CallOK(d) /\ calls'[d] = calls[d] /\ Known \subseteq Known'
      BY <1>2, <1>4, <2>2 DEF HandlesInv, CallsOK
    <3>2. ~Idle(d) => calls[d].handle \notin open'
      BY <1>1, <3>1 DEF CallOK
    <3> QED BY <1>1, <3>1, <3>2, OtherCall
  <2> QED BY <2>1, <2>2
<1>11. HandlesOK'
  <2>1. ASSUME NEW h \in Handles
        PROVE  \/ h \in open' \/ holds'[h] = {}
               \/ \E d \in Callers : ~Idle(d)' /\ calls'[d].handle = h
    BY <1>1, <1>2 DEF HandlesInv, HandlesOK, Idle
  <2> QED BY <1>1, <1>4, <2>1 DEF HandlesInv, HandlesOK
<1> QED BY <1>5, <1>6, <1>8, <1>10, <1>11 DEF HandlesInv

LEMMA FreeHandlesInv ==
  ASSUME HandlesInv, Exclusive, NEW c \in Callers, NEW h \in open, Free(c, h)
  PROVE  HandlesInv'
<1> DEFINE call == [op |-> "free", handle |-> h, uses |-> {h},
                    objects |-> holds[h], todo |-> holds[h],
                    reading |-> {}, count |-> 0]
<1>1. /\ calls' = [calls EXCEPT ![c] = call] /\ open' = open \ {h}
      /\ references' = references /\ state' = state /\ holds' = holds
      /\ used' = used /\ Idle(c)
      /\ \A d \in Callers : /\ calls[d].objects \cap holds[h] = {}
                            /\ h \notin calls[d].uses
  BY DEF Free, Begin, MayCall, Released
<1>2. calls'[c] = call /\ \A d \in Callers \ {c} : calls'[d] = calls[d]
  BY <1>1 DEF HandlesInv, TypeOK
<1>3. h \in Handles /\ h \in Known /\ Known' = Known
  BY <1>1 DEF Known, HandlesInv, HandlesOK, TypeOK
<1>4. TypeOK'
  <2>1. call \in Call
    BY <1>3 DEF Call, HandlesInv, TypeOK
  <2> HIDE DEF call
  <2> QED BY <1>1, <2>1 DEF HandlesInv, TypeOK
<1>5. Counted' /\ Living'
  BY <1>1 DEF HandlesInv, Counted, Living, Holders
<1>6. \A d \in Callers \ {c} : ~Idle(d) => calls[d].handle # h
  BY DEF HandlesInv, CallsOK, CallOK
<1>7. Apart'
  <2>1. ASSUME NEW d \in Callers \ {c}
        PROVE  /\ calls'[c].objects \cap calls'[d].objects = {}
               /\ Idle(d)' \/ calls'[c].handle # calls'[d].handle
    BY <1>1, <1>2, <1>6 DEF Idle
  <2>2. ASSUME NEW d \in Callers \ {c}, NEW e \in Callers \ {c}, d # e
        PROVE  /\ calls'[d].objects \cap calls'[e].objects = {}
               /\ Idle(d)' \/ Idle(e)' \/ calls'[d].handle # calls'[e].handle
    BY <1>2, <2>2 DEF HandlesInv, Apart, Idle
  <2> QED BY <2>1, <2>2 DEF Apart
<1>8. CallsOK'
  <2> SUFFICES ASSUME NEW d \in Callers PROVE CallOK(d)'
    BY DEF CallsOK
  <2>1. CASE d = c
    BY <1>1, <1>2, <1>3, <2>1 DEF CallOK, Idle
  <2>2. CASE d # c
    <3>1. TypeOK /\ CallOK(d) /\ calls'[d] = calls[d] /\ Known \subseteq Known'
      BY <1>2, <1>3, <2>2 DEF HandlesInv, CallsOK
    <3>2. ~Idle(d) => calls[d].handle \notin open'
      BY <1>1, <3>1 DEF CallOK
    <3>3. calls[d].uses \subseteq open => calls[d].uses \subseteq open'
      BY <1>1
    <3> QED BY <1>1, <3>1, <3>2, <3>3, OtherCall
  <2> QED BY <2>1, <2>2
<1>9. HandlesOK'
  <2>1. ASSUME NEW g \in Handles
        PROVE  \/ g \in open' \/ holds'[g] = {}
               \/ \E d \in Callers : ~Idle(d)' /\ calls'[d].handle = g
    <3>1. CASE g = h
      BY <1>2, <3>1 DEF Idle
    <3>2. CASE g # h
      BY <1>1, <1>2, <3>2 DEF HandlesInv, HandlesOK, Idle
    <3> QED BY <3>1, <3>2
  <2> QED BY <1>1, <1>3, <2>1 DEF HandlesInv, HandlesOK
<1> QED BY <1>4, <1>5, <1>7, <1>8, <1>9 DEF HandlesInv

LEMMA ReadCountHandlesInv ==
  ASSUME HandlesInv, NEW c \in Callers, ReadCount(c)
  PROVE  HandlesInv'
<1>1. PICK o \in Due(c) :
        calls' = [calls EXCEPT ![c].reading = {o}, ![c].count = references[o]]
  BY DEF ReadCount
<1>2. UNCHANGED <<references, state, holds, open, used>>
  BY DEF ReadCount
<1>3. /\ calls[c] \in Call
      /\ calls'[c] = [calls[c] EXCEPT !.reading = {o}, !.count = references[o]]
      /\ \A d \in Callers \ {c} : calls'[d] = calls[d]
  BY <1>1 DEF HandlesInv, TypeOK
<1>4. o \in calls[c].todo /\ o \in Objects
  BY <1>3 DEF Due, Call
<1>5. /\ calls'[c] \in Call
      /\ calls'[c].reading = {o} /\ calls'[c].count = references[o]
      /\ calls'[c].op = calls[c].op /\ calls'[c].handle = calls[c].handle
      /\ calls'[c].uses = calls[c].uses /\ calls'[c].todo = calls[c].todo
      /\ calls'[c].objects = calls[c].objects
  <2>1. references[o] \in Nat /\ {o} \in SUBSET Objects
    BY <1>4 DEF HandlesInv, TypeOK
  <2> DEFINE k == calls[c]
             u == calls'[c]
             r == {o}
             n == references[o]
  <2>2. /\ k \in Call /\ r \in SUBSET Objects /\ n \in Nat
        /\ u = [k EXCEPT !.reading = r, !.count = n]
    BY <1>3, <2>1
  <2> HIDE DEF k, u, r, n
  <2>3. /\ u \in Call /\ u.reading = r /\ u.count = n
        /\ u.op = k.op /\ u.handle = k.handle /\ u.uses = k.uses
        /\ u.objects = k.objects /\ u.todo = k.todo
    BY <2>2 DEF Call
  <2> QED BY <2>3 DEF k, u, r, n
<1>6. \A d \in Callers :
        /\ calls'[d].op = calls[d].op /\ calls'[d].handle = calls[d].handle
        /\ calls'[d].uses = calls[d].uses /\ calls'[d].todo = calls[d].todo
        /\ calls'[d].objects = calls[d].objects
  BY <1>3, <1>5
<1>7. TypeOK'
  BY <1>1, <1>2, <1>3, <1>5 DEF HandlesInv, TypeOK
<1>8. Counted' /\ Living' /\ Known' = Known
  BY <1>2 DEF HandlesInv, Counted, Living, Holders, Known
<1>9. Apart'
  BY <1>6 DEF HandlesInv, Apart, Idle
<1>10. CallsOK'
  <2> SUFFICES ASSUME NEW d \in Callers PROVE CallOK(d)'
    BY DEF CallsOK
  <2>1. CASE d = c
    BY <1>2, <1>4, <1>5, <1>6, <1>8, <2>1 DEF HandlesInv, CallsOK, CallOK, Idle
  <2>2. CASE d # c
    BY <1>2, <1>3, <1>8, <2>2 DEF HandlesInv, CallsOK, CallOK, Idle
  <2> QED BY <2>1, <2>2
<1>11. HandlesOK'
  BY <1>2, <1>6, <1>8 DEF HandlesInv, HandlesOK, Idle
<1> QED BY <1>7, <1>8, <1>9, <1>10, <1>11 DEF HandlesInv

(* What a stored update does to the call that made it.                     *)
LEMMA UpdatedCall ==
  ASSUME TypeOK, NEW c \in Callers, NEW o, Updated(c, o)
  PROVE  /\ calls' \in [Callers -> Call]
         /\ calls'[c].reading = {} /\ calls'[c].todo = calls[c].todo \ {o}
         /\ calls'[c].op = calls[c].op /\ calls'[c].handle = calls[c].handle
         /\ calls'[c].uses = calls[c].uses
         /\ calls'[c].objects = calls[c].objects
         /\ \A d \in Callers \ {c} : calls'[d] = calls[d]
<1> DEFINE k == calls[c]
           u == calls'[c]
           t == calls[c].todo \ {o}
<1>1. k \in Call /\ t \in SUBSET Objects /\ k.todo = calls[c].todo
  BY DEF TypeOK, Call
<1>2. /\ u = [k EXCEPT !.reading = {}, !.todo = t]
      /\ calls' = [calls EXCEPT ![c] = u]
      /\ calls \in [Callers -> Call]
  BY DEF TypeOK, Updated
<1> HIDE DEF k, u, t
<1>3. /\ u \in Call /\ u.reading = {} /\ u.todo = t
      /\ u.op = k.op /\ u.handle = k.handle /\ u.uses = k.uses
      /\ u.objects = k.objects
  BY <1>1, <1>2 DEF Call
<1> QED BY <1>2, <1>3 DEF k, u, t

LEMMA StoreRetainHandlesInv ==
  ASSUME HandlesInv, NEW c \in Callers, StoreRetain(c)
  PROVE  HandlesInv'
<1> DEFINE s == calls[c].handle
<1>1. PICK o \in calls[c].reading :
        /\ references' = [references EXCEPT ![o] = calls[c].count + 1]
        /\ holds' = [holds EXCEPT ![s] = @ \cup {o}]
        /\ Updated(c, o)
  BY DEF StoreRetain, Retained
<1>2. calls[c].op = "create" /\ UNCHANGED <<state, open, used>>
  BY DEF StoreRetain
<1>3. TypeOK /\ calls[c] \in Call /\ CallOK(c) /\ ~Idle(c)
  BY <1>2 DEF HandlesInv, TypeOK, CallsOK, Idle
<1>4. /\ o \in calls[c].todo /\ o \in Objects /\ state[o] = "live"
      /\ calls[c].count = references[o]
      /\ s \in Sessions /\ s \in Handles /\ s \notin Objects
      /\ o \notin holds[s]
  BY <1>2, <1>3, TodoIsLive, ApiHandlesAssumption DEF CallOK, Handles
<1> HIDE DEF s
<1>5. /\ holds' \in [Handles -> SUBSET Objects]
      /\ holds'[s] = holds[s] \cup {o}
      /\ \A h \in Handles \ {s} : holds'[h] = holds[h]
      /\ references'[o] = references[o] + 1
      /\ references' \in [Objects -> Nat]
      /\ \A p \in Objects \ {o} : references'[p] = references[p]
  BY <1>1, <1>3, <1>4 DEF TypeOK
<1>6. TypeOK' /\ Known' = Known
  BY <1>1, <1>2, <1>3, <1>5, UpdatedCall DEF TypeOK, Known
<1>7. /\ Holders(o)' = Holders(o) \cup {s} /\ s \notin Holders(o)
      /\ \A p \in Objects \ {o} : Holders(p)' = Holders(p)
  BY <1>4, <1>5 DEF Holders
<1>8. Counted'
  <2>1. IsFiniteSet(Holders(o)) /\ references[o] = Cardinality(Holders(o))
    BY <1>4 DEF HandlesInv, Counted
  <2>2. /\ IsFiniteSet(Holders(o) \cup {s})
        /\ Cardinality(Holders(o) \cup {s}) = Cardinality(Holders(o)) + 1
    BY <1>7, <2>1, FS_AddElement
  <2>3. \A p \in Objects :
          /\ IsFiniteSet(Holders(p)')
          /\ references'[p] = Cardinality(Holders(p)')
    BY <1>5, <1>7, <2>1, <2>2 DEF HandlesInv, Counted
  <2> QED BY <2>3 DEF Counted
<1>9. Living'
  BY <1>2, <1>4, <1>7 DEF HandlesInv, Living
<1>10. /\ \A d \in Callers :
            /\ calls'[d].op = calls[d].op /\ calls'[d].handle = calls[d].handle
            /\ calls'[d].objects = calls[d].objects
       /\ \A d \in Callers \ {c} : calls'[d] = calls[d]
  BY <1>1, <1>3, UpdatedCall
<1>11. Apart'
  BY <1>10 DEF HandlesInv, Apart, Idle
<1>12. CallsOK'
  <2> SUFFICES ASSUME NEW d \in Callers PROVE CallOK(d)'
    BY DEF CallsOK
  <2>1. CASE d = c
    <3>1. /\ calls'[c].reading = {} /\ calls'[c].todo = calls[c].todo \ {o}
          /\ calls'[c].op = "create" /\ calls'[c].handle = s
          /\ calls'[c].uses = calls[c].uses
          /\ calls'[c].objects = calls[c].objects
      BY <1>1, <1>2, <1>3, UpdatedCall DEF s
    <3>2. /\ calls'[c].todo \cap holds'[s] = {} /\ s \in Known' /\ s \notin open'
      BY <1>2, <1>3, <1>5, <1>6, <3>1 DEF CallOK, s
    <3> QED BY <1>2, <1>3, <1>4, <2>1, <3>1, <3>2 DEF CallOK, Idle
  <2>2. CASE d # c
    <3>1. CallOK(d) /\ calls'[d] = calls[d] /\ Known \subseteq Known'
      BY <1>6, <1>10, <2>2 DEF HandlesInv, CallsOK
    <3>2. ~Idle(d) => calls[d].handle # s
      BY <1>3, <2>2 DEF HandlesInv, Apart, s
    <3>3. ~Idle(d) => /\ calls[d].handle \notin open'
                      /\ holds'[calls[d].handle] = holds[calls[d].handle]
      <4>1. ~Idle(d) => calls[d].handle \in Handles
        BY <1>3, <3>1 DEF CallOK, Known, Handles, TypeOK
      <4> QED BY <1>2, <1>5, <3>1, <3>2, <4>1 DEF CallOK
    <3>4. \A p \in calls[d].todo : references'[p] = references[p]
      <4>1. o \notin calls[d].todo
        BY <1>3, <1>4, <2>2, <3>1 DEF HandlesInv, Apart, CallOK
      <4>2. calls[d].todo \subseteq Objects
        BY <1>3 DEF TypeOK, Call
      <4> QED BY <1>5, <4>1, <4>2
    <3> QED BY <1>2, <1>3, <3>1, <3>3, <3>4, OtherCall
  <2> QED BY <2>1, <2>2
<1>13. HandlesOK'
  <2>1. \A p \in Objects : p \in Handles /\ holds'[p] = holds[p]
    BY <1>4, <1>5 DEF Handles
  <2>2. ASSUME NEW h \in Handles
        PROVE  \/ h \in open' \/ holds'[h] = {}
               \/ \E d \in Callers : ~Idle(d)' /\ calls'[d].handle = h
    <3>1. CASE h = s
      BY <1>3, <1>10, <3>1 DEF Idle, s
    <3>2. CASE h # s
      BY <1>2, <1>5, <1>10, <3>2 DEF HandlesInv, HandlesOK, Idle
    <3> QED BY <3>1, <3>2
  <2> QED BY <1>2, <1>6, <2>1, <2>2 DEF HandlesInv, HandlesOK
<1> QED BY <1>6, <1>8, <1>9, <1>11, <1>12, <1>13 DEF HandlesInv

LEMMA StoreReleaseHandlesInv ==
  ASSUME HandlesInv, NEW c \in Callers, StoreRelease(c)
  PROVE  HandlesInv'
<1> DEFINE s == calls[c].handle
<1>1. PICK o \in calls[c].reading :
        /\ references' = [references EXCEPT ![o] = calls[c].count - 1]
        /\ holds' = [holds EXCEPT ![s] = @ \ {o}]
        /\ state' = IF calls[c].count - 1 = 0
                    THEN [state EXCEPT ![o] = "gone"] ELSE state
        /\ Updated(c, o)
  BY DEF StoreRelease, Destroys
<1>2. calls[c].op = "free" /\ UNCHANGED <<open, used>>
  BY DEF StoreRelease
<1>3. TypeOK /\ calls[c] \in Call /\ CallOK(c) /\ ~Idle(c)
  BY <1>2 DEF HandlesInv, TypeOK, CallsOK, Idle
<1>4. /\ o \in calls[c].todo /\ o \in Objects /\ state[o] = "live"
      /\ calls[c].count = references[o]
      /\ s \in Known /\ s \notin open /\ o \in holds[s]
      /\ calls[c].todo = holds[s]
  BY <1>2, <1>3, TodoIsLive DEF CallOK
<1>5. s \in Handles
  BY <1>3, <1>4 DEF Known, Handles, TypeOK
<1> HIDE DEF s
<1>6. /\ s \in Holders(o) /\ IsFiniteSet(Holders(o))
      /\ references[o] = Cardinality(Holders(o))
  BY <1>4, <1>5 DEF Holders, HandlesInv, Counted
<1>7. /\ IsFiniteSet(Holders(o) \ {s})
      /\ Cardinality(Holders(o) \ {s}) = references[o] - 1
      /\ Cardinality(Holders(o) \ {s}) \in Nat
      /\ Cardinality(Holders(o) \ {s}) = 0 <=> Holders(o) \ {s} = {}
  <2>1. /\ IsFiniteSet(Holders(o) \ {s})
        /\ Cardinality(Holders(o) \ {s}) = Cardinality(Holders(o)) - 1
    BY <1>6, FS_RemoveElement
  <2>2. /\ Cardinality(Holders(o) \ {s}) \in Nat
        /\ Cardinality(Holders(o) \ {s}) = 0 <=> Holders(o) \ {s} = {}
    BY <2>1, FS_CardinalityType, FS_EmptySet
  <2> QED BY <1>6, <2>1, <2>2
<1>8. /\ holds' \in [Handles -> SUBSET Objects]
      /\ holds'[s] = holds[s] \ {o}
      /\ \A h \in Handles \ {s} : holds'[h] = holds[h]
      /\ references'[o] = references[o] - 1
      /\ references' \in [Objects -> Nat]
      /\ \A p \in Objects \ {o} : references'[p] = references[p]
  BY <1>1, <1>3, <1>4, <1>5, <1>7 DEF TypeOK
<1>9. /\ state'[o] = IF Holders(o) \ {s} = {} THEN "gone" ELSE "live"
      /\ state' \in [Objects -> {"absent", "live", "gone"}]
      /\ \A p \in Objects \ {o} : state'[p] = state[p]
  <2>1. calls[c].count - 1 = 0 <=> Holders(o) \ {s} = {}
    BY <1>4, <1>7
  <2> QED BY <1>1, <1>3, <1>4, <2>1 DEF TypeOK
<1>10. Known' = Known
  BY <1>2, <1>4, <1>9 DEF Known
<1>11. TypeOK'
  BY <1>1, <1>2, <1>3, <1>8, <1>9, UpdatedCall DEF TypeOK
<1>12. /\ Holders(o)' = Holders(o) \ {s}
       /\ \A p \in Objects \ {o} : Holders(p)' = Holders(p)
  BY <1>4, <1>5, <1>8 DEF Holders
<1>13. Counted'
  <2>1. \A p \in Objects :
          /\ IsFiniteSet(Holders(p)')
          /\ references'[p] = Cardinality(Holders(p)')
    BY <1>7, <1>8, <1>12 DEF HandlesInv, Counted
  <2> QED BY <2>1 DEF Counted
<1>14. Living'
  BY <1>9, <1>12 DEF HandlesInv, Living
<1>15. /\ \A d \in Callers :
            /\ calls'[d].op = calls[d].op /\ calls'[d].handle = calls[d].handle
            /\ calls'[d].objects = calls[d].objects
       /\ \A d \in Callers \ {c} : calls'[d] = calls[d]
  BY <1>1, <1>3, UpdatedCall
<1>16. Apart'
  BY <1>15 DEF HandlesInv, Apart, Idle
<1>17. CallsOK'
  <2> SUFFICES ASSUME NEW d \in Callers PROVE CallOK(d)'
    BY DEF CallsOK
  <2>1. CASE d = c
    <3>1. /\ calls'[c].reading = {} /\ calls'[c].todo = calls[c].todo \ {o}
          /\ calls'[c].op = "free" /\ calls'[c].handle = s
          /\ calls'[c].objects = calls[c].objects
      BY <1>1, <1>2, <1>3, UpdatedCall DEF s
    <3>2. calls'[c].todo = holds'[s] /\ s \in Known' /\ s \notin open'
      BY <1>2, <1>4, <1>8, <1>10, <3>1
    <3> QED BY <1>3, <2>1, <3>1, <3>2 DEF CallOK, Idle
  <2>2. CASE d # c
    <3>1. CallOK(d) /\ calls'[d] = calls[d] /\ Known \subseteq Known'
      BY <1>10, <1>15, <2>2 DEF HandlesInv, CallsOK
    <3>2. ~Idle(d) => calls[d].handle # s
      BY <1>3, <2>2 DEF HandlesInv, Apart, s
    <3>3. ~Idle(d) => /\ calls[d].handle \notin open'
                      /\ holds'[calls[d].handle] = holds[calls[d].handle]
      <4>1. ~Idle(d) => calls[d].handle \in Handles
        BY <1>3, <3>1 DEF CallOK, Known, Handles, TypeOK
      <4> QED BY <1>2, <1>8, <3>1, <3>2, <4>1 DEF CallOK
    <3>4. \A p \in calls[d].todo : references'[p] = references[p]
      <4>1. o \notin calls[d].todo
        BY <1>3, <1>4, <2>2, <3>1 DEF HandlesInv, Apart, CallOK
      <4>2. calls[d].todo \subseteq Objects
        BY <1>3 DEF TypeOK, Call
      <4> QED BY <1>8, <4>1, <4>2
    <3> QED BY <1>2, <1>3, <3>1, <3>3, <3>4, OtherCall
  <2> QED BY <2>1, <2>2
<1>18. HandlesOK'
  <2>1. \A p \in Objects : holds'[p] \subseteq {p}
    BY <1>8 DEF HandlesInv, HandlesOK, Handles
  <2>2. \A p \in open' \cap Objects : p \in holds'[p]
    BY <1>2, <1>4, <1>8 DEF HandlesInv, HandlesOK, Handles
  <2>3. ASSUME NEW h \in Handles
        PROVE  \/ h \in open' \/ holds'[h] = {}
               \/ \E d \in Callers : ~Idle(d)' /\ calls'[d].handle = h
    <3>1. CASE h = s
      BY <1>3, <1>15, <3>1 DEF Idle, s
    <3>2. CASE h # s
      BY <1>2, <1>8, <1>15, <3>2 DEF HandlesInv, HandlesOK, Idle
    <3> QED BY <3>1, <3>2
  <2> QED BY <1>2, <1>10, <2>1, <2>2, <2>3 DEF HandlesInv, HandlesOK
<1> QED BY <1>11, <1>13, <1>14, <1>16, <1>17, <1>18 DEF HandlesInv

LEMMA ReturnHandlesInv ==
  ASSUME HandlesInv, NEW c \in Callers, Return(c)
  PROVE  HandlesInv'
<1> DEFINE s == calls[c].handle
<1>1. /\ calls[c].todo = {} /\ ~Idle(c)
      /\ open' = IF calls[c].op = "create" THEN open \cup {s} ELSE open
      /\ calls' = [calls EXCEPT ![c] = NoCall]
      /\ UNCHANGED <<references, state, holds, used>>
  BY DEF Return
<1>2. TypeOK /\ calls[c] \in Call /\ CallOK(c)
  BY DEF HandlesInv, TypeOK, CallsOK
<1>3. calls'[c] = NoCall /\ \A d \in Callers \ {c} : calls'[d] = calls[d]
  BY <1>1, <1>2 DEF TypeOK
<1>4. /\ s \in Known /\ Known' = Known /\ s \in Handles
      /\ calls[c].op = "create" => s \in Sessions /\ s \notin Objects
      /\ calls[c].op # "create" => holds[s] = {}
  <2>1. s \in Known /\ Known' = Known
    BY <1>1, <1>2 DEF CallOK, Known
  <2>2. s \in Handles
    BY <1>2, <2>1 DEF Known, Handles, TypeOK
  <2>3. calls[c].op = "create" => s \in Sessions /\ s \notin Objects
    BY <1>2, ApiHandlesAssumption DEF CallOK
  <2>4. calls[c].op # "create" => holds[s] = {}
    BY <1>1, <1>2 DEF CallOK, Call, Idle
  <2> QED BY <2>1, <2>2, <2>3, <2>4
<1>5. TypeOK'
  <2>1. NoCall \in Call
    BY DEF NoCall, Call
  <2> QED BY <1>1, <1>2, <1>4, <2>1 DEF TypeOK
<1>6. Counted' /\ Living'
  BY <1>1 DEF HandlesInv, Counted, Living, Holders
<1>7. Apart'
  BY <1>3 DEF HandlesInv, Apart, Idle, NoCall
<1>8. CallsOK'
  <2> SUFFICES ASSUME NEW d \in Callers PROVE CallOK(d)'
    BY DEF CallsOK
  <2>1. CASE d = c
    BY <1>3, <2>1 DEF CallOK, Idle, NoCall
  <2>2. CASE d # c
    <3>1. CallOK(d) /\ calls'[d] = calls[d] /\ Known \subseteq Known'
      BY <1>3, <1>4, <2>2 DEF HandlesInv, CallsOK
    <3>2. ~Idle(d) => calls[d].handle # s
      BY <1>1, <2>2 DEF HandlesInv, Apart
    <3>3. ~Idle(d) => calls[d].handle \notin open'
      BY <1>1, <3>1, <3>2 DEF CallOK
    <3>4. open \subseteq open'
      BY <1>1
    <3> QED BY <1>1, <1>2, <3>1, <3>3, <3>4, OtherCall
  <2> QED BY <2>1, <2>2
<1>9. HandlesOK'
  <2>1. \A o \in open' \cap Objects : o \in holds'[o]
    BY <1>1, <1>4 DEF HandlesInv, HandlesOK
  <2>2. ASSUME NEW h \in Handles
        PROVE  \/ h \in open' \/ holds'[h] = {}
               \/ \E d \in Callers : ~Idle(d)' /\ calls'[d].handle = h
    <3>1. CASE h = s
      BY <1>1, <1>4, <3>1
    <3>2. CASE h # s
      BY <1>1, <1>3, <3>2 DEF HandlesInv, HandlesOK, Idle
    <3> QED BY <3>1, <3>2
  <2> QED BY <1>1, <1>4, <2>1, <2>2 DEF HandlesInv, HandlesOK
<1> QED BY <1>5, <1>6, <1>7, <1>8, <1>9 DEF HandlesInv

LEMMA NextHandlesInv ==
  ASSUME HandlesInv, Exclusive, [Next]_vars
  PROVE  HandlesInv'
<1>1. ASSUME NEW c \in Callers, NEW b \in Bundles, BundleLoad(c, b)
      PROVE  HandlesInv'
  BY <1>1, BundleLoadHandlesInv
<1>2. ASSUME NEW c \in Callers, NEW s \in Sessions, CacheCreate(c, s)
      PROVE  HandlesInv'
  <2>1. PICK b \in Bundles : Create(c, s, {Model(b)})
    BY <1>2 DEF CacheCreate
  <2>2. {Model(b)} \in SUBSET Objects
    BY DEF Model, Objects
  <2> QED BY <2>1, <2>2, CreateHandlesInv
<1>3. ASSUME NEW c \in Callers, NEW s \in Sessions, GenerationCreate(c, s)
      PROVE  HandlesInv'
  <2>1. PICK pair \in Compatible :
          Create(c, s, {Model(pair[1]), Tokenizer(pair[2])})
    BY <1>3 DEF GenerationCreate
  <2>2. {Model(pair[1]), Tokenizer(pair[2])} \in SUBSET Objects
    BY ApiHandlesAssumption DEF Model, Tokenizer, Objects
  <2> QED BY <2>1, <2>2, CreateHandlesInv
<1>4. ASSUME NEW c \in Callers, NEW h \in open, Free(c, h) PROVE HandlesInv'
  BY <1>4, FreeHandlesInv
<1>5. ASSUME NEW c \in Callers, ReadCount(c) PROVE HandlesInv'
  BY <1>5, ReadCountHandlesInv
<1>6. ASSUME NEW c \in Callers, StoreRetain(c) PROVE HandlesInv'
  BY <1>6, StoreRetainHandlesInv
<1>7. ASSUME NEW c \in Callers, StoreRelease(c) PROVE HandlesInv'
  BY <1>7, StoreReleaseHandlesInv
<1>8. ASSUME NEW c \in Callers, Return(c) PROVE HandlesInv'
  BY <1>8, ReturnHandlesInv
<1>9. CASE UNCHANGED vars
  BY <1>9 DEF vars, HandlesInv, TypeOK, Counted, Living, Apart, CallsOK, CallOK,
              HandlesOK, Holders, Known, Idle
<1> QED BY <1>1, <1>2, <1>3, <1>4, <1>5, <1>6, <1>7, <1>8, <1>9 DEF Next

(* While no two calls share an object, the invariant holds throughout.     *)
THEOREM HandlesInvariance ==
  ASSUME Exclusive
  PROVE  Spec => []HandlesInv
<1>1. Init => HandlesInv
  BY InitHandlesInv
<1>2. HandlesInv /\ [Next]_vars => HandlesInv'
  BY NextHandlesInv
<1> QED BY <1>1, <1>2, PTL DEF Spec

LEMMA HandlesInvHeldIsLive ==
  ASSUME HandlesInv
  PROVE  HeldIsLive
<1>1. /\ open \subseteq Handles /\ holds \in [Handles -> SUBSET Objects]
      /\ \A o \in Objects : state[o] = "live" <=> \E h \in Handles : o \in holds[h]
  BY DEF HandlesInv, TypeOK, HandlesOK, Living, Holders
<1> QED BY <1>1 DEF HeldIsLive

(* public-api.md: "the underlying objects live until the last dependent    *)
(* handle is freed", for every number of threads, bundles and sessions, in *)
(* whatever order the handles are freed.                                   *)
THEOREM HandlesAreSafe ==
  ASSUME Exclusive
  PROVE  Spec => []HeldIsLive
<1>1. HandlesInv => HeldIsLive
  BY HandlesInvHeldIsLive
<1> QED BY <1>1, HandlesInvariance, PTL

LEMMA HandlesInvNothingLeaks ==
  ASSUME HandlesInv
  PROVE  NothingLeaks
<1> SUFFICES ASSUME open = {}, \A c \in Callers : Idle(c), NEW o \in Objects
             PROVE  state[o] # "live"
  BY DEF NothingLeaks
<1>1. \A h \in Handles : holds[h] = {}
  BY DEF HandlesInv, HandlesOK
<1> QED BY <1>1 DEF HandlesInv, Living, Holders

(* When every handle has been given back, everything has been destroyed.   *)
THEOREM EverythingIsDestroyed ==
  ASSUME Exclusive
  PROVE  Spec => []NothingLeaks
<1>1. HandlesInv => NothingLeaks
  BY HandlesInvNothingLeaks
<1> QED BY <1>1, HandlesInvariance, PTL

(* An object is loaded once and destroyed once.                            *)
LEMMA StateMovesForward ==
  ASSUME HandlesInv, [Next]_vars, NEW o \in Objects
  PROVE  \/ state'[o] = state[o]
         \/ state[o] = "absent" /\ state'[o] = "live"
         \/ state[o] = "live" /\ state'[o] = "gone"
<1>1. state \in [Objects -> {"absent", "live", "gone"}]
  BY DEF HandlesInv, TypeOK
<1>2. ASSUME NEW c \in Callers, NEW b \in Bundles, BundleLoad(c, b)
      PROVE  \/ state'[o] = state[o]
             \/ state[o] = "absent" /\ state'[o] = "live"
  BY <1>2 DEF BundleLoad
<1>3. ASSUME NEW c \in Callers, StoreRelease(c)
      PROVE  \/ state'[o] = state[o]
             \/ state[o] = "live" /\ state'[o] = "gone"
  <2>1. PICK p \in calls[c].reading :
          \/ state' = [state EXCEPT ![p] = "gone"]
          \/ state' = state
    BY <1>3 DEF StoreRelease
  <2>2. p \in calls[c].todo
    BY DEF HandlesInv, CallsOK, CallOK
  <2>3. state[p] = "live"
    BY <2>2, TodoIsLive
  <2> QED BY <1>1, <2>1, <2>3
<1>4. CASE \/ \E c \in Callers, s \in Sessions : CacheCreate(c, s)
           \/ \E c \in Callers, s \in Sessions : GenerationCreate(c, s)
           \/ \E c \in Callers : \E h \in open : Free(c, h)
           \/ \E c \in Callers :
                ReadCount(c) \/ StoreRetain(c) \/ Return(c)
           \/ UNCHANGED vars
  BY <1>4 DEF CacheCreate, GenerationCreate, Create, Free, ReadCount,
              StoreRetain, Return, vars
<1> QED BY <1>2, <1>3, <1>4 DEF Next

LEMMA StepIsOwnership ==
  ASSUME HandlesInv, HandlesInv', [Next]_vars
  PROVE  Lifetime!Next
<1>1. holds' \in [Handles -> SUBSET Objects]
  BY DEF HandlesInv, TypeOK
<1>2. state' \in [Objects -> {"absent", "live", "gone"}]
  BY DEF HandlesInv, TypeOK
<1>3. \A o \in Objects :
        state'[o] = "live" <=> \E h \in Handles : o \in holds'[h]
  BY DEF HandlesInv, Living, Holders
<1>4. ASSUME NEW o \in Objects
      PROVE  state'[o] = IF \E h \in Handles : o \in holds'[h] THEN "live"
                         ELSE IF state[o] = "absent" THEN "absent" ELSE "gone"
  BY <1>2, <1>3, StateMovesForward DEF HandlesInv, TypeOK
<1>5. state' = [o \in Objects |->
                  IF \E h \in Handles : o \in holds'[h] THEN "live"
                  ELSE IF state[o] = "absent" THEN "absent" ELSE "gone"]
  BY <1>2, <1>4
<1>6. \A o \in Objects : state[o] = "gone" => state'[o] = "gone"
  BY StateMovesForward
<1> QED BY <1>1, <1>5, <1>6 DEF Lifetime!Next

(* Reference counting implements ownership: an object exists exactly while *)
(* some handle holds it, and never again.                                  *)
THEOREM CountingIsOwnership ==
  ASSUME Exclusive
  PROVE  Spec => RefinesOwnership
<1>1. Init => Lifetime!Init
  BY DEF Init, Lifetime!Init
<1>2. HandlesInv /\ HandlesInv' /\ [Next]_vars => [Lifetime!Next]_<<holds, state>>
  BY StepIsOwnership
<1>3. Spec => Lifetime!Spec
  BY <1>1, <1>2, HandlesInvariance, PTL DEF Spec, Lifetime!Spec
<1> QED BY <1>3 DEF RefinesOwnership

-----------------------------------------------------------------------------
(* Generation sessions.                                                    *)

(* The first token of one sequence moves to the end of the other.          *)
LEMMA MoveHead ==
  ASSUME NEW s \in Seq(Tokens), NEW t \in Seq(Tokens), t # << >>
  PROVE  /\ Append(s, Head(t)) \o Tail(t) = s \o t
         /\ Head(t) \in Tokens /\ Tail(t) \in Seq(Tokens)
<1> DEFINE left == Append(s, Head(t)) \o Tail(t)
           right == s \o t
<1>1. Head(t) \in Tokens /\ Tail(t) \in Seq(Tokens) /\ Len(t) > 0
  OBVIOUS
<1>2. left \in Seq(Tokens) /\ right \in Seq(Tokens) /\ Len(left) = Len(right)
  BY <1>1
<1>3. ASSUME NEW i \in 1..Len(left) PROVE left[i] = right[i]
  <2>1. CASE i <= Len(s)
    BY <1>1, <2>1
  <2>2. CASE i = Len(s) + 1
    BY <1>1, <2>2
  <2>3. CASE i > Len(s) + 1
    BY <1>1, <2>3
  <2> QED BY <1>2, <2>1, <2>2, <2>3
<1> HIDE DEF left, right
<1>4. left = right
  BY <1>2, <1>3, SeqEqual
<1> QED BY <1>1, <1>4 DEF left, right

(* A concatenation of tokens.                                              *)
LEMMA ConcatFacts ==
  ASSUME NEW s \in Seq(Tokens), NEW t \in Seq(Tokens)
  PROVE  s \o t \in Seq(Tokens) /\ Len(s \o t) = Len(s) + Len(t)
  OBVIOUS

(* Nothing appended changes nothing.                                       *)
LEMMA ConcatEmpty ==
  ASSUME NEW s \in Seq(Tokens)
  PROVE  s \o << >> = s
<1>1. s \o << >> \in Seq(Tokens) /\ Len(s \o << >>) = Len(s)
  OBVIOUS
<1>2. \A i \in 1..Len(s \o << >>) : (s \o << >>)[i] = s[i]
  OBVIOUS
<1> QED BY <1>1, <1>2, SeqEqual

(* Appending to the end of a concatenation.                                *)
LEMMA AppendConcat ==
  ASSUME NEW s \in Seq(Tokens), NEW t \in Seq(Tokens), NEW e \in Tokens
  PROVE  Append(s \o t, e) = s \o Append(t, e)
<1> DEFINE left == Append(s \o t, e)
           right == s \o Append(t, e)
<1>1. left \in Seq(Tokens) /\ right \in Seq(Tokens) /\ Len(left) = Len(right)
  OBVIOUS
<1>2. ASSUME NEW i \in 1..Len(left) PROVE left[i] = right[i]
  OBVIOUS
<1> HIDE DEF left, right
<1>3. left = right
  BY <1>1, <1>2, SeqEqual
<1> QED BY <1>3 DEF left, right

(* What was fed and what is pending make up the prompt; once primed, what  *)
(* was fed is the prompt and every token returned since. A piece that was  *)
(* refused for its size is still the next.                                 *)
SessionInv ==
  /\ IInv /\ SessionTypeOK
  /\ begun \in Seq(Tokens)
  /\ ready => logits.best \in Tokens
  /\ ~NotPriming => fed \o pending = begun /\ taken = << >>
  /\ NotPriming /\ ready => fed = begun \o taken /\ logits.of = fed
  /\ last.status = "too_small" /\ NotPriming => Choosing /\ last.size = Required

(* A prepared prompt is a sequence of known tokens that fits the window.   *)
LEMMA PreparedFits ==
  ASSUME SessionInv, NEW prompt \in Prompts
  PROVE  Prepared(prompt) \in Seq(Tokens) /\ Len(Prepared(prompt)) <= capacity
<1> DEFINE available == IF special THEN capacity - 1 ELSE capacity
           retained == IF Len(prompt) < available THEN Len(prompt) ELSE available
           m == Len(prompt) - retained + 1
           tail == SubSeq(prompt, m, Len(prompt))
           bos == IF special THEN <<Bos>> ELSE << >>
<1>1. capacity \in Nat \ {0} /\ special \in BOOLEAN
  BY KVCacheAssumption DEF SessionInv, SessionTypeOK, CacheTypeOK
<1>2. prompt \in Seq(Tokens) /\ Len(prompt) \in Nat /\ Bos \in Tokens
  BY ApiGenerationAssumption
<1>3. retained \in Nat /\ retained <= available /\ retained <= Len(prompt)
  BY <1>1, <1>2
<1> HIDE DEF retained
<1>4. m \in 1..Len(prompt) + 1 /\ Len(prompt) - m + 1 = retained
  BY <1>2, <1>3
<1> HIDE DEF m
<1>5. tail \in Seq(Tokens) /\ Len(tail) = retained
  BY <1>2, <1>4
<1>6. bos \in Seq(Tokens) /\ Len(bos) = IF special THEN 1 ELSE 0
  BY <1>1, <1>2
<1> HIDE DEF tail, bos
<1>7. bos \o tail \in Seq(Tokens) /\ Len(bos \o tail) = Len(bos) + Len(tail)
  BY <1>5, <1>6, ConcatFacts
<1>8. Len(bos) + Len(tail) <= capacity
  BY <1>1, <1>3, <1>5, <1>6
<1> QED BY <1>7, <1>8 DEF Prepared, bos, tail, m, retained

(* A session just created has fed nothing.                                 *)
LEMMA InitSessionInv ==
  ASSUME SessionInit
  PROVE  SessionInv
<1>1. IInv
  BY InitIInv DEF SessionInit
<1>2. SessionTypeOK
  <2>1. CacheTypeOK /\ capacity \in Nat
    BY <1>1, KVCacheAssumption DEF IInv, CacheTypeOK
  <2>2. << >> \in Seq(Tokens) /\ Len(<< >>) = 0
    OBVIOUS
  <2>3. logits \in [best : Tokens \cup {Garbage}, of : Seq(Tokens)]
    BY <2>2 DEF SessionInit, NoLogits
  <2>4. special \in BOOLEAN /\ ready \in BOOLEAN /\ finished \in BOOLEAN
    BY DEF SessionInit
  <2>6. pending = << >> /\ begun = << >> /\ taken = << >>
    BY DEF SessionInit
  <2>7. pending \in Seq(Tokens) /\ Len(begun) <= capacity /\ taken \in Seq(Tokens)
    BY <2>1, <2>2, <2>6
  <2>5. /\ last.status \in {"ok", "invalid", "error", "too_small", "finished"}
        /\ last.size \in Nat
    BY DEF SessionInit
  <2> QED BY <2>1, <2>3, <2>4, <2>5, <2>7 DEF SessionTypeOK
<1> QED BY <1>1, <1>2 DEF SessionInit, SessionInv, NotPriming

(* The steps that leave the cache and the session alone but for their      *)
(* answer.                                                                 *)
LEMMA AnswerSessionInv ==
  ASSUME SessionInv,
         UNCHANGED <<cacheVars, special, ready, logits, pending, begun, taken>>,
         finished' \in BOOLEAN,
         last'.status \in {"ok", "invalid", "error", "too_small", "finished"},
         last'.size \in Nat,
         (last'.status = "too_small" /\ NotPriming) =>
           Choosing /\ last'.size = Required /\ finished' = finished
  PROVE  SessionInv'
<1>1. IInv'
  BY NextIInv DEF SessionInv
<1>2. /\ special' = special /\ ready' = ready /\ logits' = logits
      /\ pending' = pending /\ begun' = begun /\ taken' = taken
      /\ fed' = fed /\ capacity' = capacity
  BY DEF cacheVars
<1>3. SessionTypeOK'
  BY <1>1, <1>2 DEF SessionInv, SessionTypeOK, IInv
<1>4. NotPriming' = NotPriming
  BY <1>2 DEF NotPriming
<1>5. (last'.status = "too_small" /\ NotPriming') =>
        Choosing' /\ last'.size = Required'
  BY <1>2, <1>4 DEF Choosing, Required
<1> QED BY <1>1, <1>2, <1>3, <1>4, <1>5 DEF SessionInv

(* One forward pass, and the logits it leaves.                             *)
LEMMA ForwardLogitsFacts ==
  ASSUME SessionInv, NEW token \in Tokens, ForwardLogits(token)
  PROVE  /\ IInv'
         /\ fed' = Append(fed, token) /\ fed' \in Seq(Tokens)
         /\ logits' \in [best : Tokens, of : Seq(Tokens)] /\ logits'.of = fed'
         /\ capacity' = capacity
<1>1. ForwardToken(token) /\ IInv
  BY DEF ForwardLogits, SessionInv
<1>2. IInv'
  BY <1>1, ForwardIInv
<1>3. fed' = Append(fed, token) /\ fed' \in Seq(Tokens) /\ capacity' = capacity
  BY <1>1, <1>2 DEF ForwardToken, IInv, CacheTypeOK
<1>4. PICK best \in Candidates : logits' = [best |-> best, of |-> fed']
  BY DEF ForwardLogits
<1>5. best \in Tokens
  BY <1>4 DEF Candidates
<1> QED BY <1>2, <1>3, <1>4, <1>5

(* The window is cleared and the prepared prompt is pending.               *)
LEMMA ResetBeginsSessionInv ==
  ASSUME SessionInv, ResetBegins
  PROVE  SessionInv'
<1>1. PICK prompt \in Prompts :
        /\ Prepared(prompt) # << >>
        /\ pending' = Prepared(prompt)
        /\ begun' = Prepared(prompt)
  BY DEF ResetBegins
<1>2. /\ ResetCache /\ taken' = << >>
      /\ UNCHANGED <<special, ready, finished, logits, last>>
  BY DEF ResetBegins, ClearWindow
<1>3. IInv'
  BY <1>2, ResetIInv DEF SessionInv
<1>4. fed' = << >> /\ capacity' = capacity
  BY <1>2 DEF ResetCache
<1>5. /\ pending' \in Seq(Tokens) /\ begun' = pending' /\ pending' # << >>
      /\ Len(begun') <= capacity'
  BY <1>1, <1>4, PreparedFits
<1>6. SessionTypeOK'
  BY <1>2, <1>3, <1>5 DEF SessionInv, SessionTypeOK, IInv
<1>7. fed' \o pending' = begun'
  BY <1>4, <1>5
<1> QED BY <1>2, <1>3, <1>5, <1>6, <1>7 DEF SessionInv, NotPriming

(* The first pending token is fed.                                         *)
LEMMA PrimeSessionInv ==
  ASSUME SessionInv, Prime
  PROVE  SessionInv'
<1>1. /\ pending # << >> /\ pending \in Seq(Tokens) /\ begun \in Seq(Tokens)
      /\ fed \in Seq(Tokens) /\ fed \o pending = begun /\ taken = << >>
  BY DEF Prime, NotPriming, SessionInv, SessionTypeOK, CacheTypeOK
<1>2. /\ Head(pending) \in Tokens /\ Tail(pending) \in Seq(Tokens)
      /\ Append(fed, Head(pending)) \o Tail(pending) = begun
  BY <1>1, MoveHead
<1>3. /\ ForwardLogits(Head(pending)) /\ pending' = Tail(pending)
      /\ special' = special /\ begun' = begun /\ taken' = taken
  BY DEF Prime
<1>4. /\ IInv' /\ fed' = Append(fed, Head(pending)) /\ fed' \in Seq(Tokens)
      /\ logits' \in [best : Tokens, of : Seq(Tokens)] /\ logits'.of = fed'
      /\ capacity' = capacity
  BY <1>2, <1>3, ForwardLogitsFacts
<1>5. fed' \o pending' = begun'
  BY <1>2, <1>3, <1>4
<1>6. \/ /\ pending' = << >> /\ ready' = TRUE /\ finished' = FALSE
         /\ last' = [status |-> "ok", size |-> last.size]
      \/ pending' # << >> /\ UNCHANGED <<ready, finished, last>>
  BY DEF Prime, Answer
<1>7. SessionTypeOK'
  <2>1. CacheTypeOK' /\ special' \in BOOLEAN /\ Len(begun') <= capacity'
    BY <1>3, <1>4 DEF SessionInv, SessionTypeOK, IInv
  <2>2. (logits \in [best : Tokens \cup {Garbage}, of : Seq(Tokens)])'
    BY <1>4
  <2>3. pending' \in Seq(Tokens) /\ taken' \in Seq(Tokens)
    BY <1>1, <1>2, <1>3
  <2>4. /\ ready' \in BOOLEAN /\ finished' \in BOOLEAN
        /\ last'.status \in {"ok", "invalid", "error", "too_small", "finished"}
        /\ last'.size \in Nat
    <3>1. /\ ready \in BOOLEAN /\ finished \in BOOLEAN /\ last.size \in Nat
          /\ last.status \in {"ok", "invalid", "error", "too_small", "finished"}
      BY DEF SessionInv, SessionTypeOK
    <3>2. CASE UNCHANGED <<ready, finished, last>>
      BY <3>1, <3>2
    <3>3. CASE /\ ready' = TRUE /\ finished' = FALSE
               /\ last' = [status |-> "ok", size |-> last.size]
      <4>1. last'.status = "ok" /\ last'.size = last.size
        BY <3>3
      <4>2. ready' \in BOOLEAN /\ finished' \in BOOLEAN
        BY <3>3
      <4> QED BY <3>1, <4>1, <4>2
    <3> QED BY <1>6, <3>2, <3>3
  <2> QED BY <2>1, <2>2, <2>3, <2>4 DEF SessionTypeOK
<1>8. pending' = << >> => fed' = begun' \o taken'
  <2>1. taken' = << >> /\ begun' \in Seq(Tokens)
    BY <1>1, <1>3
  <2>2. begun' \o << >> = begun' /\ fed' \o << >> = fed'
    BY <1>4, <2>1, ConcatEmpty
  <2> QED BY <1>5, <2>1, <2>2
<1>9. logits'.best \in Tokens
  BY <1>4
<1>10. begun' \in Seq(Tokens) /\ taken' = << >>
  BY <1>1, <1>3
<1>11. /\ last'.status = "too_small" => pending' # << >>
       /\ logits'.of = fed'
  BY <1>4, <1>6
<1> QED BY <1>4, <1>5, <1>7, <1>8, <1>9, <1>10, <1>11 DEF SessionInv, NotPriming

(* A returned token is fed back.                                           *)
LEMMA ReturnTokenSessionInv ==
  ASSUME SessionInv, NEW room \in Rooms, ReturnToken(room)
  PROVE  SessionInv'
<1>1. /\ pending = << >> /\ ready /\ ~finished
      /\ logits.best \in Tokens /\ fed = begun \o taken
      /\ begun \in Seq(Tokens) /\ taken \in Seq(Tokens)
  BY DEF ReturnToken, Choosing, NotPriming, SessionInv, SessionTypeOK
<1>2. UNCHANGED <<special, ready, finished, pending, begun>>
  BY DEF ReturnToken
<1>3. Required \in Nat
  BY <1>1, ApiGenerationAssumption DEF Required
<1>4. CASE ~CanForward /\ Answer("invalid", Required)
           /\ UNCHANGED <<cacheVars, logits, taken>>
  BY <1>2, <1>3, <1>4, AnswerSessionInv DEF Answer, SessionInv, SessionTypeOK
<1>5. CASE /\ ForwardLogits(logits.best)
           /\ taken' = Append(taken, logits.best)
           /\ Answer("ok", Required)
  <2>1. /\ IInv' /\ fed' = Append(fed, logits.best) /\ fed' \in Seq(Tokens)
        /\ logits' \in [best : Tokens, of : Seq(Tokens)] /\ logits'.of = fed'
        /\ capacity' = capacity
    BY <1>1, <1>5, ForwardLogitsFacts
  <2>2. fed' = begun' \o taken' /\ taken' \in Seq(Tokens)
    <3>1. Append(begun \o taken, logits.best) = begun \o Append(taken, logits.best)
      BY <1>1, AppendConcat
    <3>2. Append(taken, logits.best) \in Seq(Tokens)
      BY <1>1
    <3> QED BY <1>1, <1>2, <1>5, <2>1, <3>1, <3>2
  <2>3. last'.status = "ok" /\ last'.size \in Nat
    BY <1>3, <1>5 DEF Answer
  <2>4. SessionTypeOK'
    BY <1>2, <2>1, <2>2, <2>3 DEF SessionInv, SessionTypeOK, IInv
  <2>5. logits'.best \in Tokens
    BY <2>1
  <2> QED
    BY <1>1, <1>2, <2>1, <2>2, <2>3, <2>4, <2>5 DEF SessionInv, NotPriming
<1> QED BY <1>4, <1>5 DEF ReturnToken

(* A call that returns no token.                                           *)
LEMMA NoTokenSessionInv ==
  ASSUME SessionInv,
         ResetFails \/ NotReady \/ AlreadyFinished
           \/ \E room \in Rooms : TooSmall(room) \/ ReturnEos(room)
  PROVE  SessionInv'
<1> USE DEF Answer
<1>1. finished \in BOOLEAN /\ last.size \in Nat
  BY DEF SessionInv, SessionTypeOK
<1>2. CASE ResetFails
  BY <1>1, <1>2, AnswerSessionInv DEF ResetFails
<1>3. CASE NotReady
  BY <1>1, <1>3, AnswerSessionInv DEF NotReady
<1>4. CASE AlreadyFinished
  BY <1>1, <1>4, AnswerSessionInv DEF AlreadyFinished
<1>5. ASSUME Choosing
      PROVE  Required \in Nat
  BY <1>5, ApiGenerationAssumption DEF Choosing, SessionInv, Required
<1>6. ASSUME NEW room \in Rooms, TooSmall(room)
      PROVE  SessionInv'
  BY <1>1, <1>5, <1>6, AnswerSessionInv DEF TooSmall, Untaken
<1>7. ASSUME NEW room \in Rooms, ReturnEos(room)
      PROVE  SessionInv'
  BY <1>1, <1>5, <1>7, AnswerSessionInv DEF ReturnEos
<1> QED BY <1>2, <1>3, <1>4, <1>6, <1>7

(* Every call keeps the invariant.                                         *)
LEMMA NextSessionInv ==
  ASSUME SessionInv, [SessionNext]_sessionVars
  PROVE  SessionInv'
<1>1. CASE UNCHANGED sessionVars
  BY <1>1, AnswerSessionInv DEF sessionVars, session, SessionInv, SessionTypeOK
<1>2. CASE SessionNext
  BY <1>2, ResetBeginsSessionInv, PrimeSessionInv, NoTokenSessionInv,
     ReturnTokenSessionInv DEF SessionNext, NextGreedy
<1> QED BY <1>1, <1>2

(* The invariant of a session, for any tokens, prompts, pieces, windows and*)
(* room in the caller's buffer.                                            *)
THEOREM SessionInvariance == SessionSpec => []SessionInv
<1>1. SessionInit => SessionInv
  BY InitSessionInv
<1>2. SessionInv /\ [SessionNext]_sessionVars => SessionInv'
  BY NextSessionInv
<1> QED BY <1>1, <1>2, PTL DEF SessionSpec

(* public-api.md: a short buffer returns "without consuming the token".    *)
(* Whatever calls succeeded or failed before, the next token is chosen from*)
(* logits of the prompt and of every token returned since, each once.      *)
THEOREM SessionsSeeSequence == SessionSpec => []SessionSeesWholeSequence
<1>1. SessionInv => SessionSeesWholeSequence
  BY DEF SessionInv, IInv, SessionSeesWholeSequence, Choosing
<1> QED BY <1>1, SessionInvariance, PTL

(* Priming is never refused: a prepared prompt fits a window just cleared. *)
THEOREM PrimingIsNeverRefused == SessionSpec => [](pending # << >> => CanForward)
<1>1. ASSUME SessionInv, pending # << >>
      PROVE  CanForward
  <2>1. /\ fed \in Seq(Tokens) /\ pending \in Seq(Tokens) /\ fed \o pending = begun
        /\ Len(begun) <= capacity /\ capacity \in Nat /\ capacity <= SizeMax
        /\ Len(fed) = total_tokens /\ length <= capacity
    BY <1>1, KVCacheAssumption, ApiGenerationAssumption
       DEF SessionInv, NotPriming, SessionTypeOK, IInv, CacheTypeOK
  <2>2. Len(fed) + Len(pending) = Len(begun) /\ Len(pending) > 0
    BY <1>1, <2>1
  <2>3. total_tokens < SizeMax
    BY <2>1, <2>2, KVCacheAssumption
  <2> QED BY <2>1, <2>3 DEF CanForward
<1>2. SessionInv => (pending # << >> => CanForward)
  BY <1>1
<1> QED BY <1>2, SessionInvariance, PTL

(* public-api.md: a caller told the size of a piece can retry, and gets    *)
(* that piece, unless it starts another sequence.                          *)
THEOREM RetryGivesThePiece == SessionSpec => RetryReturnsThePiece
<1> DEFINE Retry == /\ last.status = "too_small"
                    /\ last'.status \in {"ok", "finished"}
                    /\ begun' = begun
                    => last'.size = last.size
<1>1. ASSUME SessionInv, SessionNext
      PROVE  Retry
  <2> SUFFICES ASSUME last.status = "too_small", last'.status \in {"ok", "finished"}
               PROVE  last'.size = last.size
    OBVIOUS
  <2>1. NotPriming => Choosing /\ last.size = Required
    BY <1>1 DEF SessionInv
  <2>2. CASE ResetFails \/ NotReady \/ \E room \in Rooms : TooSmall(room)
    BY <2>2 DEF ResetFails, NotReady, TooSmall, Answer
  <2>3. CASE ResetBegins
    BY <2>3 DEF ResetBegins
  <2>4. CASE Prime
    BY <2>4 DEF Prime, Answer
  <2>5. CASE AlreadyFinished
    BY <2>1, <2>5 DEF AlreadyFinished, Choosing
  <2>6. ASSUME NEW room \in Rooms, ReturnEos(room) \/ ReturnToken(room)
        PROVE  last'.size = last.size
    BY <2>1, <2>6 DEF ReturnEos, ReturnToken, Choosing, Answer
  <2> QED BY <1>1, <2>2, <2>3, <2>4, <2>5, <2>6 DEF SessionNext, NextGreedy
<1>2. SessionInv /\ [SessionNext]_sessionVars => [Retry]_sessionVars
  BY <1>1
<1>3. SessionSpec => [][Retry]_sessionVars
  BY <1>2, SessionInvariance, PTL DEF SessionSpec
<1> QED BY <1>3 DEF RetryReturnsThePiece
=============================================================================
