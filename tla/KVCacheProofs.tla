---------------------------- MODULE KVCacheProofs ----------------------------
(***************************************************************************)
(* The ring of the key/value cache, for every capacity, token set and      *)
(* length of sequence: forward passes attend to the newest tokens that     *)
(* fit, and the ring implements the sliding window.                        *)
(***************************************************************************)
EXTENDS KVCache, SequenceTheorems, Arithmetic

(* What the cache holds for the i-th token of the sequence.                *)
RowOf(i) == [token |-> fed[i], position |-> i - 1]

(* Logical row j of the ring is the row of one of the newest tokens.       *)
RingHolds ==
  \A j \in 1..length :
    slots[Physical(start, j - 1)] = RowOf(total_tokens - length + j)

(* The inductive invariant: until the ring is full nothing is evicted and  *)
(* the start stays at 0, afterwards it holds the last capacity tokens.     *)
IInv ==
  /\ CacheTypeOK
  /\ Len(fed) = total_tokens
  /\ length = IF total_tokens < capacity THEN total_tokens ELSE capacity
  /\ length < capacity => start = 0
  /\ RingHolds
  /\ AttentionSeesNewestTokens

(* A physical index is inside the ring.                                    *)
LEMMA PhysicalInRing ==
  ASSUME capacity \in Nat \ {0},
         NEW s \in 0..capacity - 1, NEW j \in 0..capacity
  PROVE  Physical(s, j) \in 0..capacity - 1
  BY DivMod, s + j \in Nat DEF Physical

(* A physical index without the remainder.                                 *)
LEMMA PhysicalIndex ==
  ASSUME capacity \in Nat \ {0},
         NEW s \in 0..capacity - 1, NEW j \in 0..capacity
  PROVE  Physical(s, j) = IF s + j < capacity THEN s + j ELSE s + j - capacity
<1>1. CASE s + j < capacity
  BY <1>1, ModSmall, s + j \in 0..capacity - 1 DEF Physical
<1>2. CASE s + j >= capacity
  <2>1. s + j \in capacity..2 * capacity - 1
    BY <1>2
  <2>2. (s + j) % capacity = s + j - capacity
    BY <2>1, ModWrap
  <2> QED BY <1>2, <2>2 DEF Physical
<1> QED BY <1>1, <1>2

LEMMA InitIInv == KVInit => IInv
<1> SUFFICES ASSUME KVInit PROVE IInv
  OBVIOUS
<1> USE DEF KVInit
<1>1. capacity \in Nat \ {0}
  BY KVCacheAssumption
<1>2. CacheTypeOK
  BY <1>1, KVCacheAssumption DEF CacheTypeOK
<1>3. AttentionSeesNewestTokens
  BY <1>1 DEF AttentionSeesNewestTokens
<1> QED BY <1>1, <1>2, <1>3 DEF IInv, RingHolds

(* A reset empties the sequence; the stale rows are out of the ring.       *)
LEMMA ResetIInv == IInv /\ ResetCache => IInv'
<1> SUFFICES ASSUME IInv, ResetCache PROVE IInv'
  OBVIOUS
<1> USE DEF ResetCache
<1>1. capacity \in Nat \ {0}
  BY KVCacheAssumption DEF IInv, CacheTypeOK
<1>2. CacheTypeOK'
  BY <1>1, KVCacheAssumption DEF IInv, CacheTypeOK
<1>3. AttentionSeesNewestTokens'
  BY <1>1 DEF AttentionSeesNewestTokens
<1> QED BY <1>1, <1>2, <1>3 DEF IInv, RingHolds

(* What one forward pass finds and assigns.                                *)
Passed(token) ==
  /\ capacity \in Nat \ {0} /\ capacity' = capacity
  /\ start \in 0..capacity - 1
  /\ length \in 0..capacity
  /\ total_tokens \in Nat /\ total_tokens' = total_tokens + 1
  /\ fed \in Seq(Tokens) /\ fed' = Append(fed, token)
  /\ Len(fed) = total_tokens
  /\ fed'[total_tokens + 1] = token
  /\ \A i \in 1..total_tokens : fed'[i] = fed[i]
  /\ length = IF total_tokens < capacity THEN total_tokens ELSE capacity
  /\ length < capacity => start = 0
  /\ slots \in [0..capacity - 1 -> Row \cup {Garbage}]
  /\ slots' = [slots EXCEPT ![Slot] =
                 [token |-> token, position |-> total_tokens]]
  /\ start' = NextStart
  /\ length' = ContextLength

LEMMA ForwardFacts ==
  ASSUME IInv, NEW token \in Tokens, ForwardToken(token)
  PROVE  Passed(token)
<1>1. capacity \in Nat \ {0}
  BY KVCacheAssumption DEF IInv, CacheTypeOK
<1>2. fed \in Seq(Tokens) /\ Len(fed) = total_tokens /\ fed' = Append(fed, token)
  BY DEF IInv, CacheTypeOK, ForwardToken
<1>3. fed'[total_tokens + 1] = token /\ \A i \in 1..total_tokens : fed'[i] = fed[i]
  BY <1>2
<1> QED
  BY <1>1, <1>2, <1>3 DEF Passed, IInv, CacheTypeOK, ForwardToken,
     AbsolutePosition, ContextLength, Full

(* While the ring fills, the pass adds a row behind the others.            *)
LEMMA ForwardFilling ==
  ASSUME IInv, NEW token \in Tokens, ForwardToken(token), length < capacity
  PROVE  /\ length' = length + 1
         /\ start' = 0
         /\ \A j \in 1..length' :
              slots'[Physical(start', j - 1)]
                = [token |-> fed'[j], position |-> j - 1]
<1>1. /\ capacity \in Nat \ {0} /\ length \in 0..capacity - 1
      /\ total_tokens = length /\ start = 0
  BY ForwardFacts DEF Passed
<1>2. /\ slots \in [0..capacity - 1 -> Row \cup {Garbage}]
      /\ slots' = [slots EXCEPT ![Slot] =
                     [token |-> token, position |-> total_tokens]]
      /\ fed'[length + 1] = token
      /\ \A i \in 1..length : fed'[i] = fed[i]
  BY <1>1, ForwardFacts DEF Passed
<1>3. \A j \in 0..length : Physical(0, j) = j
  BY <1>1, PhysicalIndex
<1>4. Slot = length /\ start' = 0 /\ length' = length + 1
  <2>1. start' = NextStart /\ length' = ContextLength
    BY ForwardFacts DEF Passed
  <2>2. ~Full /\ Physical(0, length) = length
    BY <1>1, <1>3 DEF Full
  <2> QED BY <2>1, <2>2, <1>1 DEF Slot, NextStart, ContextLength
<1>5. ASSUME NEW j \in 1..length + 1
      PROVE  slots'[j - 1] = [token |-> fed'[j], position |-> j - 1]
  <2>1. CASE j = length + 1
    BY <2>1, <1>1, <1>2, <1>4
  <2>2. CASE j \in 1..length
    <3>1. slots[Physical(0, j - 1)] = RowOf(j)
      <4>1. slots[Physical(start, j - 1)] = RowOf(total_tokens - length + j)
        BY <2>2 DEF IInv, RingHolds
      <4>2. total_tokens - length + j = j
        BY <2>2, <1>1
      <4> QED BY <4>1, <4>2, <1>1
    <3>2. slots[j - 1] = [token |-> fed[j], position |-> j - 1]
      BY <3>1, <2>2, <1>1, <1>3 DEF RowOf
    <3>3. slots'[j - 1] = slots[j - 1]
      BY <2>2, <1>1, <1>2, <1>4
    <3> QED BY <3>2, <3>3, <2>2, <1>2
  <2> QED BY <2>1, <2>2, <1>1
<1>6. ASSUME NEW j \in 1..length'
      PROVE  slots'[Physical(start', j - 1)]
               = [token |-> fed'[j], position |-> j - 1]
  <2>1. j \in 1..length + 1 /\ j - 1 \in 0..length
    BY <1>1, <1>4
  <2>2. Physical(start', j - 1) = j - 1
    BY <2>1, <1>3, <1>4
  <2> QED BY <2>1, <2>2, <1>5
<1> QED BY <1>4, <1>6

(* Once it is full, the pass overwrites the oldest row and moves on.       *)
LEMMA ForwardEvicting ==
  ASSUME IInv, NEW token \in Tokens, ForwardToken(token), length = capacity
  PROVE  /\ length' = capacity
         /\ start' \in 0..capacity - 1
         /\ \A j \in 1..length' :
              slots'[Physical(start', j - 1)]
                = [token |-> fed'[total_tokens + 1 - capacity + j],
                   position |-> total_tokens - capacity + j]
<1>1. /\ capacity \in Nat \ {0} /\ start \in 0..capacity - 1
      /\ total_tokens \in Nat /\ total_tokens >= capacity
  <2>1. /\ capacity \in Nat \ {0} /\ start \in 0..capacity - 1
        /\ total_tokens \in Nat
        /\ length = IF total_tokens < capacity THEN total_tokens ELSE capacity
    BY ForwardFacts DEF Passed
  <2> QED BY <2>1
<1>2. Slot = start /\ start' = Physical(start, 1) /\ length' = capacity
  <2>1. start' = NextStart /\ length' = ContextLength
    BY ForwardFacts DEF Passed
  <2>2. Full
    BY DEF Full
  <2> QED BY <2>1, <2>2 DEF Slot, NextStart, ContextLength
<1>3. /\ slots \in [0..capacity - 1 -> Row \cup {Garbage}]
      /\ slots' = [slots EXCEPT ![start] =
                     [token |-> token, position |-> total_tokens]]
      /\ fed'[total_tokens + 1] = token
      /\ \A i \in 1..total_tokens : fed'[i] = fed[i]
  BY <1>2, ForwardFacts DEF Passed
<1>4. start' = IF start + 1 < capacity THEN start + 1 ELSE 0
  <2>1. 1 \in 0..capacity
    BY <1>1
  <2>2. Physical(start, 1)
          = IF start + 1 < capacity THEN start + 1 ELSE start + 1 - capacity
    BY <1>1, <2>1, PhysicalIndex
  <2> QED BY <1>1, <1>2, <2>2
<1>5. start' \in 0..capacity - 1
  BY <1>1, <1>4
<1>6. ASSUME NEW j \in 1..capacity
      PROVE  slots'[Physical(start', j - 1)]
               = [token |-> fed'[total_tokens + 1 - capacity + j],
                  position |-> total_tokens - capacity + j]
  <2>1. Physical(start', j - 1)
          = IF start' + (j - 1) < capacity THEN start' + (j - 1)
            ELSE start' + (j - 1) - capacity
    BY <1>1, <1>5, PhysicalIndex, j - 1 \in 0..capacity
  <2>2. CASE j = capacity
    <3>1. Physical(start', j - 1) = start
      BY <2>1, <2>2, <1>1, <1>4
    <3>2. /\ total_tokens + 1 - capacity + j = total_tokens + 1
          /\ total_tokens - capacity + j = total_tokens
      BY <2>2, <1>1
    <3> QED BY <3>1, <3>2, <1>1, <1>3
  <2>3. CASE j \in 1..capacity - 1
    <3>1. Physical(start, j)
            = IF start + j < capacity THEN start + j ELSE start + j - capacity
      BY <2>3, <1>1, PhysicalIndex
    <3>2. /\ Physical(start', j - 1) = Physical(start, j)
          /\ Physical(start, j) # start
          /\ Physical(start, j) \in 0..capacity - 1
      BY <3>1, <2>1, <2>3, <1>1, <1>4
    <3>3. /\ j + 1 \in 1..length
          /\ (j + 1) - 1 = j
          /\ total_tokens - length + (j + 1) = total_tokens + 1 - capacity + j
          /\ total_tokens + 1 - capacity + j \in 1..total_tokens
          /\ (total_tokens + 1 - capacity + j) - 1 = total_tokens - capacity + j
      BY <2>3, <1>1
    <3>4. slots[Physical(start, (j + 1) - 1)]
            = RowOf(total_tokens - length + (j + 1))
      BY <3>3 DEF IInv, RingHolds
    <3>5. slots[Physical(start, j)]
            = [token |-> fed[total_tokens + 1 - capacity + j],
               position |-> total_tokens - capacity + j]
      BY <3>3, <3>4 DEF RowOf
    <3>6. slots'[Physical(start, j)] = slots[Physical(start, j)]
      BY <3>2, <1>3
    <3> QED BY <3>2, <3>3, <3>5, <3>6, <1>3
  <2> QED BY <2>2, <2>3, <1>1
<1> QED BY <1>2, <1>5, <1>6

(* A forward pass keeps the invariant, and attends to the ring it leaves.  *)
LEMMA ForwardIInv ==
  ASSUME IInv, NEW token \in Tokens, ForwardToken(token)
  PROVE  IInv'
<1>1. /\ capacity \in Nat \ {0} /\ capacity' = capacity
      /\ length \in 0..capacity
      /\ total_tokens \in Nat /\ total_tokens' = total_tokens + 1
      /\ length = IF total_tokens < capacity THEN total_tokens ELSE capacity
      /\ fed' = Append(fed, token) /\ fed \in Seq(Tokens)
      /\ Len(fed) = total_tokens
      /\ slots \in [0..capacity - 1 -> Row \cup {Garbage}]
      /\ start' \in 0..capacity - 1
  BY ForwardFacts, ForwardFilling, ForwardEvicting DEF Passed
<1>2. /\ length' \in 1..capacity
      /\ length' = IF total_tokens' < capacity THEN total_tokens' ELSE capacity
      /\ length' < capacity => start' = 0
  <2>1. CASE length < capacity
    BY <2>1, <1>1, ForwardFilling
  <2>2. CASE length = capacity
    BY <2>2, <1>1, ForwardEvicting
  <2> QED BY <2>1, <2>2, <1>1
<1>3. ASSUME NEW j \in 1..length'
      PROVE  slots'[Physical(start', j - 1)]
               = [token |-> fed'[total_tokens' - length' + j],
                  position |-> total_tokens' - length' + j - 1]
  <2>1. CASE length < capacity
    <3>1. /\ total_tokens' - length' + j = j
          /\ total_tokens' - length' + j - 1 = j - 1
      BY <2>1, <1>1, <1>2
    <3> QED BY <2>1, <3>1, ForwardFilling
  <2>2. CASE length = capacity
    <3>1. /\ total_tokens' - length' + j = total_tokens + 1 - capacity + j
          /\ total_tokens' - length' + j - 1 = total_tokens - capacity + j
      BY <2>2, <1>1, <1>2
    <3> QED BY <2>2, <3>1, ForwardEvicting
  <2> QED BY <2>1, <2>2, <1>1
<1>4. capacity' = capacity
  BY <1>1
<1>5. RingHolds'
  <2>1. \A j \in 1..length' :
          slots'[(start' + (j - 1)) % capacity']
            = [token |-> fed'[total_tokens' - length' + j],
               position |-> total_tokens' - length' + j - 1]
    BY <1>3, <1>4 DEF Physical
  <2>2. total_tokens' \in Nat /\ length' \in Nat
    BY <1>1, <1>2
  <2> QED BY <2>1, <2>2 DEF RingHolds, Physical, RowOf
<1>6. attended' = [j \in 1..length' |-> slots'[Physical(start', j - 1)]]
  <2>1. attended' = RowsFrom(slots', start', ContextLength)
    BY DEF ForwardToken
  <2>2. length' = ContextLength
    BY ForwardFacts DEF Passed
  <2> QED BY <2>1, <2>2 DEF RowsFrom
<1>7. fed' \in Seq(Tokens)
  <2>1. fed' = Append(fed, token) /\ fed \in Seq(Tokens)
    BY <1>1
  <2> QED BY <2>1
<1>8. Len(fed') = total_tokens'
  <2>1. fed' = Append(fed, token) /\ fed \in Seq(Tokens)
    BY <1>1
  <2>2. Len(fed') = Len(fed) + 1
    BY <2>1
  <2>3. Len(fed) = total_tokens /\ total_tokens' = total_tokens + 1
    BY <1>1
  <2> QED BY <2>2, <2>3
<1>9. slots' \in [0..capacity - 1 -> Row \cup {Garbage}]
  <2>1. [token |-> token, position |-> total_tokens] \in Row
    BY <1>1 DEF Row
  <2>2. slots' = [slots EXCEPT ![Slot] =
                    [token |-> token, position |-> total_tokens]]
    BY ForwardFacts DEF Passed
  <2> QED BY <2>1, <2>2, <1>1
<1>10. attended' \in Seq(Row \cup {Garbage})
  <2>1. ASSUME NEW j \in 1..length'
        PROVE  slots'[Physical(start', j - 1)] \in Row \cup {Garbage}
    <3>1. j - 1 \in 0..capacity
      BY <1>1, <1>2
    <3>2. Physical(start', j - 1) \in 0..capacity - 1
      BY <3>1, <1>1, PhysicalInRing
    <3> QED BY <3>2, <1>9
  <2>2. length' \in Nat
    BY <1>1, <1>2
  <2> QED BY <2>1, <2>2, <1>6
<1>11. Len(attended') = length'
  BY <1>1, <1>2, <1>6
<1>12. CacheTypeOK'
  <2>1. total_tokens' \in 0..SizeMax
    BY KVCacheAssumption DEF IInv, CacheTypeOK, ForwardToken, CanForward
  <2>2. capacity' \in Capacities
    BY <1>4 DEF IInv, CacheTypeOK
  <2> QED BY <2>1, <2>2, <1>1, <1>2, <1>7, <1>9, <1>10 DEF CacheTypeOK, Row
<1>13. AttentionSeesNewestTokens'
  BY <1>2, <1>3, <1>4, <1>6, <1>8, <1>11 DEF AttentionSeesNewestTokens
<1> QED BY <1>2, <1>4, <1>5, <1>8, <1>12, <1>13 DEF IInv

LEMMA NextIInv == IInv /\ [KVNext]_cacheVars => IInv'
<1> SUFFICES ASSUME IInv, [KVNext]_cacheVars PROVE IInv'
  OBVIOUS
<1>1. CASE ResetCache
  BY <1>1, ResetIInv
<1>2. CASE \E token \in Tokens : ForwardToken(token)
  BY <1>2, ForwardIInv
<1>3. CASE UNCHANGED cacheVars
  BY <1>3 DEF cacheVars, IInv, CacheTypeOK, RingHolds, RowOf, Physical, Row,
     AttentionSeesNewestTokens
<1> QED BY <1>1, <1>2, <1>3 DEF KVNext

THEOREM Invariance == KVSpec => []IInv
<1> QED BY InitIInv, NextIInv, PTL DEF KVSpec

(* transformer.h: every forward pass of model_forward_token attends to     *)
(* exactly the newest tokens that fit, for any capacity and any number of  *)
(* wraps and resets.                                                       *)
THEOREM AttentionIsNewest == KVSpec => []AttentionSeesNewestTokens
<1>1. IInv => AttentionSeesNewestTokens
  BY DEF IInv
<1> QED BY <1>1, Invariance, PTL

(* Ring indices stay inside the ring and the counters inside size_t.       *)
THEOREM CacheTypeCorrect == KVSpec => []CacheTypeOK
<1>1. IInv => CacheTypeOK
  BY DEF IInv
<1> QED BY <1>1, Invariance, PTL

-----------------------------------------------------------------------------
(* The refinement.                                                         *)

(* The contents of the ring are the rows of the newest tokens.             *)
ContentsAreNewest ==
  /\ length \in Nat
  /\ Contents \in Seq(Row \cup {Garbage})
  /\ Len(Contents) = length
  /\ \A j \in 1..length : Contents[j] = RowOf(total_tokens - length + j)

LEMMA ContentsOfRing == IInv => ContentsAreNewest
<1> SUFFICES ASSUME IInv PROVE ContentsAreNewest
  OBVIOUS
<1>1. /\ capacity \in Nat \ {0} /\ start \in 0..capacity - 1
      /\ length \in 0..capacity
      /\ slots \in [0..capacity - 1 -> Row \cup {Garbage}]
  BY KVCacheAssumption DEF IInv, CacheTypeOK
<1>2. ASSUME NEW j \in 1..length
      PROVE  slots[Physical(start, j - 1)] \in Row \cup {Garbage}
  <2>1. Physical(start, j - 1) \in 0..capacity - 1
    BY <1>1, PhysicalInRing, j - 1 \in 0..capacity
  <2> QED BY <2>1, <1>1
<1>3. Contents = [j \in 1..length |-> slots[Physical(start, j - 1)]]
  BY DEF Contents, RowsFrom
<1>4. Contents \in Seq(Row \cup {Garbage}) /\ Len(Contents) = length
  BY <1>1, <1>2, <1>3
<1>5. \A j \in 1..length : Contents[j] = RowOf(total_tokens - length + j)
  BY <1>3 DEF IInv, RingHolds
<1> QED BY <1>1, <1>4, <1>5 DEF ContentsAreNewest

(* One pass consumes one token of the window.                              *)
LEMMA ForwardConsumes ==
  ASSUME IInv, IInv', NEW token \in Tokens, ForwardToken(token)
  PROVE  Window!Consume(token)
<1> DEFINE row == [token |-> token, position |-> total_tokens]
           longer == Append(Contents, row)
           S == Row \cup {Garbage}
<1>1. ContentsAreNewest /\ ContentsAreNewest'
  BY ContentsOfRing, PTL
<1>2. /\ capacity \in Nat \ {0} /\ capacity' = capacity
      /\ length \in 0..capacity
      /\ total_tokens \in Nat /\ total_tokens' = total_tokens + 1
      /\ fed'[total_tokens + 1] = token
      /\ \A i \in 1..total_tokens : fed'[i] = fed[i]
      /\ length <= total_tokens
  <2>1. length = IF total_tokens < capacity THEN total_tokens ELSE capacity
    BY ForwardFacts DEF Passed
  <2> QED BY <2>1, ForwardFacts DEF Passed
<1>3. row \in S
  BY <1>2 DEF Row
<1>4. /\ longer \in Seq(S) /\ Len(longer) = length + 1
      /\ longer[length + 1] = row
      /\ \A j \in 1..length : longer[j] = Contents[j]
  BY <1>1, <1>3 DEF ContentsAreNewest
<1>5. ASSUME NEW j \in 1..length + 1
      PROVE  longer[j] = [token |-> fed'[total_tokens - length + j],
                          position |-> total_tokens - length + j - 1]
  <2>1. CASE j = length + 1
    <3>1. /\ total_tokens - length + j = total_tokens + 1
          /\ total_tokens - length + j - 1 = total_tokens
      BY <2>1, <1>2
    <3> QED BY <3>1, <2>1, <1>2, <1>4
  <2>2. CASE j \in 1..length
    <3>1. total_tokens - length + j \in 1..total_tokens
      BY <2>2, <1>2
    <3>2. Contents[j] = RowOf(total_tokens - length + j)
      BY <2>2, <1>1 DEF ContentsAreNewest
    <3> QED BY <3>1, <3>2, <2>2, <1>2, <1>4 DEF RowOf
  <2>3. length \in Nat
    BY <1>1 DEF ContentsAreNewest
  <2>4. j = length + 1 \/ j \in 1..length
    BY <2>3
  <2> QED BY <2>1, <2>2, <2>4
<1>6. /\ Contents' \in Seq(S) /\ Len(Contents') = length'
      /\ \A j \in 1..length' :
           Contents'[j] = [token |-> fed'[total_tokens' - length' + j],
                           position |-> total_tokens' - length' + j - 1]
  <2>1. length' \in Nat /\ total_tokens' \in Nat
    BY <1>1, <1>2 DEF ContentsAreNewest
  <2> QED BY <2>1, <1>1 DEF ContentsAreNewest, RowOf, Row
<1>7. Contents' = Window!Newest(longer, capacity)
  <2>1. CASE length < capacity
    <3>1. length' = length + 1
      BY <2>1, ForwardFilling
    <3>2. Window!Newest(longer, capacity) = longer
      BY <2>1, <1>2, <1>4 DEF Window!Newest
    <3>3. total_tokens' - length' = total_tokens - length
      BY <3>1, <1>2
    <3>4. \A j \in 1..Len(longer) : Contents'[j] = longer[j]
      BY <3>1, <3>3, <1>4, <1>5, <1>6
    <3> QED BY <3>1, <3>2, <3>4, <1>4, <1>6, SeqEqual
  <2>2. CASE length = capacity
    <3>1. length' = capacity
      BY <2>2, ForwardEvicting
    <3>2. Window!Newest(longer, capacity) = SubSeq(longer, 2, capacity + 1)
      <4>1. /\ Len(longer) = capacity + 1
            /\ ~(capacity + 1 <= capacity)
            /\ (capacity + 1) - capacity + 1 = 2
        BY <2>2, <1>2, <1>4
      <4> QED BY <4>1 DEF Window!Newest
    <3>3. /\ SubSeq(longer, 2, capacity + 1) \in Seq(S)
          /\ Len(SubSeq(longer, 2, capacity + 1)) = capacity
          /\ \A j \in 1..capacity :
               SubSeq(longer, 2, capacity + 1)[j] = longer[j + 1]
      BY <2>2, <1>2, <1>4
    <3>4. ASSUME NEW j \in 1..capacity
          PROVE  Contents'[j] = SubSeq(longer, 2, capacity + 1)[j]
      <4>1. /\ j + 1 \in 1..length + 1
            /\ total_tokens - length + (j + 1) = total_tokens' - length' + j
            /\ total_tokens - length + (j + 1) - 1
                 = total_tokens' - length' + j - 1
        BY <2>2, <3>1, <1>2
      <4>2. longer[j + 1] = [token |-> fed'[total_tokens' - length' + j],
                             position |-> total_tokens' - length' + j - 1]
        BY <4>1, <1>5
      <4>3. Contents'[j] = [token |-> fed'[total_tokens' - length' + j],
                            position |-> total_tokens' - length' + j - 1]
        BY <3>1, <1>6
      <4> QED BY <4>2, <4>3, <3>3
    <3> QED BY <3>1, <3>2, <3>3, <3>4, <1>2, <1>6, SeqEqual
  <2> QED BY <2>1, <2>2, <1>2
<1>8. total_tokens < SizeMax
  <2>1. total_tokens \in 0..SizeMax /\ total_tokens # SizeMax
    BY DEF IInv, CacheTypeOK, ForwardToken, CanForward
  <2> QED BY <2>1, KVCacheAssumption
<1>9. total_tokens' = total_tokens + 1 /\ capacity' = capacity
  BY <1>2
<1> QED BY <1>9, <1>7, <1>8 DEF Window!Consume

(* transformer.h: "the oldest per-layer key/value row is evicted from a    *)
(* ring buffer" and positions "continue absolutely". The ring implements   *)
(* the sliding window, for every capacity and any sequence of tokens.      *)
THEOREM RingRefinesWindow == KVSpec => RefinesSlidingWindow
<1>1. KVInit => Window!Init
  BY KVCacheAssumption DEF KVInit, Window!Init, Contents, RowsFrom
<1>2. ASSUME IInv, IInv', [KVNext]_cacheVars
      PROVE  [Window!Next]_<<capacity, Contents, total_tokens>>
  <2>1. CASE ResetCache
    <3>1. Contents' = << >>
      BY <2>1 DEF ResetCache, Contents, RowsFrom
    <3> QED BY <2>1, <3>1 DEF ResetCache, Window!Next, Window!Clear
  <2>2. CASE \E token \in Tokens : ForwardToken(token)
    BY <2>2, <1>2, ForwardConsumes DEF Window!Next
  <2>3. CASE UNCHANGED cacheVars
    BY <2>3 DEF cacheVars, Contents, RowsFrom, Physical
  <2> QED BY <2>1, <2>2, <2>3, <1>2 DEF KVNext
<1> QED BY <1>1, <1>2, Invariance, PTL
        DEF KVSpec, RefinesSlidingWindow, Window!Spec
=============================================================================
