----------------------------- MODULE TextProofs -----------------------------
(***************************************************************************)
(* The way of text into the model and out of it, for every value of the    *)
(* constants: the map the tokenizer looks up its tokens in (HashMap), the  *)
(* walk that cuts the token stream into windows (WindowWalk), and the      *)
(* decode loop of generate_tokens (Generation).                            *)
(*                                                                         *)
(* Keys of the map are any strings of numbers, its values any set.         *)
(*                                                                         *)
(* The tokenizer (BytePairs): a text survives encoding and decoding, and a *)
(* vocabulary its file.  Merging a pair changes where a text is cut and not*)
(* what it spells (MergeKeeps), and cuts it into known tokens; the map     *)
(* gives every known token an id of that token (KnowsItsTokens), although  *)
(* a token learned twice has two.  The invariant adds that an encoder is   *)
(* the one that adding its tokens in order would give, so that reading the *)
(* file rebuilds it.  Its recursions are functions on 0..n: that one       *)
(* exists is RecursionExists, and that two agree RecursionAgrees, both of  *)
(* the module Arithmetic.                                                  *)
(*                                                                         *)
(* The decode loop: for any tokens, prompt, stop sequences, limits and     *)
(* ring capacity, what reaches the stream is what was generated, without   *)
(* its terminator; what is held back is only the beginning of a possible   *)
(* stop sequence; the result says what happened.                           *)
(*                                                                         *)
(* pending_stop_prefix looks only at the undelivered tokens.  That this    *)
(* loses nothing rests on GrewBefore: an end of the text that can grow     *)
(* into a stop sequence could, without its last token, grow already        *)
(* before, and so was held.  The invariant records that what is held is    *)
(* the longest such end of everything generated (LongestAfter), and that   *)
(* no earlier token ended the loop (Clean).                                *)
(***************************************************************************)
EXTENDS BytePairs, WindowWalk, Generation, KVCacheProofs, FiniteSetTheorems,
        SequenceTheorems, Arithmetic


Chains(Keys, Values) == Seq([key : Keys, value : Values])

Maps(Keys, Values) == [1..BucketCount -> Chains(Keys, Values)]

(* The value of the entry a walk along a chain stops at.                   *)
Found(chain, key) == {chain[i].value : i \in FirstWith(chain, key)}

-----------------------------------------------------------------------------
(* Chains.                                                                 *)

(* A walk along a chain stops at one entry at most.                        *)
LEMMA FirstIsUnique ==
  ASSUME NEW chain, Len(chain) \in Nat, NEW key,
         NEW i \in FirstWith(chain, key), NEW j \in FirstWith(chain, key)
  PROVE  i = j
<1>1. i \in 1..Len(chain) /\ j \in 1..Len(chain) BY DEF FirstWith
<1>2. ~(i < j) BY <1>1 DEF FirstWith
<1>3. ~(j < i) BY <1>1 DEF FirstWith
<1>. QED BY <1>1, <1>2, <1>3

(* A walk that stops nowhere has seen every entry.                         *)
LEMMA FirstExists ==
  ASSUME NEW chain, Len(chain) \in Nat, NEW key,
         FirstWith(chain, key) = {},
         NEW i \in 1..Len(chain)
  PROVE  chain[i].key # key
<1>. DEFINE same == {n \in 1..Len(chain) : chain[n].key = key}
<1>. SUFFICES ASSUME chain[i].key = key PROVE FALSE OBVIOUS
<1>1. same \in SUBSET Nat /\ same # {} OBVIOUS
<1>2. PICK first \in same : \A n \in same : first <= n
  BY <1>1, LeastExists
<1>3. first \in FirstWith(chain, key)
  <2>1. first \in 1..Len(chain) /\ chain[first].key = key BY <1>2
  <2>2. \A j \in 1..(first - 1) : j \in 1..Len(chain) /\ ~(first <= j) BY <2>1
  <2>3. \A j \in 1..(first - 1) : chain[j].key # key BY <2>2, <1>2
  <2>. QED BY <2>1, <2>3 DEF FirstWith
<1>. QED BY <1>3

(* An entry with a new key comes last.                                     *)
LEMMA AppendedEntry ==
  ASSUME NEW Keys, NEW Values, NEW chain \in Chains(Keys, Values),
         NEW key \in Keys, NEW value \in Values,
         FirstWith(chain, key) = {}
  PROVE  /\ WithEntry(chain, key, value) \in Chains(Keys, Values)
         /\ Len(WithEntry(chain, key, value)) = Len(chain) + 1
         /\ WithEntry(chain, key, value)[Len(chain) + 1]
              = [key |-> key, value |-> value]
         /\ \A i \in 1..Len(chain) :
              WithEntry(chain, key, value)[i] = chain[i]
<1>. DEFINE Entry == [key : Keys, value : Values]
            entry == [key |-> key, value |-> value]
<1>1. chain \in Seq(Entry) BY DEF Chains
<1>2. entry \in Entry OBVIOUS
<1>3. WithEntry(chain, key, value) = Append(chain, entry) BY DEF WithEntry
<1>4. Chains(Keys, Values) = Seq(Entry) BY DEF Chains
<1>. HIDE DEF Entry, entry
<1>5. /\ Append(chain, entry) \in Seq(Entry)
      /\ Len(Append(chain, entry)) = Len(chain) + 1
      /\ Append(chain, entry)[Len(chain) + 1] = entry
      /\ \A i \in 1..Len(chain) : Append(chain, entry)[i] = chain[i]
  BY <1>1, <1>2
<1>. QED BY <1>3, <1>4, <1>5 DEF entry

(* The entry with a key that is there gets the value, the others stay.     *)
LEMMA ReplacedEntry ==
  ASSUME NEW Keys, NEW Values, NEW chain \in Chains(Keys, Values),
         NEW key \in Keys, NEW value \in Values,
         FirstWith(chain, key) # {}
  PROVE  /\ WithEntry(chain, key, value) \in Chains(Keys, Values)
         /\ Len(WithEntry(chain, key, value)) = Len(chain)
         /\ \A i \in 1..Len(chain) :
              /\ WithEntry(chain, key, value)[i].key = chain[i].key
              /\ i \in FirstWith(chain, key) =>
                   WithEntry(chain, key, value)[i].value = value
              /\ i \notin FirstWith(chain, key) =>
                   WithEntry(chain, key, value)[i] = chain[i]
<1>. DEFINE Entry == [key : Keys, value : Values]
            found == FirstWith(chain, key)
            n == Len(chain)
            valued(i) == [chain[i] EXCEPT !.value = value]
            replaced == [i \in 1..n |-> IF i \in found THEN valued(i) ELSE chain[i]]
<1>1. WithEntry(chain, key, value) = replaced BY DEF WithEntry
<1>2. Chains(Keys, Values) = Seq(Entry) BY DEF Chains
<1>3. \A e \in Entry :
        /\ [e EXCEPT !.value = value] \in Entry
        /\ [e EXCEPT !.value = value].key = e.key
        /\ [e EXCEPT !.value = value].value = value
  OBVIOUS
<1>. HIDE DEF Entry, found
<1>4. n \in Nat /\ \A i \in 1..n : chain[i] \in Entry BY <1>2
<1>. HIDE DEF n
<1>5. \A i \in 1..n : /\ valued(i) \in Entry
                      /\ valued(i).key = chain[i].key
                      /\ valued(i).value = value
  BY <1>3, <1>4
<1>. HIDE DEF valued
<1>6. replaced \in Seq(Entry) /\ Len(replaced) = n BY <1>4, <1>5
<1>7. \A i \in 1..n : /\ replaced[i].key = chain[i].key
                      /\ i \in found => replaced[i].value = value
                      /\ i \notin found => replaced[i] = chain[i]
  BY <1>5
<1>. HIDE DEF replaced
<1>. QED BY <1>1, <1>2, <1>6, <1>7 DEF n, found

(* A walk depends on the keys of a chain only.                             *)
LEMMA SameKeysSameWalk ==
  ASSUME NEW chain, Len(chain) \in Nat, NEW new, Len(new) = Len(chain),
         \A i \in 1..Len(chain) : new[i].key = chain[i].key,
         NEW key
  PROVE  FirstWith(new, key) = FirstWith(chain, key)
<1>1. \A i \in 1..Len(chain) : \A j \in 1..(i - 1) : j \in 1..Len(chain)
  OBVIOUS
<1>2. \A i \in 1..Len(chain) :
        /\ (new[i].key = key) = (chain[i].key = key)
        /\ (\A j \in 1..(i - 1) : new[j].key # key)
             = (\A j \in 1..(i - 1) : chain[j].key # key)
  BY <1>1
<1>. QED BY <1>2 DEF FirstWith

(* The walk for the key that was inserted stops at its value.              *)
LEMMA ChainFinds ==
  ASSUME NEW Keys, NEW Values, NEW chain \in Chains(Keys, Values),
         NEW key \in Keys, NEW value \in Values
  PROVE  Found(WithEntry(chain, key, value), key) = {value}
<1>. DEFINE new == WithEntry(chain, key, value)
            n == Len(chain)
<1>0. n \in Nat BY DEF Chains
<1>1. CASE FirstWith(chain, key) = {}
  <2>1. \A i \in 1..n : chain[i].key # key BY <1>0, <1>1, FirstExists
  <2>2. /\ Len(new) = n + 1
        /\ new[n + 1] = [key |-> key, value |-> value]
        /\ \A i \in 1..n : new[i] = chain[i]
    BY <1>1, AppendedEntry
  <2>. HIDE DEF new, n
  <2>3. new[n + 1].key = key /\ new[n + 1].value = value BY <2>2
  <2>4. \A i \in 1..n : new[i].key # key BY <2>1, <2>2
  <2>5. FirstWith(new, key) = {n + 1}
    BY <1>0, <2>2, <2>3, <2>4 DEF FirstWith
  <2>6. Found(new, key) = {value} BY <2>3, <2>5 DEF Found
  <2>. QED BY <2>6 DEF new
<1>2. CASE FirstWith(chain, key) # {}
  <2>1. PICK f \in FirstWith(chain, key) : TRUE BY <1>2
  <2>2. FirstWith(chain, key) = {f} BY <1>0, <2>1, FirstIsUnique
  <2>3. /\ Len(new) = n
        /\ \A i \in 1..n :
             /\ new[i].key = chain[i].key
             /\ i \in FirstWith(chain, key) => new[i].value = value
    BY <1>2, ReplacedEntry
  <2>. HIDE DEF new
  <2>4. FirstWith(new, key) = FirstWith(chain, key)
    BY <1>0, <2>3, SameKeysSameWalk
  <2>5. f \in 1..n BY <2>1 DEF FirstWith
  <2>6. Found(new, key) = {value} BY <2>2, <2>3, <2>4, <2>5 DEF Found
  <2>. QED BY <2>6 DEF new
<1>. QED BY <1>1, <1>2

(* The walk for any other key ends as it did.                              *)
LEMMA ChainKeepsOthers ==
  ASSUME NEW Keys, NEW Values, NEW chain \in Chains(Keys, Values),
         NEW key \in Keys, NEW value \in Values,
         NEW other, other # key
  PROVE  Found(WithEntry(chain, key, value), other) = Found(chain, other)
<1>. DEFINE new == WithEntry(chain, key, value)
            n == Len(chain)
<1>0. n \in Nat BY DEF Chains
<1>1. CASE FirstWith(chain, key) = {}
  <2>1. /\ Len(new) = n + 1
        /\ new[n + 1] = [key |-> key, value |-> value]
        /\ \A i \in 1..n : new[i] = chain[i]
    BY <1>1, AppendedEntry
  <2>. HIDE DEF new
  <2>2. new[n + 1].key # other BY <2>1
  <2>3. \A i \in 1..(n + 1) : i \in 1..n \/ i = n + 1 BY <1>0
  <2>4. FirstWith(new, other) = FirstWith(chain, other)
    BY <1>0, <2>1, <2>2, <2>3 DEF FirstWith
  <2>5. \A i \in FirstWith(chain, other) : new[i] = chain[i]
    BY <2>1 DEF FirstWith
  <2>6. Found(new, other) = Found(chain, other) BY <2>4, <2>5 DEF Found
  <2>. QED BY <2>6 DEF new
<1>2. CASE FirstWith(chain, key) # {}
  <2>1. /\ Len(new) = n
        /\ \A i \in 1..n :
             /\ new[i].key = chain[i].key
             /\ i \notin FirstWith(chain, key) => new[i] = chain[i]
    BY <1>2, ReplacedEntry
  <2>. HIDE DEF new
  <2>2. FirstWith(new, other) = FirstWith(chain, other)
    BY <1>0, <2>1, SameKeysSameWalk
  <2>3. \A i \in FirstWith(chain, other) :
          i \in 1..n /\ i \notin FirstWith(chain, key)
    BY DEF FirstWith
  <2>4. \A i \in FirstWith(chain, other) : new[i] = chain[i] BY <2>1, <2>3
  <2>5. Found(new, other) = Found(chain, other) BY <2>2, <2>4 DEF Found
  <2>. QED BY <2>5 DEF new
<1>. QED BY <1>1, <1>2

-----------------------------------------------------------------------------
(* The hash of a key.                                                      *)
LEMMA BucketExists ==
  ASSUME NEW key \in Seq(Nat)
  PROVE  Bucket(key) \in 1..BucketCount
<1> DEFINE solution(g, n) == g = [i \in 0..n |-> IF i = 0 THEN 5381 % Word
                                              ELSE (g[i - 1] * 33 + key[i]) % Word]
<1>1. PICK n : n = Len(key)
  OBVIOUS
<1>2. n \in Nat /\ \A i \in 1..n : key[i] \in Nat
  BY <1>1
<1>3. Word \in Nat \ {0} /\ BucketCount \in Nat \ {0}
  BY HashMapAssumption
<1>4. \A m \in Nat : m % Word \in Nat
  BY <1>3, DivMod
<1>5. PICK origin : origin = 5381 % Word
  OBVIOUS
<1>6. PICK step : step = [i \in 1..n |-> [v \in Nat |-> (v * 33 + key[i]) % Word]]
  OBVIOUS
<1>7. \A i \in 1..n : \A v \in Nat : v * 33 + key[i] \in Nat
  BY <1>2
<1>8. step \in [1..n -> [Nat -> Nat]]
  BY <1>4, <1>6, <1>7
<1>9. origin \in Nat
  BY <1>4, <1>5
<1>10. PICK g \in [0..n -> Nat] : g[0] = origin /\ Follows(g, n, step)
  BY <1>2, <1>8, <1>9, RecursionExists DEF Steps
<1>11. \A i \in 1..n : i - 1 \in 0..n
  BY <1>2
<1>12. \A i \in 1..n : g[i] = (g[i - 1] * 33 + key[i]) % Word
  BY <1>6, <1>10, <1>11 DEF Follows
<1>13. \A i \in 0..n : i # 0 => i \in 1..n
  BY <1>2
<1>14. solution(g, n)
  BY <1>5, <1>10, <1>12, <1>13
<1>15. PICK f : f = CHOOSE x : solution(x, n)
  OBVIOUS
<1> HIDE DEF solution
<1>16. solution(f, n)
  BY <1>14, <1>15
<1> USE DEF solution
<1>17. HashBytes(key) = f[n]
  BY <1>1, <1>15 DEF HashBytes
<1>18. f[n] = IF n = 0 THEN 5381 % Word ELSE (f[n - 1] * 33 + key[n]) % Word
  BY <1>2, <1>16
<1>19. SameSteps(f, g, n)
  BY <1>2, <1>5, <1>10, <1>11, <1>12, <1>13, <1>16 DEF SameSteps
<1>20. f[n] = g[n]
  <2>1. \A i \in 0..n : f[i] = g[i]
    BY <1>2, <1>19, RecursionAgrees
  <2> QED BY <1>2, <2>1
<1>21. f[n] \in Nat
  BY <1>2, <1>20
<1> QED 
  <2>1. HashBytes(key) % BucketCount \in 0..(BucketCount - 1)
    BY <1>3, <1>17, <1>21, DivMod
  <2> QED BY <1>3, <2>1 DEF Bucket

-----------------------------------------------------------------------------
(* Maps.                                                                   *)

(* Keys are strings of numbers.                                            *)
KeySets == SUBSET Seq(Nat)

(* A key that was just inserted is found with its newest value, whether it *)
(* was there or not and whatever shares its bucket; the map keeps its type *)
(* (hashmap_insert_bytes, then hashmap_get_bytes).                         *)
THEOREM InsertedIsFound ==
  ASSUME NEW Keys \in KeySets, NEW Values, NEW map \in Maps(Keys, Values),
         NEW key \in Keys, NEW value \in Values
  PROVE  /\ Insert(map, key, value) \in Maps(Keys, Values)
         /\ Get(Insert(map, key, value), key) = {value}
<1>0. Bucket(key) \in 1..BucketCount BY BucketExists DEF KeySets
<1>. DEFINE b == Bucket(key)
<1>1. map[b] \in Chains(Keys, Values) BY <1>0 DEF Maps
<1>2. WithEntry(map[b], key, value) \in Chains(Keys, Values)
  BY <1>1, AppendedEntry, ReplacedEntry
<1>3. Found(WithEntry(map[b], key, value), key) = {value} BY <1>1, ChainFinds
<1>4. Insert(map, key, value)[b] = WithEntry(map[b], key, value)
  BY <1>0 DEF Insert, Maps
<1>5. Get(Insert(map, key, value), key) = {value} BY <1>3, <1>4 DEF Get, Found
<1>6. Insert(map, key, value) \in Maps(Keys, Values)
  BY <1>0, <1>2 DEF Insert, Maps
<1>. QED BY <1>5, <1>6

(* Inserting a key changes what is found for no other key, in its bucket   *)
(* or in another.                                                          *)
THEOREM OthersAreKept ==
  ASSUME NEW Keys \in KeySets, NEW Values, NEW map \in Maps(Keys, Values),
         NEW key \in Keys, NEW value \in Values,
         NEW other \in Seq(Nat), other # key
  PROVE  Get(Insert(map, key, value), other) = Get(map, other)
<1>0. Bucket(key) \in 1..BucketCount /\ Bucket(other) \in 1..BucketCount
  BY BucketExists DEF KeySets
<1>. DEFINE new == Insert(map, key, value)
<1>1. CASE Bucket(other) # Bucket(key)
  <2>1. new[Bucket(other)] = map[Bucket(other)] BY <1>0, <1>1 DEF Insert, Maps
  <2>. QED BY <2>1 DEF Get
<1>2. CASE Bucket(other) = Bucket(key)
  <2>1. map[Bucket(key)] \in Chains(Keys, Values) BY <1>0 DEF Maps
  <2>2. Found(WithEntry(map[Bucket(key)], key, value), other)
          = Found(map[Bucket(key)], other)
    BY <2>1, ChainKeepsOthers
  <2>3. new[Bucket(key)] = WithEntry(map[Bucket(key)], key, value)
    BY <1>0 DEF Insert, Maps
  <2>. HIDE DEF new
  <2>4. Get(new, other) = Get(map, other) BY <1>2, <2>2, <2>3 DEF Get, Found
  <2>. QED BY <2>4 DEF new
<1>. QED BY <1>1, <1>2

-----------------------------------------------------------------------------
(* Concatenation of a sequence of sequences.                               *)

(* The concatenations of the first parts, one after the other.             *)
Flattens(g, parts) ==
  /\ g[0] = << >>
  /\ \A i \in 1..Len(parts) : g[i] = g[i - 1] \o parts[i]
  /\ FlattenSeq(parts) = g[Len(parts)]

LEMMA FlattenSteps ==
  ASSUME NEW T, NEW parts \in Seq(Seq(T))
  PROVE  \E g \in [0..Len(parts) -> Seq(T)] : Flattens(g, parts)
<1> DEFINE solution(g, n) ==
             g = [i \in 1..n |-> IF i = 1 THEN parts[i] ELSE g[i - 1] \o parts[i]]
<1>1. PICK n : n = Len(parts)
  OBVIOUS
<1>2. n \in Nat /\ \A i \in 1..n : parts[i] \in Seq(T)
  BY <1>1
<1>3. PICK S : S = Seq(T)
  OBVIOUS
<1>4. PICK step : step = [i \in 1..n |-> [v \in S |-> v \o parts[i]]]
  OBVIOUS
<1>5. step \in Steps(n, S)
  BY <1>2, <1>3, <1>4 DEF Steps
<1>6. << >> \in S
  BY <1>3
<1>7. PICK g \in [0..n -> S] : g[0] = << >> /\ Follows(g, n, step)
  BY <1>2, <1>5, <1>6, RecursionExists
<1>8. \A i \in 1..n : i - 1 \in 0..n
  BY <1>2
<1>9. \A i \in 1..n : g[i] = g[i - 1] \o parts[i]
  BY <1>4, <1>7, <1>8 DEF Follows
<1>10. CASE n = 0
  <2>1. parts = << >>
    BY <1>1, <1>10, EmptySeq
  <2>2. FlattenSeq(parts) = << >>
    BY <1>1, <1>10, <2>1 DEF FlattenSeq
  <2> QED BY <1>1, <1>3, <1>7, <1>9, <1>10, <2>2 DEF Flattens
<1>11. CASE n # 0
  <2>1. PICK w : w = [i \in 1..n |-> g[i]]
    OBVIOUS
  <2>2. \A s \in Seq(T) : << >> \o s = s
    BY ConcatEmptySeq
  <2>3. \A i \in 1..n : i # 1 => i - 1 \in 1..n
    BY <1>2
  <2>4. ASSUME NEW i \in 1..n
        PROVE  w[i] = IF i = 1 THEN parts[i] ELSE w[i - 1] \o parts[i]
    <3>1. w[i] = g[i - 1] \o parts[i] /\ parts[i] \in Seq(T)
      BY <1>2, <1>9, <2>1
    <3>2. CASE i = 1
      <4> i - 1 = 0
        BY <3>2
      <4>1. w[i] = << >> \o parts[i]
        BY <1>7, <3>1
      <4> QED BY <2>2, <3>1, <3>2, <4>1
    <3>3. CASE i # 1
      <4>1. w[i - 1] = g[i - 1]
        BY <2>1, <2>3, <3>3
      <4> QED BY <3>1, <3>3, <4>1
    <3> QED BY <3>2, <3>3
  <2>5. solution(w, n)
    BY <2>1, <2>4
  <2>6. PICK f : f = CHOOSE x : solution(x, n)
    OBVIOUS
  <2> HIDE DEF solution
  <2>7. solution(f, n)
    BY <2>5, <2>6
  <2> USE DEF solution
  <2>8. FlattenSeq(parts) = f[n]
    BY <1>1, <1>11, <2>6 DEF FlattenSeq
  <2>9. PICK h : h = [i \in 0..n |-> IF i = 0 THEN << >> ELSE f[i]]
    OBVIOUS
  <2>10. \A i \in 1..n : h[i] = f[i] /\ (i # 1 => h[i - 1] = f[i - 1])
    BY <1>2, <2>9
  <2>11. \A i \in 1..n : f[i] = IF i = 1 THEN parts[i] ELSE f[i - 1] \o parts[i]
    BY <2>7
  <2>12. ASSUME NEW i \in 1..n, h[i - 1] = g[i - 1] PROVE h[i] = g[i]
    <3>1. CASE i = 1
      <4>1. h[i] = parts[i] /\ parts[i] \in Seq(T)
        BY <1>2, <2>10, <2>11, <3>1
      <4> i - 1 = 0
        BY <3>1
      <4>2. g[i] = g[0] \o parts[i]
        BY <1>9
      <4> QED BY <1>7, <2>2, <4>1, <4>2
    <3>2. CASE i # 1
      <4>1. h[i] = f[i - 1] \o parts[i]
        BY <2>10, <2>11, <3>2
      <4>2. g[i] = g[i - 1] \o parts[i]
        BY <1>9
      <4> QED BY <2>10, <2>12, <3>2, <4>1, <4>2
    <3> QED BY <3>1, <3>2
  <2>13. h[0] = g[0]
    BY <1>2, <1>7, <2>9
  <2>14. SameSteps(h, g, n)
    BY <2>12, <2>13 DEF SameSteps
  <2>15. \A i \in 0..n : h[i] = g[i]
    BY <1>2, <2>14, RecursionAgrees
  <2>16. FlattenSeq(parts) = g[n]
    <3>1. n \in 1..n /\ n \in 0..n
      BY <1>2, <1>11
    <3> QED BY <2>8, <2>10, <2>15, <3>1
  <2> QED BY <1>1, <1>3, <1>7, <1>9, <2>16 DEF Flattens
<1> QED BY <1>10, <1>11

LEMMA FlattenType ==
  ASSUME NEW T, NEW parts \in Seq(Seq(T))
  PROVE  FlattenSeq(parts) \in Seq(T)
<1>1. PICK g \in [0..Len(parts) -> Seq(T)] : Flattens(g, parts)
  BY FlattenSteps
<1>2. Len(parts) \in 0..Len(parts)
  OBVIOUS
<1> QED BY <1>1, <1>2 DEF Flattens

(* A part that is appended comes last.                                     *)
LEMMA FlattenAppend ==
  ASSUME NEW T, NEW parts \in Seq(Seq(T)), NEW part \in Seq(T)
  PROVE  FlattenSeq(Append(parts, part)) = FlattenSeq(parts) \o part
<1>1. PICK n : n = Len(parts)
  OBVIOUS
<1>2. PICK more : more = Append(parts, part)
  OBVIOUS
<1>3. more \in Seq(Seq(T)) /\ Len(more) = n + 1 /\ more[n + 1] = part
      /\ n \in Nat /\ \A i \in 1..n : more[i] = parts[i]
  BY <1>1, <1>2, AppendProperties
<1>4. PICK g \in [0..n -> Seq(T)] : Flattens(g, parts)
  BY <1>1, FlattenSteps
<1>5. PICK h \in [0..(n + 1) -> Seq(T)] : Flattens(h, more)
  BY <1>3, FlattenSteps
<1>6. /\ g[0] = << >>
      /\ \A i \in 1..n : g[i] = g[i - 1] \o parts[i]
      /\ FlattenSeq(parts) = g[n]
  BY <1>1, <1>4 DEF Flattens
<1>7. /\ h[0] = << >>
      /\ \A i \in 1..(n + 1) : h[i] = h[i - 1] \o more[i]
      /\ FlattenSeq(more) = h[n + 1]
  BY <1>3, <1>5 DEF Flattens
<1>8. ASSUME NEW i \in 1..n, g[i - 1] = h[i - 1] PROVE g[i] = h[i]
  <2> n \in Nat /\ i \in 1..(n + 1)
    BY <1>3
  <2>1. h[i] = h[i - 1] \o more[i]
    BY <1>7
  <2>2. more[i] = parts[i]
    BY <1>3
  <2> QED BY <1>6, <1>8, <2>1, <2>2
<1>9. SameSteps(g, h, n)
  BY <1>6, <1>7, <1>8 DEF SameSteps
<1>10. \A i \in 0..n : g[i] = h[i]
  <2> n \in Nat
    BY <1>3
  <2> QED BY <1>9, RecursionAgrees
<1>11. h[n + 1] = h[n] \o part
  <2>1. n + 1 \in 1..(n + 1) /\ (n + 1) - 1 = n
    BY <1>3
  <2> QED BY <1>3, <1>7, <2>1
<1>12. h[n] = g[n]
  BY <1>3, <1>10
<1> QED BY <1>2, <1>6, <1>7, <1>11, <1>12

-----------------------------------------------------------------------------
(* Merging.                                                                *)

(* Every sequence that is not empty ends with its last element.            *)
LEMMA FrontAndLast ==
  ASSUME NEW S, NEW seq \in Seq(S), seq # << >>
  PROVE  /\ Front(seq) \in Seq(S) /\ Last(seq) \in S
         /\ seq = Append(Front(seq), Last(seq))
<1>1. PICK n : n = Len(seq)
  OBVIOUS
<1>2. n \in Nat /\ n # 0
  BY <1>1, EmptySeq
<1>3. n - 1 \in Nat /\ n \in 1..n /\ 1..(n - 1) \subseteq 1..n
  BY <1>2
<1>4. seq[n] \in S /\ \A i \in 1..n : seq[i] \in S
  BY <1>1, <1>2
<1>5. PICK front : front = SubSeq(seq, 1, n - 1)
  OBVIOUS
<1>6. front \in Seq(S) /\ Len(front) = n - 1 /\ \A i \in 1..(n - 1) : front[i] = seq[i]
  BY <1>1, <1>2, <1>3, <1>4, <1>5
<1>7. PICK last : last = seq[n]
  OBVIOUS
<1>8. PICK whole : whole = Append(front, last)
  OBVIOUS
<1>9. whole \in Seq(S) /\ Len(whole) = n /\ whole[n] = last
      /\ \A i \in 1..(n - 1) : whole[i] = front[i]
  BY <1>2, <1>4, <1>6, <1>7, <1>8
<1>10. \A i \in 1..n : whole[i] = seq[i]
  <2>1. \A i \in 1..n : i \in 1..(n - 1) \/ i = n
    BY <1>2
  <2> QED BY <1>6, <1>7, <1>9, <2>1
<1>11. whole = seq
  BY <1>1, <1>9, <1>10, SeqEqual
<1> QED BY <1>1, <1>4, <1>5, <1>6, <1>7, <1>8, <1>11 DEF Front, Last

(* Sets of tokens, every byte alone being one.                             *)
Singles(T) == {<<t>> : t \in T}

Vocabularies(T) == {K \in SUBSET Seq(T) : Singles(T) \subseteq K}

(* One step of merge_pair adds what the token spells.                      *)
LEMMA JoinedKeeps ==
  ASSUME NEW T, NEW K \in Vocabularies(T),
         NEW done \in Seq(K), NEW token \in K, NEW pair \in K
  PROVE  /\ Joined(done, token, pair) \in Seq(K)
         /\ FlattenSeq(Joined(done, token, pair)) = FlattenSeq(done) \o token
<1>1. \A seq \in Seq(K) : seq \in Seq(Seq(T))
  BY SeqMonotonic DEF Vocabularies
<1>2. \A seq \in Seq(K) : FlattenSeq(seq) \in Seq(T)
  BY <1>1, FlattenType
<1>3. \A seq \in Seq(K) : \A t \in K :
        FlattenSeq(Append(seq, t)) = FlattenSeq(seq) \o t
  BY <1>1, FlattenAppend DEF Vocabularies
<1>4. CASE done # << >> /\ Last(done) \o token = pair
  <2>1. Front(done) \in Seq(K) /\ Last(done) \in K
        /\ done = Append(Front(done), Last(done))
    BY <1>4, FrontAndLast
  <2>2. Joined(done, token, pair) = Append(Front(done), pair)
    BY <1>4 DEF Joined
  <2>3. FlattenSeq(done) = FlattenSeq(Front(done)) \o Last(done)
    BY <1>3, <2>1
  <2>4. FlattenSeq(Append(Front(done), pair))
          = FlattenSeq(Front(done)) \o (Last(done) \o token)
    BY <1>3, <1>4, <2>1
  <2>5. FlattenSeq(Front(done)) \o (Last(done) \o token)
          = (FlattenSeq(Front(done)) \o Last(done)) \o token
    <3>1. PICK a, b : a = FlattenSeq(Front(done)) /\ b = Last(done)
      OBVIOUS
    <3>2. a \in Seq(T) /\ b \in Seq(T) /\ token \in Seq(T)
      BY <1>2, <2>1, <3>1 DEF Vocabularies
    <3>3. (a \o b) \o token = a \o (b \o token)
      BY <3>2, ConcatAssociative
    <3> QED BY <3>1, <3>3
  <2>6. Append(Front(done), pair) \in Seq(K)
    BY <2>1
  <2> QED BY <2>2, <2>3, <2>4, <2>5, <2>6
<1>5. CASE ~(done # << >> /\ Last(done) \o token = pair)
  <2>1. Joined(done, token, pair) = Append(done, token)
    BY <1>5 DEF Joined
  <2>2. Append(done, token) \in Seq(K)
    OBVIOUS
  <2> QED BY <1>3, <2>1, <2>2
<1> QED BY <1>4, <1>5

(* The tokens merge_pair has written after each token it read.             *)
Merges(d, tokens, pair) ==
  /\ d[0] = << >>
  /\ \A i \in 1..Len(tokens) : d[i] = Joined(d[i - 1], tokens[i], pair)
  /\ Merge(tokens, pair) = d[Len(tokens)]

LEMMA MergeSteps ==
  ASSUME NEW T, NEW K \in Vocabularies(T), NEW tokens \in Seq(K), NEW pair \in K
  PROVE  \E d \in [0..Len(tokens) -> Seq(K)] : Merges(d, tokens, pair)
<1> DEFINE solution(d, n) ==
             d = [i \in 0..n |-> IF i = 0 THEN << >>
                                 ELSE Joined(d[i - 1], tokens[i], pair)]
<1>1. PICK n : n = Len(tokens)
  OBVIOUS
<1>2. n \in Nat /\ \A i \in 1..n : tokens[i] \in K
  BY <1>1
<1>3. PICK S : S = Seq(K)
  OBVIOUS
<1>4. PICK step : step = [i \in 1..n |-> [v \in S |-> Joined(v, tokens[i], pair)]]
  OBVIOUS
<1>5. step \in Steps(n, S)
  <2>1. \A i \in 1..n : \A v \in S : Joined(v, tokens[i], pair) \in S
    BY <1>2, <1>3, JoinedKeeps
  <2> QED BY <1>4, <2>1 DEF Steps
<1>6. << >> \in S
  BY <1>3
<1>7. PICK g \in [0..n -> S] : g[0] = << >> /\ Follows(g, n, step)
  BY <1>2, <1>5, <1>6, RecursionExists
<1>8. \A i \in 1..n : i - 1 \in 0..n
  BY <1>2
<1>9. \A i \in 1..n : g[i] = Joined(g[i - 1], tokens[i], pair)
  BY <1>4, <1>7, <1>8 DEF Follows
<1>10. \A i \in 0..n : i # 0 => i \in 1..n
  BY <1>2
<1>11. solution(g, n)
  BY <1>7, <1>9, <1>10
<1>12. PICK d : d = CHOOSE x : solution(x, n)
  OBVIOUS
<1> HIDE DEF solution
<1>13. solution(d, n)
  BY <1>11, <1>12
<1> USE DEF solution
<1>14. Merge(tokens, pair) = d[n]
  BY <1>1, <1>12 DEF Merge
<1>15. d[0] = << >> /\ \A i \in 1..n : d[i] = Joined(d[i - 1], tokens[i], pair)
  BY <1>2, <1>8, <1>10, <1>13
<1>16. SameSteps(d, g, n)
  BY <1>7, <1>9, <1>15 DEF SameSteps
<1>17. \A i \in 0..n : d[i] = g[i]
  BY <1>2, <1>16, RecursionAgrees
<1>18. d \in [0..n -> S]
  BY <1>7, <1>13, <1>17
<1> QED BY <1>1, <1>3, <1>14, <1>15, <1>18 DEF Merges

(* Merging a pair leaves what the tokens spell, and gives no token but     *)
(* those there were and the pair.                                          *)
LEMMA MergeKeeps ==
  ASSUME NEW T, NEW K \in Vocabularies(T), NEW tokens \in Seq(K), NEW pair \in K
  PROVE  /\ Merge(tokens, pair) \in Seq(K)
         /\ FlattenSeq(Merge(tokens, pair)) = FlattenSeq(tokens)
<1>0. ASSUME NEW v \in Seq(K), NEW t \in K
      PROVE  FlattenSeq(Joined(v, t, pair)) = FlattenSeq(v) \o t
  BY JoinedKeeps, Zenon
<1>1. PICK n : n = Len(tokens)
  OBVIOUS
<1>2. n \in Nat /\ \A i \in 1..n : tokens[i] \in K
  BY <1>1
<1>3. tokens \in Seq(Seq(T))
  BY SeqMonotonic DEF Vocabularies
<1>4. PICK d \in [0..n -> Seq(K)] : Merges(d, tokens, pair)
  BY <1>1, MergeSteps
<1>5. PICK g \in [0..n -> Seq(T)] : Flattens(g, tokens)
  BY <1>1, <1>3, FlattenSteps
<1>6. /\ d[0] = << >>
      /\ \A i \in 1..n : d[i] = Joined(d[i - 1], tokens[i], pair)
      /\ Merge(tokens, pair) = d[n]
  BY <1>1, <1>4 DEF Merges
<1>7. /\ g[0] = << >>
      /\ \A i \in 1..n : g[i] = g[i - 1] \o tokens[i]
      /\ FlattenSeq(tokens) = g[n]
  BY <1>1, <1>5 DEF Flattens
<1>8. PICK P : P = {i \in 0..n : FlattenSeq(d[i]) = g[i]}
  OBVIOUS
<1>9. 0 \in P
  <2>1. FlattenSeq(<< >>) = << >>
    BY DEF FlattenSeq
  <2> QED BY <1>2, <1>6, <1>7, <1>8, <2>1
<1>10. ASSUME NEW i \in 1..n, i - 1 \in P PROVE i \in P
  <2>1. i \in 0..n /\ i - 1 \in 0..n
    BY <1>2
  <2>2. d[i - 1] \in Seq(K) /\ tokens[i] \in K
    BY <1>2, <2>1
  <2>3. FlattenSeq(Joined(d[i - 1], tokens[i], pair))
          = FlattenSeq(d[i - 1]) \o tokens[i]
    BY <1>0, <2>2
  <2>4. FlattenSeq(d[i - 1]) = g[i - 1]
    BY <1>8, <1>10
  <2> QED BY <1>6, <1>7, <1>8, <2>1, <2>3, <2>4
<1>11. \A i \in 1..n : i - 1 \in P => i \in P
  BY <1>10
<1>12. \A i \in 0..n : i \in P
  BY <1>2, <1>9, <1>11, UpTo
<1>13. n \in 0..n
  BY <1>2
<1> QED BY <1>6, <1>7, <1>8, <1>12, <1>13

-----------------------------------------------------------------------------
(* Encoding.                                                               *)

LEMMA SplitKeeps ==
  ASSUME NEW T, NEW text \in Seq(T)
  PROVE  Split(text) \in Seq(Singles(T)) /\ FlattenSeq(Split(text)) = text
<1>1. PICK n : n = Len(text)
  OBVIOUS
<1>2. n \in Nat /\ \A i \in 1..n : text[i] \in T
  BY <1>1
<1>3. PICK parts : parts = Split(text)
  OBVIOUS
<1>4. Len(parts) = n /\ \A i \in 1..n : parts[i] = <<text[i]>>
  BY <1>1, <1>2, <1>3 DEF Split
<1>5. parts \in Seq(Singles(T))
  BY <1>1, <1>2, <1>3 DEF Split, Singles
<1>6. parts \in Seq(Seq(T))
  <2>1. \A t \in T : <<t>> \in Seq(T)
    OBVIOUS
  <2>2. Singles(T) \subseteq Seq(T)
    BY <2>1 DEF Singles
  <2> QED BY <1>5, <2>2, SeqMonotonic
<1>7. PICK g \in [0..n -> Seq(T)] : Flattens(g, parts)
  BY <1>4, <1>6, FlattenSteps
<1>8. /\ g[0] = << >>
      /\ \A i \in 1..n : g[i] = g[i - 1] \o parts[i]
      /\ FlattenSeq(parts) = g[n]
  BY <1>4, <1>7 DEF Flattens
<1>9. PICK P : P = {i \in 0..n : g[i] = SubSeq(text, 1, i)}
  OBVIOUS
<1>10. 0 \in P
  <2>1. SubSeq(text, 1, 0) = << >>
    BY SubSeqEmpty
  <2> QED BY <1>2, <1>8, <1>9, <2>1
<1>11. ASSUME NEW i \in 1..n, i - 1 \in P PROVE i \in P
  <2>1. g[i - 1] = SubSeq(text, 1, i - 1)
    BY <1>9, <1>11
  <2>2. g[i] = SubSeq(text, 1, i - 1) \o <<text[i]>>
    BY <1>4, <1>8, <2>1
  <2>3. SubSeq(text, 1, i) = SubSeq(text, 1, i - 1) \o <<text[i]>>
    <3>1. 1 \in 1..Len(text) /\ i \in 1..Len(text)
      BY <1>1, <1>2
    <3> QED BY <3>1, SubSeqRecursiveSecond
  <2>4. g[i] = SubSeq(text, 1, i)
    BY <2>2, <2>3, Zenon
  <2>5. i \in 0..n
    BY <1>2
  <2> QED BY <1>9, <2>4, <2>5, Zenon
<1>12. \A i \in 1..n : i - 1 \in P => i \in P
  BY <1>11
<1>13. \A i \in 0..n : i \in P
  BY <1>2, <1>10, <1>12, UpTo
<1>14. n \in 0..n
  BY <1>2
<1>15. g[n] = SubSeq(text, 1, n)
  BY <1>9, <1>13, <1>14
<1>16. SubSeq(text, 1, n) = text
  BY <1>1, SubSeqFull
<1> QED BY <1>3, <1>5, <1>8, <1>15, <1>16

(* How a text is cut up before the first merge and after each.             *)
Segments(c, text, merges) ==
  /\ c[0] = Split(text)
  /\ \A i \in 1..Len(merges) : c[i] = Merge(c[i - 1], merges[i])
  /\ Segmented(text, merges) = c[Len(merges)]

LEMMA SegmentedSteps ==
  ASSUME NEW T, NEW K \in Vocabularies(T), NEW text \in Seq(T), NEW merges \in Seq(K)
  PROVE  \E c \in [0..Len(merges) -> Seq(K)] : Segments(c, text, merges)
<1> DEFINE solution(c, n) ==
             c = [i \in 0..n |-> IF i = 0 THEN Split(text)
                                 ELSE Merge(c[i - 1], merges[i])]
<1>0. ASSUME NEW v \in Seq(K), NEW pair \in K PROVE Merge(v, pair) \in Seq(K)
  BY MergeKeeps
<1>1. PICK n : n = Len(merges)
  OBVIOUS
<1>2. n \in Nat /\ \A i \in 1..n : merges[i] \in K
  BY <1>1
<1>3. PICK S : S = Seq(K)
  OBVIOUS
<1>4. PICK step : step = [i \in 1..n |-> [v \in S |-> Merge(v, merges[i])]]
  OBVIOUS
<1>5. step \in Steps(n, S)
  <2>1. \A i \in 1..n : \A v \in S : Merge(v, merges[i]) \in S
    BY <1>0, <1>2, <1>3
  <2> QED BY <1>4, <2>1 DEF Steps
<1>6. PICK origin : origin = Split(text)
  OBVIOUS
<1>7. origin \in S
  <2>1. Singles(T) \subseteq K
    BY DEF Vocabularies
  <2> QED BY <1>3, <1>6, <2>1, SplitKeeps, SeqMonotonic
<1>8. PICK g \in [0..n -> S] : g[0] = origin /\ Follows(g, n, step)
  BY <1>2, <1>5, <1>7, RecursionExists
<1>9. \A i \in 1..n : i - 1 \in 0..n
  BY <1>2
<1>10. \A i \in 1..n : g[i] = Merge(g[i - 1], merges[i])
  BY <1>4, <1>8, <1>9 DEF Follows
<1>11. \A i \in 0..n : i # 0 => i \in 1..n
  BY <1>2
<1>12. solution(g, n)
  BY <1>6, <1>8, <1>10, <1>11
<1>13. PICK c : c = CHOOSE x : solution(x, n)
  OBVIOUS
<1> HIDE DEF solution
<1>14. solution(c, n)
  BY <1>12, <1>13
<1> USE DEF solution
<1>15. Segmented(text, merges) = c[n]
  BY <1>1, <1>13 DEF Segmented
<1>16. c[0] = origin /\ \A i \in 1..n : c[i] = Merge(c[i - 1], merges[i])
  BY <1>2, <1>6, <1>9, <1>11, <1>14
<1>17. SameSteps(c, g, n)
  BY <1>8, <1>10, <1>16 DEF SameSteps
<1>18. \A i \in 0..n : c[i] = g[i]
  BY <1>2, <1>17, RecursionAgrees
<1>19. c \in [0..n -> S]
  BY <1>8, <1>14, <1>18
<1> QED BY <1>1, <1>3, <1>6, <1>15, <1>16, <1>19 DEF Segments

(* However many merges are applied, the tokens spell the text, and each is *)
(* a byte or what was merged.                                              *)
LEMMA SegmentedKeeps ==
  ASSUME NEW T, NEW K \in Vocabularies(T), NEW text \in Seq(T), NEW merges \in Seq(K)
  PROVE  /\ Segmented(text, merges) \in Seq(K)
         /\ FlattenSeq(Segmented(text, merges)) = text
<1>0. ASSUME NEW v \in Seq(K), NEW pair \in K
      PROVE  FlattenSeq(Merge(v, pair)) = FlattenSeq(v)
  BY MergeKeeps, Zenon
<1>1. PICK n : n = Len(merges)
  OBVIOUS
<1>2. n \in Nat /\ \A i \in 1..n : merges[i] \in K
  BY <1>1
<1>3. PICK c \in [0..n -> Seq(K)] : Segments(c, text, merges)
  BY <1>1, SegmentedSteps
<1>4. /\ c[0] = Split(text)
      /\ \A i \in 1..n : c[i] = Merge(c[i - 1], merges[i])
      /\ Segmented(text, merges) = c[n]
  BY <1>1, <1>3 DEF Segments
<1>5. PICK P : P = {i \in 0..n : FlattenSeq(c[i]) = text}
  OBVIOUS
<1>6. 0 \in P
  <2>1. FlattenSeq(Split(text)) = text
    BY SplitKeeps, Zenon
  <2> QED BY <1>2, <1>4, <1>5, <2>1
<1>7. ASSUME NEW i \in 1..n, i - 1 \in P PROVE i \in P
  <2>1. i \in 0..n /\ i - 1 \in 0..n
    BY <1>2
  <2>2. c[i - 1] \in Seq(K) /\ merges[i] \in K
    BY <1>2, <2>1
  <2>3. FlattenSeq(c[i]) = FlattenSeq(c[i - 1])
    BY <1>0, <1>4, <2>2
  <2> QED BY <1>5, <1>7, <2>1, <2>3
<1>8. \A i \in 1..n : i - 1 \in P => i \in P
  BY <1>7
<1>9. \A i \in 0..n : i \in P
  BY <1>2, <1>6, <1>8, UpTo
<1>10. n \in 0..n
  BY <1>2
<1> QED BY <1>3, <1>4, <1>5, <1>9, <1>10

(* A merge learned later is applied to what the earlier ones left.         *)
LEMMA SegmentedAppend ==
  ASSUME NEW T, NEW K \in Vocabularies(T), NEW text \in Seq(T),
         NEW merges \in Seq(K), NEW pair \in K
  PROVE  Segmented(text, Append(merges, pair)) = Merge(Segmented(text, merges), pair)
<1>1. PICK n : n = Len(merges)
  OBVIOUS
<1>2. PICK more : more = Append(merges, pair)
  OBVIOUS
<1>3. n \in Nat
  BY <1>1
<1>4. more \in Seq(K) /\ Len(more) = n + 1 /\ more[n + 1] = pair
      /\ \A i \in 1..n : more[i] = merges[i]
  BY <1>1, <1>2, AppendProperties
<1>5. PICK c \in [0..n -> Seq(K)] : Segments(c, text, merges)
  BY <1>1, SegmentedSteps
<1>6. PICK d \in [0..(n + 1) -> Seq(K)] : Segments(d, text, more)
  BY <1>4, SegmentedSteps
<1>7. /\ c[0] = Split(text)
      /\ \A i \in 1..n : c[i] = Merge(c[i - 1], merges[i])
      /\ Segmented(text, merges) = c[n]
  BY <1>1, <1>5 DEF Segments
<1>8. /\ d[0] = Split(text)
      /\ \A i \in 1..(n + 1) : d[i] = Merge(d[i - 1], more[i])
      /\ Segmented(text, more) = d[n + 1]
  BY <1>4, <1>6 DEF Segments
<1>9. ASSUME NEW i \in 1..n, c[i - 1] = d[i - 1] PROVE c[i] = d[i]
  <2> i \in 1..(n + 1)
    BY <1>3
  <2>1. d[i] = Merge(d[i - 1], more[i])
    BY <1>8
  <2>2. more[i] = merges[i]
    BY <1>4
  <2> QED BY <1>7, <1>9, <2>1, <2>2
<1>10. SameSteps(c, d, n)
  BY <1>7, <1>8, <1>9 DEF SameSteps
<1>11. \A i \in 0..n : c[i] = d[i]
  BY <1>3, <1>10, RecursionAgrees
<1>12. d[n + 1] = Merge(d[n], pair)
  <2>1. n + 1 \in 1..(n + 1) /\ (n + 1) - 1 = n
    BY <1>3
  <2> QED BY <1>4, <1>8, <2>1
<1>13. d[n] = c[n]
  BY <1>3, <1>11
<1> QED BY <1>2, <1>7, <1>8, <1>12, <1>13

-----------------------------------------------------------------------------
(* Encoders.                                                               *)

Encoders ==
  [learned : Seq(Seq(Bytes)), special : BOOLEAN, max : Nat, frozen : BOOLEAN,
   ids : Maps(Seq(Bytes), Nat)]

(* The tokens a text may be cut into.                                      *)
Known(e) == Singles(Bytes) \cup {e.learned[i] : i \in 1..Len(e.learned)}

(* The map gives the token the id of that token.                           *)
Knows(e, token) ==
  \E id \in Get(e.ids, token) :
    /\ Get(e.ids, token) = {id} /\ id \in Nat
    /\ id < VocabSize(e)
    /\ ~IsControl(e, id)
    /\ TokenBytes(e, id) = token

KnowsItsTokens(e) == \A token \in Known(e) : Knows(e, token)

LEMMA IdsInsert ==
  ASSUME NEW map \in Maps(Seq(Bytes), Nat), NEW key \in Seq(Bytes), NEW value \in Nat
  PROVE  /\ Insert(map, key, value) \in Maps(Seq(Bytes), Nat)
         /\ Get(Insert(map, key, value), key) = {value}
         /\ \A other \in Seq(Bytes) :
              other # key => Get(Insert(map, key, value), other) = Get(map, other)
<1>1. Bytes \subseteq Nat
  BY BytePairsAssumption DEF Bytes
<1>2. PICK Keys, Values : Keys = Seq(Bytes) /\ Values = Nat
  OBVIOUS
<1>3. map \in Maps(Keys, Values) /\ key \in Keys /\ value \in Values
  BY <1>2
<1>4. Keys \in KeySets
  BY <1>1, <1>2, SeqMonotonic DEF KeySets
<1>5. Insert(map, key, value) \in Maps(Keys, Values)
  BY <1>3, <1>4, InsertedIsFound
<1>6. Get(Insert(map, key, value), key) = {value}
  BY <1>3, <1>4, InsertedIsFound
<1>7. ASSUME NEW other \in Keys, other # key
      PROVE  Get(Insert(map, key, value), other) = Get(map, other)
  <2> other \in Seq(Nat)
    BY <1>4 DEF KeySets
  <2> QED BY <1>3, <1>4, <1>7, OthersAreKept
<1> QED BY <1>2, <1>5, <1>6, <1>7

(* The ids of the bytes, after each insertion.                             *)
ByteIds(m, max, specials) ==
  /\ m[0] = EmptyMap
  /\ \A i \in 1..ByteCount : m[i] = Insert(m[i - 1], <<i - 1>>, i - 1)
  /\ NewEncoder(max, specials) =
       [learned |-> << >>, special |-> specials, max |-> max, frozen |-> FALSE,
        ids |-> m[ByteCount]]

LEMMA ByteIdsSteps ==
  ASSUME NEW max, NEW specials
  PROVE  \E m \in [0..ByteCount -> Maps(Seq(Bytes), Nat)] : ByteIds(m, max, specials)
<1> DEFINE solution(m, n) ==
             m = [i \in 0..n |-> IF i = 0 THEN EmptyMap
                                 ELSE Insert(m[i - 1], <<i - 1>>, i - 1)]
<1>1. PICK n : n = ByteCount
  OBVIOUS
<1>2. n \in Nat /\ \A i \in 1..n : i - 1 \in Nat /\ i - 1 \in Bytes
  BY <1>1, BytePairsAssumption DEF Bytes
<1>3. \A i \in 1..n : <<i - 1>> \in Seq(Bytes)
  BY <1>2
<1>4. PICK S : S = Maps(Seq(Bytes), Nat)
  OBVIOUS
<1>5. PICK step : step = [i \in 1..n |-> [v \in S |-> Insert(v, <<i - 1>>, i - 1)]]
  OBVIOUS
<1>6. step \in Steps(n, S)
  <2>1. \A i \in 1..n : \A v \in S : Insert(v, <<i - 1>>, i - 1) \in S
    BY <1>2, <1>3, <1>4, IdsInsert
  <2> QED BY <1>5, <2>1 DEF Steps
<1>7. PICK origin : origin = EmptyMap
  OBVIOUS
<1>8. origin \in S
  <2>1. << >> \in Chains(Seq(Bytes), Nat)
    BY DEF Chains
  <2> QED BY <1>4, <1>7, <2>1 DEF Maps, EmptyMap
<1>9. PICK g \in [0..n -> S] : g[0] = origin /\ Follows(g, n, step)
  BY <1>2, <1>6, <1>8, RecursionExists
<1>10. \A i \in 1..n : i - 1 \in 0..n
  BY <1>2
<1>11. \A i \in 1..n : g[i] = Insert(g[i - 1], <<i - 1>>, i - 1)
  BY <1>5, <1>9, <1>10 DEF Follows
<1>12. \A i \in 0..n : i # 0 => i \in 1..n
  BY <1>2
<1>13. solution(g, n)
  BY <1>7, <1>9, <1>11, <1>12
<1>14. PICK m : m = CHOOSE x : solution(x, n)
  OBVIOUS
<1> HIDE DEF solution
<1>15. solution(m, n)
  BY <1>13, <1>14
<1> USE DEF solution
<1>16. NewEncoder(max, specials) =
         [learned |-> << >>, special |-> specials, max |-> max, frozen |-> FALSE,
          ids |-> m[n]]
  BY <1>1, <1>14 DEF NewEncoder
<1>17. m[0] = origin /\ \A i \in 1..n : m[i] = Insert(m[i - 1], <<i - 1>>, i - 1)
  BY <1>2, <1>7, <1>10, <1>12, <1>15
<1>18. SameSteps(m, g, n)
  BY <1>9, <1>11, <1>17 DEF SameSteps
<1>19. \A i \in 0..n : m[i] = g[i]
  BY <1>2, <1>18, RecursionAgrees
<1>20. m \in [0..n -> S]
  BY <1>9, <1>15, <1>19
<1> QED BY <1>1, <1>4, <1>7, <1>16, <1>17, <1>20 DEF ByteIds

(* A new encoder knows every byte.                                         *)
LEMMA NewEncoderKnows ==
  ASSUME NEW max \in Nat, NEW specials \in BOOLEAN
  PROVE  /\ NewEncoder(max, specials) \in Encoders
         /\ KnowsItsTokens(NewEncoder(max, specials))
         /\ NewEncoder(max, specials).learned = << >>
         /\ NewEncoder(max, specials).special = specials
         /\ NewEncoder(max, specials).max = max
         /\ NewEncoder(max, specials).frozen = FALSE
<1>1. PICK n : n = ByteCount
  OBVIOUS
<1>2. n \in Nat /\ Bytes = 0..(n - 1)
  BY <1>1, BytePairsAssumption DEF Bytes
<1>3. PICK m \in [0..n -> Maps(Seq(Bytes), Nat)] : ByteIds(m, max, specials)
  BY <1>1, ByteIdsSteps
<1>4. /\ \A i \in 1..n : m[i] = Insert(m[i - 1], <<i - 1>>, i - 1)
      /\ NewEncoder(max, specials) =
           [learned |-> << >>, special |-> specials, max |-> max, frozen |-> FALSE,
            ids |-> m[n]]
  BY <1>1, <1>3 DEF ByteIds
<1>5. PICK e : e = NewEncoder(max, specials)
  OBVIOUS
<1>6. /\ e.learned = << >> /\ e.special = specials /\ e.max = max
      /\ e.frozen = FALSE /\ e.ids = m[n]
  BY <1>4, <1>5
<1>7. e \in Encoders
  <2>1. m[n] \in Maps(Seq(Bytes), Nat)
    BY <1>2, <1>3
  <2> QED BY <1>4, <1>5, <2>1 DEF Encoders
<1>8. PICK P : P = {i \in 0..n : \A b \in 0..(i - 1) : Get(m[i], <<b>>) = {b}}
  OBVIOUS
<1>9. 0 \in P
  BY <1>2, <1>8
<1>10. ASSUME NEW i \in 1..n, i - 1 \in P PROVE i \in P
  <2>1. i \in 0..n /\ i - 1 \in 0..n /\ i - 1 \in Nat
    BY <1>2
  <2>2. m[i - 1] \in Maps(Seq(Bytes), Nat)
    BY <1>3, <2>1
  <2>3. \A b \in 0..(i - 1) : <<b>> \in Seq(Bytes)
    <3>1. \A b \in 0..(i - 1) : b \in Bytes
      BY <1>2
    <3> QED BY <3>1
  <2>4. <<i - 1>> \in Seq(Bytes)
    BY <2>1, <2>3
  <2>5. /\ Get(m[i], <<i - 1>>) = {i - 1}
        /\ \A other \in Seq(Bytes) :
             other # <<i - 1>> => Get(m[i], other) = Get(m[i - 1], other)
    <3>1. PICK map, key, value : map = m[i - 1] /\ key = <<i - 1>> /\ value = i - 1
      OBVIOUS
    <3>2. map \in Maps(Seq(Bytes), Nat) /\ key \in Seq(Bytes) /\ value \in Nat
      BY <2>1, <2>2, <2>4, <3>1
    <3>3. /\ Get(Insert(map, key, value), key) = {value}
          /\ \A other \in Seq(Bytes) :
               other # key => Get(Insert(map, key, value), other) = Get(map, other)
      BY <3>2, IdsInsert
    <3>4. m[i] = Insert(map, key, value)
      BY <1>4, <3>1
    <3> QED BY <3>1, <3>3, <3>4
  <2>6. ASSUME NEW b \in 0..(i - 1) PROVE Get(m[i], <<b>>) = {b}
    <3>1. CASE b = i - 1
      BY <2>5, <3>1
    <3>2. CASE b # i - 1
      <4>1. b \in 0..((i - 1) - 1)
        BY <2>1, <3>2
      <4>2. Get(m[i - 1], <<b>>) = {b}
        BY <1>8, <1>10, <4>1
      <4>3. <<b>> # <<i - 1>>
        BY <3>2
      <4> QED BY <2>3, <2>5, <4>2, <4>3
    <3> QED BY <3>1, <3>2
  <2> QED BY <1>8, <2>1, <2>6
<1>11. \A i \in 1..n : i - 1 \in P => i \in P
  BY <1>10
<1>12. \A i \in 0..n : i \in P
  BY <1>2, <1>9, <1>11, UpTo
<1>13. \A b \in Bytes : Get(e.ids, <<b>>) = {b}
  <2>1. n \in P
    BY <1>2, <1>12
  <2> QED BY <1>2, <1>6, <1>8, <2>1
<1>14. Known(e) = Singles(Bytes)
  BY <1>6 DEF Known
<1>15. ASSUME NEW b \in Bytes PROVE Knows(e, <<b>>)
  <2>1. b \in Nat /\ b < ByteCount
    BY <1>1, <1>2
  <2>2. b < VocabSize(e)
    BY <1>1, <1>2, <1>6, <2>1 DEF VocabSize, FirstLearned
  <2>3. ~IsControl(e, b)
    BY <1>1, <1>2, <2>1 DEF IsControl
  <2>4. TokenBytes(e, b) = <<b>>
    BY <2>1 DEF TokenBytes
  <2> QED BY <1>13, <2>1, <2>2, <2>3, <2>4 DEF Knows
<1>16. KnowsItsTokens(e)
  BY <1>14, <1>15 DEF KnowsItsTokens, Singles
<1> QED BY <1>5, <1>6, <1>7, <1>16

(* Whatever is learned, an encoder knows it and what it knew before: a     *)
(* token learned a second time gets its newer id.                          *)
LEMMA AddTokenKnows ==
  ASSUME NEW e \in Encoders, KnowsItsTokens(e), NEW token \in Seq(Bytes)
  PROVE  /\ AddToken(e, token) \in Encoders
         /\ KnowsItsTokens(AddToken(e, token))
         /\ AddToken(e, token).learned = Append(e.learned, token)
         /\ AddToken(e, token).special = e.special
         /\ AddToken(e, token).max = e.max
         /\ AddToken(e, token).frozen = e.frozen
<1>1. /\ e.learned \in Seq(Seq(Bytes)) /\ e.special \in BOOLEAN
      /\ e.ids \in Maps(Seq(Bytes), Nat)
  BY DEF Encoders
<1>2. PICK n : n = Len(e.learned)
  OBVIOUS
<1>3. n \in Nat
  BY <1>1, <1>2
<1>4. PICK first : first = FirstLearned(e.special)
  OBVIOUS
<1>5. ByteCount \in Nat /\ first \in Nat /\ first >= ByteCount
  BY <1>1, <1>4, BytePairsAssumption DEF FirstLearned
<1>6. VocabSize(e) = first + n
  BY <1>2, <1>4 DEF VocabSize
<1>7. PICK new : new = AddToken(e, token)
  OBVIOUS
<1>8. /\ new.learned = Append(e.learned, token)
      /\ new.special = e.special /\ new.max = e.max /\ new.frozen = e.frozen
      /\ new.ids = Insert(e.ids, token, first + n)
  BY <1>6, <1>7 DEF AddToken, Encoders
<1>9. /\ Insert(e.ids, token, first + n) \in Maps(Seq(Bytes), Nat)
      /\ Get(new.ids, token) = {first + n}
      /\ \A other \in Seq(Bytes) :
           other # token => Get(new.ids, other) = Get(e.ids, other)
  <2>1. PICK map, value : map = e.ids /\ value = first + n
    OBVIOUS
  <2>2. map \in Maps(Seq(Bytes), Nat) /\ value \in Nat
    BY <1>1, <1>3, <1>5, <2>1
  <2>3. /\ Insert(map, token, value) \in Maps(Seq(Bytes), Nat)
        /\ Get(Insert(map, token, value), token) = {value}
        /\ \A other \in Seq(Bytes) :
             other # token => Get(Insert(map, token, value), other) = Get(map, other)
    BY <2>2, IdsInsert
  <2> QED BY <1>8, <2>1, <2>3
<1>10. /\ new.learned \in Seq(Seq(Bytes)) /\ Len(new.learned) = n + 1
       /\ new.learned[n + 1] = token
       /\ \A i \in 1..n : new.learned[i] = e.learned[i]
  BY <1>1, <1>2, <1>8, AppendProperties
<1>11. new \in Encoders
  <2>1. new = [e EXCEPT !.learned = Append(e.learned, token),
                        !.ids = Insert(e.ids, token, first + n)]
    BY <1>6, <1>7 DEF AddToken
  <2>2. Append(e.learned, token) \in Seq(Seq(Bytes))
    BY <1>8, <1>10
  <2> QED BY <1>9, <2>1, <2>2 DEF Encoders
<1>12. VocabSize(new) = first + n + 1
  BY <1>3, <1>4, <1>5, <1>8, <1>10 DEF VocabSize
<1>13. Knows(new, token)
  <2>1. first + n \in Nat /\ first + n < VocabSize(new)
    BY <1>3, <1>5, <1>12
  <2>2. ~IsControl(new, first + n)
    BY <1>3, <1>4, <1>5, <1>8 DEF IsControl
  <2>3. TokenBytes(new, first + n) = token
    BY <1>3, <1>4, <1>5, <1>8, <1>10 DEF TokenBytes
  <2> QED BY <1>9, <2>1, <2>2, <2>3 DEF Knows
<1>14. ASSUME NEW other \in Seq(Bytes), other # token, Knows(e, other)
       PROVE  Knows(new, other)
  <2>1. PICK id \in Nat : /\ Get(e.ids, other) = {id}
                          /\ id < VocabSize(e)
                          /\ ~IsControl(e, id)
                          /\ TokenBytes(e, id) = other
    BY <1>14 DEF Knows
  <2>2. Get(new.ids, other) = {id}
    BY <1>9, <1>14, <2>1
  <2>3. id < VocabSize(new)
    BY <1>3, <1>5, <1>6, <1>12, <2>1
  <2>4. ~IsControl(new, id)
    BY <1>8, <2>1 DEF IsControl
  <2>5. TokenBytes(new, id) = other
    <3>1. CASE id < ByteCount
      BY <2>1, <3>1 DEF TokenBytes
    <3>2. CASE ~(id < ByteCount)
      <4>1. id >= first
        <5>1. CASE e.special
          <6>1. id \notin ByteCount..(first - 1)
            BY <1>4, <2>1, <5>1 DEF IsControl
          <6> QED BY <1>5, <3>2, <6>1
        <5>2. CASE ~e.special
          BY <1>4, <1>5, <3>2, <5>2 DEF FirstLearned
        <5> QED BY <5>1, <5>2
      <4>2. id - first + 1 \in 1..n
        BY <1>3, <1>5, <1>6, <2>1, <4>1
      <4>3. new.learned[id - first + 1] = e.learned[id - first + 1]
        BY <1>10, <4>2
      <4>4. TokenBytes(e, id) = e.learned[id - first + 1]
        BY <1>4, <3>2 DEF TokenBytes
      <4>5. TokenBytes(new, id) = new.learned[id - first + 1]
        BY <1>4, <1>8, <3>2 DEF TokenBytes
      <4> QED BY <2>1, <4>3, <4>4, <4>5
    <3> QED BY <3>1, <3>2
  <2> QED BY <2>2, <2>3, <2>4, <2>5 DEF Knows
<1>15. \A other \in Known(new) : other = token \/ other \in Known(e)
  <2>1. \A i \in 1..(n + 1) : i \in 1..n \/ i = n + 1
    BY <1>3
  <2> QED BY <1>2, <1>10, <2>1 DEF Known
<1>16. Known(e) \subseteq Seq(Bytes)
  <2>1. \A b \in Bytes : <<b>> \in Seq(Bytes)
    OBVIOUS
  <2>2. \A i \in 1..Len(e.learned) : e.learned[i] \in Seq(Bytes)
    BY <1>1
  <2> QED BY <2>1, <2>2 DEF Known, Singles
<1>17. KnowsItsTokens(new)
  BY <1>13, <1>14, <1>15, <1>16 DEF KnowsItsTokens
<1> QED BY <1>7, <1>8, <1>11, <1>17

-----------------------------------------------------------------------------
(* A text encoded and then decoded.                                        *)

LEMMA KnownIsVocabulary ==
  ASSUME NEW e \in Encoders
  PROVE  Known(e) \in Vocabularies(Bytes) /\ e.learned \in Seq(Known(e))
<1>1. e.learned \in Seq(Seq(Bytes))
  BY DEF Encoders
<1>2. \A b \in Bytes : <<b>> \in Seq(Bytes)
  OBVIOUS
<1>3. \A i \in 1..Len(e.learned) : e.learned[i] \in Seq(Bytes)
  BY <1>1
<1>4. Known(e) \in Vocabularies(Bytes)
  BY <1>2, <1>3 DEF Known, Singles, Vocabularies
<1>5. \A i \in 1..Len(e.learned) : e.learned[i] \in Known(e)
  BY DEF Known
<1>6. e.learned \in Seq(Known(e))
  <2>1. PICK s, K : s = e.learned /\ K = Known(e)
    OBVIOUS
  <2>2. s \in Seq(Seq(Bytes)) /\ \A i \in 1..Len(s) : s[i] \in K
    BY <1>1, <1>5, <2>1
  <2>3. s = [i \in 1..Len(s) |-> s[i]] /\ Len(s) \in Nat
    BY <2>2
  <2>4. s \in [1..Len(s) -> K]
    BY <2>2, <2>3
  <2>5. s \in Seq(K)
    BY <2>3, <2>4
  <2> QED BY <2>1, <2>5
<1> QED BY <1>4, <1>6

LEMMA DecodeEncode ==
  ASSUME NEW e \in Encoders, KnowsItsTokens(e), NEW text \in Seq(Bytes)
  PROVE  Decode(e, Encode(e, text)) = text
<1>1. PICK K : K = Known(e)
  OBVIOUS
<1>2. K \in Vocabularies(Bytes) /\ e.learned \in Seq(K)
  BY <1>1, KnownIsVocabulary
<1>3. PICK tokens : tokens = Segmented(text, e.learned)
  OBVIOUS
<1>4. tokens \in Seq(K)
  BY <1>2, <1>3, SegmentedKeeps
<1>5. FlattenSeq(tokens) = text
  <2>1. PICK merges : merges = e.learned
    OBVIOUS
  <2>2. merges \in Seq(K)
    BY <1>2, <2>1
  <2>3. FlattenSeq(Segmented(text, merges)) = text
    BY <1>2, <2>2, SegmentedKeeps, Zenon
  <2> QED BY <1>3, <2>1, <2>3
<1>6. PICK n : n = Len(tokens)
  OBVIOUS
<1>7. n \in Nat /\ \A i \in 1..n : tokens[i] \in K
  BY <1>4, <1>6
<1>8. PICK ids : ids = Encode(e, text)
  OBVIOUS
<1>9. ids = [i \in 1..n |-> IdOf(e, tokens[i])]
  BY <1>3, <1>6, <1>8 DEF Encode
<1>10. Len(ids) = n
  BY <1>7, <1>9
<1>11. PICK read : read = [i \in 1..n |->
                              IF ids[i] < VocabSize(e) /\ ~IsControl(e, ids[i])
                              THEN TokenBytes(e, ids[i]) ELSE << >>]
  OBVIOUS
<1>12. Decode(e, ids) = FlattenSeq(read)
  BY <1>10, <1>11 DEF Decode
<1>13. ASSUME NEW i \in 1..n PROVE read[i] = tokens[i]
  <2>1. Knows(e, tokens[i])
    BY <1>1, <1>7 DEF KnowsItsTokens
  <2>2. PICK id \in Nat : /\ Get(e.ids, tokens[i]) = {id}
                          /\ id < VocabSize(e)
                          /\ ~IsControl(e, id)
                          /\ TokenBytes(e, id) = tokens[i]
    BY <2>1 DEF Knows
  <2>3. IdOf(e, tokens[i]) = id
    BY <2>2 DEF IdOf
  <2> QED BY <1>9, <1>11, <2>2, <2>3
<1>14. read = tokens
  <2>1. read = [i \in 1..n |-> read[i]]
    BY <1>11
  <2>2. tokens = [i \in 1..n |-> tokens[i]]
    BY <1>4, <1>6
  <2> QED BY <1>13, <2>1, <2>2
<1> QED BY <1>5, <1>8, <1>12, <1>14

-----------------------------------------------------------------------------
(* A vocabulary that is read is built as it was learned.                   *)

(* The encoder after each token.                                           *)
Restores(r, max, specials, tokens) ==
  /\ r[0] = NewEncoder(max, specials)
  /\ \A i \in 1..Len(tokens) : r[i] = AddToken(r[i - 1], tokens[i])
  /\ Restored(max, specials, tokens) = r[Len(tokens)]

(* Encoders that know their tokens.                                        *)
Readers == {e \in Encoders : KnowsItsTokens(e)}

LEMMA RestoredSteps ==
  ASSUME NEW max \in Nat, NEW specials \in BOOLEAN, NEW tokens \in Seq(Seq(Bytes))
  PROVE  \E r \in [0..Len(tokens) -> Readers] : Restores(r, max, specials, tokens)
<1> DEFINE solution(r, n) ==
             r = [i \in 0..n |-> IF i = 0 THEN NewEncoder(max, specials)
                                 ELSE AddToken(r[i - 1], tokens[i])]
<1>0. ASSUME NEW e \in Readers, NEW token \in Seq(Bytes) PROVE AddToken(e, token) \in Readers
  BY AddTokenKnows DEF Readers
<1>1. PICK n : n = Len(tokens)
  OBVIOUS
<1>2. n \in Nat /\ \A i \in 1..n : tokens[i] \in Seq(Bytes)
  BY <1>1
<1>3. PICK S : S = Readers
  OBVIOUS
<1>4. PICK step : step = [i \in 1..n |-> [v \in S |-> AddToken(v, tokens[i])]]
  OBVIOUS
<1>5. step \in Steps(n, S)
  <2>1. \A i \in 1..n : \A v \in S : AddToken(v, tokens[i]) \in S
    BY <1>0, <1>2, <1>3
  <2> QED BY <1>4, <2>1 DEF Steps
<1>6. PICK origin : origin = NewEncoder(max, specials)
  OBVIOUS
<1>7. origin \in S
  BY <1>3, <1>6, NewEncoderKnows DEF Readers
<1>8. PICK g \in [0..n -> S] : g[0] = origin /\ Follows(g, n, step)
  BY <1>2, <1>5, <1>7, RecursionExists
<1>9. \A i \in 1..n : i - 1 \in 0..n
  BY <1>2
<1>10. \A i \in 1..n : g[i] = AddToken(g[i - 1], tokens[i])
  BY <1>4, <1>8, <1>9 DEF Follows
<1>11. \A i \in 0..n : i # 0 => i \in 1..n
  BY <1>2
<1>12. solution(g, n)
  BY <1>6, <1>8, <1>10, <1>11
<1>13. PICK r : r = CHOOSE x : solution(x, n)
  OBVIOUS
<1> HIDE DEF solution
<1>14. solution(r, n)
  BY <1>12, <1>13
<1> USE DEF solution
<1>15. Restored(max, specials, tokens) = r[n]
  BY <1>1, <1>13 DEF Restored
<1>16. r[0] = origin /\ \A i \in 1..n : r[i] = AddToken(r[i - 1], tokens[i])
  BY <1>2, <1>6, <1>9, <1>11, <1>14
<1>17. SameSteps(r, g, n)
  BY <1>8, <1>10, <1>16 DEF SameSteps
<1>18. \A i \in 0..n : r[i] = g[i]
  <2> n \in Nat
    BY <1>2
  <2> QED BY <1>17, RecursionAgrees
<1>19. r \in [0..n -> S]
  BY <1>8, <1>14, <1>18
<1> QED BY <1>1, <1>3, <1>6, <1>15, <1>16, <1>19 DEF Restores

LEMMA RestoredEmpty ==
  ASSUME NEW max \in Nat, NEW specials \in BOOLEAN
  PROVE  Restored(max, specials, << >>) = NewEncoder(max, specials)
<1>1. PICK tokens : tokens = << >>
  OBVIOUS
<1>2. tokens \in Seq(Seq(Bytes)) /\ Len(tokens) = 0
  BY <1>1
<1>3. PICK r \in [0..Len(tokens) -> Readers] : Restores(r, max, specials, tokens)
  BY <1>2, RestoredSteps
<1> QED BY <1>1, <1>2, <1>3 DEF Restores

LEMMA RestoredAppend ==
  ASSUME NEW max \in Nat, NEW specials \in BOOLEAN, NEW tokens \in Seq(Seq(Bytes)),
         NEW token \in Seq(Bytes)
  PROVE  Restored(max, specials, Append(tokens, token))
           = AddToken(Restored(max, specials, tokens), token)
<1>1. PICK n : n = Len(tokens)
  OBVIOUS
<1>2. PICK more : more = Append(tokens, token)
  OBVIOUS
<1>3. n \in Nat
  BY <1>1
<1>4. more \in Seq(Seq(Bytes)) /\ Len(more) = n + 1 /\ more[n + 1] = token
      /\ \A i \in 1..n : more[i] = tokens[i]
  BY <1>1, <1>2, AppendProperties
<1>5. PICK r \in [0..n -> Readers] : Restores(r, max, specials, tokens)
  BY <1>1, RestoredSteps
<1>6. PICK q \in [0..(n + 1) -> Readers] : Restores(q, max, specials, more)
  BY <1>4, RestoredSteps
<1>7. /\ r[0] = NewEncoder(max, specials)
      /\ \A i \in 1..n : r[i] = AddToken(r[i - 1], tokens[i])
      /\ Restored(max, specials, tokens) = r[n]
  BY <1>1, <1>5 DEF Restores
<1>8. /\ q[0] = NewEncoder(max, specials)
      /\ \A i \in 1..(n + 1) : q[i] = AddToken(q[i - 1], more[i])
      /\ Restored(max, specials, more) = q[n + 1]
  BY <1>4, <1>6 DEF Restores
<1>9. ASSUME NEW i \in 1..n, r[i - 1] = q[i - 1] PROVE r[i] = q[i]
  <2> i \in 1..(n + 1)
    BY <1>3
  <2>1. q[i] = AddToken(q[i - 1], more[i])
    BY <1>8
  <2>2. more[i] = tokens[i]
    BY <1>4
  <2> QED BY <1>7, <1>9, <2>1, <2>2
<1>10. SameSteps(r, q, n)
  BY <1>7, <1>8, <1>9 DEF SameSteps
<1>11. \A i \in 0..n : r[i] = q[i]
  BY <1>3, <1>10, RecursionAgrees
<1>12. q[n + 1] = AddToken(q[n], token)
  <2>1. n + 1 \in 1..(n + 1) /\ (n + 1) - 1 = n
    BY <1>3
  <2> QED BY <1>4, <1>8, <2>1
<1>13. q[n] = r[n]
  BY <1>3, <1>11
<1> QED BY <1>2, <1>7, <1>8, <1>12, <1>13

-----------------------------------------------------------------------------
(* The invariant.                                                          *)

Spelled == Seq(Bytes) \ {<< >>}

(* An encoder that can be written, knows its tokens and fits its table.    *)
Sound(e) ==
  /\ e \in Encoders
  /\ KnowsItsTokens(e)
  /\ \A i \in 1..Len(e.learned) : LengthOK(e.learned[i])
  /\ VocabSize(e) <= e.max

EncoderInv ==
  /\ stage \in {"scan", "train"} =>
       /\ Sound(encoder) /\ encoder.frozen = FALSE
       /\ encoder = Restored(encoder.max, encoder.special, encoder.learned)
       /\ file = None
  /\ stage = "ready" => Sound(original) /\ encoder = original
  /\ stage = "closed" => encoder = None

(* What was trained is what its file says, and a file is a part of it.     *)
FileInv ==
  /\ stage = "ready" \/ file # None =>
       /\ Sound(original)
       /\ original = [Restored(original.max, original.special, original.learned)
                        EXCEPT !.frozen = TRUE]
  /\ file # None =>
       \E n \in 0..Len(Units(original)) : file = SubSeq(Units(original), 1, n)

TrainingInv ==
  /\ chunks \in Seq(Spelled)
  /\ stage = "train" =>
       /\ working \in Seq(Spelled)
       /\ chunk.text \in Spelled
       /\ chunk.known \in 0..Len(encoder.learned)
       /\ EncodingFollowsTraining

VocabularyInv ==
  /\ stage \in {"scan", "train", "ready", "closed"}
  /\ EncoderInv
  /\ FileInv
  /\ TrainingInv

LEMMA SpelledIsVocabulary == Spelled \in Vocabularies(Bytes)
<1>1. \A b \in Bytes : <<b>> \in Seq(Bytes) /\ <<b>> # << >>
  OBVIOUS
<1> QED BY <1>1 DEF Spelled, Vocabularies, Singles

LEMMA SoundAdd ==
  ASSUME NEW e, Sound(e), HasRoom(e), NEW token \in Seq(Bytes), LengthOK(token)
  PROVE  Sound(AddToken(e, token))
<1>1. PICK n : n = Len(e.learned)
  OBVIOUS
<1>2. e \in Encoders /\ KnowsItsTokens(e) /\ VocabSize(e) < e.max
  BY DEF Sound, HasRoom
<1>3. e.learned \in Seq(Seq(Bytes)) /\ e.max \in Nat /\ e.special \in BOOLEAN
  BY <1>2 DEF Encoders
<1>4. n \in Nat
  BY <1>1, <1>3
<1>5. PICK new : new = AddToken(e, token)
  OBVIOUS
<1>6. /\ new \in Encoders /\ KnowsItsTokens(new)
      /\ new.learned = Append(e.learned, token)
      /\ new.special = e.special /\ new.max = e.max
  BY <1>2, <1>5, AddTokenKnows
<1>7. /\ Len(new.learned) = n + 1 /\ new.learned[n + 1] = token
      /\ \A i \in 1..n : new.learned[i] = e.learned[i]
  BY <1>1, <1>3, <1>6, AppendProperties
<1>8. \A i \in 1..Len(new.learned) : LengthOK(new.learned[i])
  <2>1. \A i \in 1..(n + 1) : i \in 1..n \/ i = n + 1
    BY <1>4
  <2>2. \A i \in 1..n : LengthOK(e.learned[i])
    BY <1>1 DEF Sound
  <2> QED BY <1>7, <2>1, <2>2
<1>9. VocabSize(new) <= new.max
  <2>1. FirstLearned(e.special) \in Nat
    BY <1>3, BytePairsAssumption DEF FirstLearned
  <2>2. VocabSize(new) = VocabSize(e) + 1
    BY <1>1, <1>4, <1>6, <1>7, <2>1 DEF VocabSize
  <2>3. VocabSize(e) \in Nat
    BY <1>1, <1>4, <2>1 DEF VocabSize
  <2> QED BY <1>2, <1>3, <1>6, <2>2, <2>3
<1> QED BY <1>5, <1>6, <1>8, <1>9 DEF Sound

LEMMA VocabularyInitial == VocabularyInit => VocabularyInv
<1> SUFFICES ASSUME VocabularyInit PROVE VocabularyInv
  OBVIOUS
<1>1. PICK specials \in BOOLEAN, room \in Rooms :
        encoder = NewEncoder(FirstLearned(specials) + room, specials)
  BY DEF VocabularyInit
<1>2. PICK max : max = FirstLearned(specials) + room
  OBVIOUS
<1>3. max \in Nat /\ FirstLearned(specials) \in Nat /\ FirstLearned(specials) <= max
  BY <1>2, BytePairsAssumption DEF FirstLearned
<1>4. /\ encoder \in Encoders /\ KnowsItsTokens(encoder)
      /\ encoder.learned = << >> /\ encoder.special = specials
      /\ encoder.max = max /\ encoder.frozen = FALSE
  BY <1>1, <1>2, <1>3, NewEncoderKnows
<1>5. Sound(encoder)
  BY <1>3, <1>4 DEF Sound, VocabSize
<1>6. encoder = Restored(encoder.max, encoder.special, encoder.learned)
  BY <1>1, <1>2, <1>3, <1>4, RestoredEmpty
<1>7. stage = "scan" /\ file = None /\ chunks \in Corpora
  BY DEF VocabularyInit
<1>8. EncoderInv
  BY <1>4, <1>5, <1>6, <1>7 DEF EncoderInv
<1>9. FileInv
  BY <1>7 DEF FileInv
<1>10. TrainingInv
  BY <1>7, BytePairsAssumption DEF TrainingInv, Spelled
<1> QED BY <1>7, <1>8, <1>9, <1>10 DEF VocabularyInv

-----------------------------------------------------------------------------
(* The steps of training.                                                  *)

LEMMA ReadChunkKeeps == VocabularyInv /\ ReadChunk => VocabularyInv'
<1> SUFFICES ASSUME VocabularyInv, ReadChunk PROVE VocabularyInv'
  OBVIOUS
<1>1. /\ stage = "scan" /\ chunks # << >> /\ chunks' = Tail(chunks)
      /\ encoder' = encoder /\ file' = file /\ original' = original
  BY DEF ReadChunk
<1>2. stage' \in {"scan", "train"}
  BY <1>1 DEF ReadChunk
<1>3. /\ Sound(encoder) /\ encoder.frozen = FALSE
      /\ encoder = Restored(encoder.max, encoder.special, encoder.learned)
      /\ file = None
  BY <1>1 DEF VocabularyInv, EncoderInv
<1>4. EncoderInv'
  BY <1>1, <1>2, <1>3 DEF EncoderInv, Sound
<1>5. FileInv'
  BY <1>1, <1>2, <1>3 DEF FileInv
<1>6. chunks \in Seq(Spelled)
  BY DEF VocabularyInv, TrainingInv
<1>7. chunks' \in Seq(Spelled) /\ Head(chunks) \in Spelled
  BY <1>1, <1>6, HeadTailProperties
<1>8. CASE HasRoom(encoder)
  <2>1. /\ working' = Split(Head(chunks))
        /\ chunk' = [text |-> Head(chunks), known |-> Len(encoder.learned)]
    BY <1>8 DEF ReadChunk
  <2>2. PICK text, m : text = Head(chunks) /\ m = Len(encoder.learned)
    OBVIOUS
  <2>3. text \in Spelled /\ text \in Seq(Bytes)
    BY <1>7, <2>2 DEF Spelled
  <2>4. encoder.learned \in Seq(Seq(Bytes))
    BY <1>3 DEF Sound, Encoders
  <2>5. m \in Nat
    BY <2>2, <2>4
  <2>6. chunk'.text = text /\ chunk'.known = m
    BY <2>1, <2>2
  <2>7. Split(text) \in Seq(Spelled)
    <3>1. Singles(Bytes) \subseteq Spelled
      BY SpelledIsVocabulary DEF Vocabularies
    <3>2. Split(text) \in Seq(Singles(Bytes))
      BY <2>3, SplitKeeps
    <3> QED BY <3>1, <3>2, SeqMonotonic
  <2>8. SubSeq(encoder.learned, m + 1, m) = << >>
    BY <2>5, SubSeqEmpty
  <2>9. Segmented(text, << >>) = Split(text)
    <3>1. PICK merges : merges = << >>
      OBVIOUS
    <3>2. merges \in Seq(Spelled) /\ Len(merges) = 0
      BY <3>1
    <3>3. PICK c \in [0..Len(merges) -> Seq(Spelled)] : Segments(c, text, merges)
      BY <2>3, <3>2, SpelledIsVocabulary, SegmentedSteps
    <3> QED BY <3>1, <3>2, <3>3 DEF Segments
  <2>10. EncodingFollowsTraining'
    BY <1>1, <2>1, <2>2, <2>6, <2>8, <2>9 DEF EncodingFollowsTraining
  <2>11. working' \in Seq(Spelled) /\ chunk'.text \in Spelled
         /\ chunk'.known \in 0..Len(encoder'.learned)
    BY <1>1, <2>1, <2>2, <2>3, <2>5, <2>6, <2>7
  <2>12. TrainingInv'
    BY <1>7, <2>10, <2>11 DEF TrainingInv
  <2> QED BY <1>2, <1>4, <1>5, <2>12 DEF VocabularyInv
<1>9. CASE ~HasRoom(encoder)
  <2>1. stage' = "scan"
    BY <1>1, <1>9 DEF ReadChunk
  <2>2. TrainingInv'
    BY <1>7, <2>1 DEF TrainingInv
  <2> QED BY <1>2, <1>4, <1>5, <2>2 DEF VocabularyInv
<1> QED BY <1>8, <1>9

(* What was appended since is appended to what was added since.            *)
LEMMA SubSeqAppend ==
  ASSUME NEW S, NEW seq \in Seq(S), NEW last \in S, NEW k \in 0..Len(seq)
  PROVE  SubSeq(Append(seq, last), k + 1, Len(seq) + 1)
           = Append(SubSeq(seq, k + 1, Len(seq)), last)
<1>1. PICK n : n = Len(seq)
  OBVIOUS
<1>2. PICK more : more = Append(seq, last)
  OBVIOUS
<1>3. n \in Nat /\ k \in 0..n
  BY <1>1
<1>4. more \in Seq(S) /\ Len(more) = n + 1 /\ more[n + 1] = last
      /\ \A i \in 1..n : more[i] = seq[i]
  BY <1>1, <1>2, AppendProperties
<1>5. SubSeq(more, k + 1, n + 1) = SubSeq(more, k + 1, n) \o <<last>>
  <2>1. k + 1 \in 1..Len(more) /\ n + 1 \in (k + 1)..Len(more) /\ (n + 1) - 1 = n
    BY <1>3, <1>4
  <2> QED BY <1>4, <2>1, SubSeqRecursiveSecond
<1>6. PICK x, y : x = SubSeq(more, k + 1, n) /\ y = SubSeq(seq, k + 1, n)
  OBVIOUS
<1>7. /\ x \in Seq(S) /\ Len(x) = n - k
      /\ \A i \in 1..(n - k) : x[i] = more[(k + 1) + i - 1]
  <2>1. k + 1 \in Int /\ n \in Int
        /\ (IF k + 1 <= n THEN n - (k + 1) + 1 ELSE 0) = n - k
        /\ n - (k + 1) + 1 = n - k
    BY <1>3
  <2>2. \A i \in (k + 1)..n : more[i] \in S
    BY <1>3, <1>4
  <2> QED BY <1>6, <2>1, <2>2, SubSeqProperties
<1>8. /\ y \in Seq(S) /\ Len(y) = n - k
      /\ \A i \in 1..(n - k) : y[i] = seq[(k + 1) + i - 1]
  <2>1. k + 1 \in Int /\ n \in Int
        /\ (IF k + 1 <= n THEN n - (k + 1) + 1 ELSE 0) = n - k
        /\ n - (k + 1) + 1 = n - k
    BY <1>3
  <2>2. \A i \in (k + 1)..n : seq[i] \in S
    BY <1>1, <1>3
  <2> QED BY <1>6, <2>1, <2>2, SubSeqProperties
<1>9. \A i \in 1..(n - k) : x[i] = y[i]
  <2>1. \A i \in 1..(n - k) : (k + 1) + i - 1 \in 1..n
    BY <1>3
  <2>2. \A i \in 1..n : more[i] = seq[i]
    BY <1>4
  <2> QED BY <1>7, <1>8, <2>1, <2>2
<1>10. x = y
  BY <1>7, <1>8, <1>9, SeqEqual
<1>11. Append(y, last) = y \o <<last>>
  BY <1>8, AppendIsConcat
<1> QED BY <1>1, <1>2, <1>5, <1>6, <1>10, <1>11

LEMMA LearnKeeps == VocabularyInv /\ Learn => VocabularyInv'
<1> SUFFICES ASSUME VocabularyInv, Learn PROVE VocabularyInv'
  OBVIOUS
<1>1. /\ stage = "train" /\ HasRoom(encoder)
      /\ stage' = stage /\ chunks' = chunks /\ file' = file
      /\ chunk' = chunk /\ original' = original
  BY DEF Learn
<1>2. PICK pair \in MostFrequent :
        working' = Merge(working, pair) /\ encoder' = AddToken(encoder, pair)
  BY DEF Learn
<1>3. /\ Sound(encoder) /\ encoder.frozen = FALSE
      /\ encoder = Restored(encoder.max, encoder.special, encoder.learned)
      /\ file = None
  BY <1>1 DEF VocabularyInv, EncoderInv
<1>4. /\ chunks \in Seq(Spelled) /\ working \in Seq(Spelled)
      /\ chunk.text \in Spelled /\ chunk.known \in 0..Len(encoder.learned)
      /\ EncodingFollowsTraining
  BY <1>1 DEF VocabularyInv, TrainingInv
<1>5. encoder \in Encoders /\ KnowsItsTokens(encoder)
  BY <1>3 DEF Sound
<1>6. /\ encoder.learned \in Seq(Seq(Bytes)) /\ encoder.max \in Nat
      /\ encoder.special \in BOOLEAN
  BY <1>5 DEF Encoders
<1>7. pair \in Spelled /\ LengthOK(pair)
  <2>1. PICK i \in 1..(Len(working) - 1) : pair = PairAt(i) /\ Fits(pair)
    BY <1>2 DEF MostFrequent
  <2>2. i \in 1..Len(working) /\ i + 1 \in 1..Len(working)
    BY <1>4
  <2>3. PICK x, y : x = working[i] /\ y = working[i + 1]
    OBVIOUS
  <2>4. x \in Spelled /\ y \in Spelled
    BY <1>4, <2>2, <2>3
  <2>5. x \in Seq(Bytes) /\ y \in Seq(Bytes) /\ x # << >>
    BY <2>4 DEF Spelled
  <2>6. x \o y \in Seq(Bytes) /\ Len(x \o y) = Len(x) + Len(y)
        /\ Len(x) \in Nat /\ Len(y) \in Nat /\ Len(x) # 0
    BY <2>5, ConcatProperties, EmptySeq
  <2>7. pair = x \o y
    BY <2>1, <2>3 DEF PairAt
  <2>8. pair \in Seq(Bytes) /\ Len(pair) \in Nat \ {0}
    BY <2>6, <2>7
  <2>9. pair # << >>
    BY <2>8
  <2>10. Len(pair) < MaxPairLen
    BY <2>1, <2>8, BytePairsAssumption DEF Fits
  <2> QED BY <2>8, <2>9, <2>10 DEF Spelled, LengthOK
<1>8. pair \in Seq(Bytes)
  BY <1>7 DEF Spelled
<1>9. Sound(encoder')
  BY <1>1, <1>2, <1>3, <1>7, <1>8, SoundAdd
<1>10. /\ encoder'.learned = Append(encoder.learned, pair)
       /\ encoder'.special = encoder.special /\ encoder'.max = encoder.max
       /\ encoder'.frozen = FALSE
  BY <1>2, <1>3, <1>5, <1>8, AddTokenKnows
<1>11. encoder' = Restored(encoder'.max, encoder'.special, encoder'.learned)
  <2>1. PICK max, specials, tokens :
          max = encoder.max /\ specials = encoder.special /\ tokens = encoder.learned
    OBVIOUS
  <2>2. max \in Nat /\ specials \in BOOLEAN /\ tokens \in Seq(Seq(Bytes))
    BY <1>6, <2>1
  <2>3. Restored(max, specials, Append(tokens, pair))
          = AddToken(Restored(max, specials, tokens), pair)
    BY <1>8, <2>2, RestoredAppend
  <2> QED BY <1>2, <1>3, <1>10, <2>1, <2>3
<1>12. EncoderInv'
  BY <1>1, <1>3, <1>9, <1>10, <1>11 DEF EncoderInv, Sound
<1>13. FileInv'
  BY <1>1, <1>3 DEF FileInv
<1>14. working' \in Seq(Spelled)
  BY <1>2, <1>4, <1>7, SpelledIsVocabulary, MergeKeeps
<1>15. PICK n, known, text : n = Len(encoder.learned) /\ known = chunk.known
                             /\ text = chunk.text
  OBVIOUS
<1>16. n \in Nat /\ known \in 0..n
  BY <1>4, <1>6, <1>15
<1>17. Len(encoder'.learned) = n + 1
  BY <1>6, <1>8, <1>10, <1>15, AppendProperties
<1>18. EncodingFollowsTraining'
  <2>1. PICK tokens, merges : tokens = encoder.learned
                              /\ merges = SubSeq(encoder.learned, known + 1, n)
    OBVIOUS
  <2>2. working = Segmented(text, merges)
    BY <1>1, <1>4, <1>15, <2>1 DEF EncodingFollowsTraining
  <2>3. \A i \in 1..n : tokens[i] \in Spelled
    <3>1. \A i \in 1..n : tokens[i] \in Seq(Bytes) /\ Len(tokens[i]) > 0
      BY <1>3, <1>6, <1>15, <2>1 DEF Sound, LengthOK
    <3> QED BY <3>1 DEF Spelled
  <2>4. tokens \in Seq(Seq(Bytes)) /\ Len(tokens) = n
    BY <1>6, <1>15, <2>1
  <2>5. merges \in Seq(Spelled)
    <3>1. \A i \in (known + 1)..n : tokens[i] \in Spelled
      BY <1>16, <2>3
    <3> QED BY <1>16, <2>1, <3>1, SubSeqProperties
  <2>6. SubSeq(Append(tokens, pair), known + 1, n + 1) = Append(merges, pair)
    <3>1. known \in 0..Len(tokens)
      BY <1>16, <2>4
    <3> QED BY <1>8, <2>1, <2>4, <3>1, SubSeqAppend
  <2>7. text \in Seq(Bytes)
    BY <1>4, <1>15 DEF Spelled
  <2>8. Segmented(text, Append(merges, pair)) = Merge(Segmented(text, merges), pair)
    BY <1>7, <2>5, <2>7, SpelledIsVocabulary, SegmentedAppend
  <2> QED BY <1>1, <1>2, <1>10, <1>15, <1>17, <2>1, <2>2, <2>6, <2>8
          DEF EncodingFollowsTraining
<1>19. TrainingInv'
  <2>1. chunk'.known \in 0..Len(encoder'.learned)
    BY <1>1, <1>15, <1>16, <1>17
  <2> QED BY <1>1, <1>4, <1>14, <1>18, <2>1 DEF TrainingInv
<1> QED BY <1>1, <1>12, <1>13, <1>19 DEF VocabularyInv

LEMMA EndChunkKeeps == VocabularyInv /\ EndChunk => VocabularyInv'
<1> SUFFICES ASSUME VocabularyInv, EndChunk PROVE VocabularyInv'
  OBVIOUS
<1>1. /\ stage = "train" /\ stage' = "scan" /\ encoder' = encoder
      /\ chunks' = chunks /\ file' = file /\ original' = original
  BY DEF EndChunk
<1>2. EncoderInv'
  BY <1>1 DEF VocabularyInv, EncoderInv, Sound
<1>3. FileInv'
  BY <1>1 DEF VocabularyInv, EncoderInv, FileInv
<1>4. TrainingInv'
  BY <1>1 DEF VocabularyInv, TrainingInv
<1> QED BY <1>1, <1>2, <1>3, <1>4 DEF VocabularyInv

LEMMA FreezeKeeps == VocabularyInv /\ Freeze => VocabularyInv'
<1> SUFFICES ASSUME VocabularyInv, Freeze PROVE VocabularyInv'
  OBVIOUS
<1>1. /\ stage = "scan" /\ stage' = "ready" /\ original' = encoder'
      /\ encoder' = [encoder EXCEPT !.frozen = TRUE]
      /\ chunks' = chunks /\ file' = file
  BY DEF Freeze
<1>2. /\ Sound(encoder)
      /\ encoder = Restored(encoder.max, encoder.special, encoder.learned)
      /\ file = None
  BY <1>1 DEF VocabularyInv, EncoderInv
<1>3. encoder \in Encoders
  BY <1>2 DEF Sound
<1>4. PICK new : new = encoder'
  OBVIOUS
<1>5. /\ new \in Encoders
      /\ new.learned = encoder.learned /\ new.special = encoder.special
      /\ new.max = encoder.max /\ new.ids = encoder.ids
  BY <1>1, <1>3, <1>4 DEF Encoders
<1>6. Sound(new)
  <2>1. VocabSize(new) = VocabSize(encoder)
    BY <1>5 DEF VocabSize
  <2>2. \A id : IsControl(new, id) = IsControl(encoder, id)
                /\ TokenBytes(new, id) = TokenBytes(encoder, id)
    BY <1>5 DEF IsControl, TokenBytes
  <2>3. KnowsItsTokens(encoder) /\ VocabSize(encoder) <= encoder.max
        /\ \A i \in 1..Len(encoder.learned) : LengthOK(encoder.learned[i])
    BY <1>2 DEF Sound
  <2>4. Known(new) = Known(encoder)
    BY <1>5 DEF Known
  <2>5. ASSUME NEW token, Knows(encoder, token) PROVE Knows(new, token)
    BY <1>5, <2>1, <2>2, <2>5 DEF Knows
  <2>6. KnowsItsTokens(new)
    BY <2>3, <2>4, <2>5 DEF KnowsItsTokens
  <2> QED BY <1>5, <2>1, <2>3, <2>6 DEF Sound
<1>7. new = [Restored(new.max, new.special, new.learned) EXCEPT !.frozen = TRUE]
  BY <1>1, <1>2, <1>4, <1>5
<1>8. original' = new
  BY <1>1, <1>4
<1>9. EncoderInv'
  <2>1. Sound(original')
    BY <1>6, <1>8
  <2> QED BY <1>1, <2>1 DEF EncoderInv, Sound
<1>10. FileInv'
  <2>1. Sound(original')
    BY <1>6, <1>8
  <2> QED BY <1>1, <1>2, <1>7, <1>8, <2>1 DEF FileInv, Sound
<1>11. TrainingInv'
  BY <1>1 DEF VocabularyInv, TrainingInv
<1> QED BY <1>1, <1>9, <1>10, <1>11 DEF VocabularyInv

LEMMA FailTrainingKeeps == VocabularyInv /\ FailTraining => VocabularyInv'
<1> SUFFICES ASSUME VocabularyInv, FailTraining PROVE VocabularyInv'
  OBVIOUS
<1>1. /\ stage \in {"scan", "train"} /\ stage' = "closed" /\ encoder' = None
      /\ chunks' = chunks /\ file' = file /\ original' = original
  BY DEF FailTraining
<1>2. EncoderInv'
  BY <1>1 DEF EncoderInv
<1>3. FileInv'
  BY <1>1 DEF VocabularyInv, EncoderInv, FileInv
<1>4. TrainingInv'
  BY <1>1 DEF VocabularyInv, TrainingInv
<1> QED BY <1>1, <1>2, <1>3, <1>4 DEF VocabularyInv

-----------------------------------------------------------------------------
(* The steps of files.                                                     *)

LEMMA UnitsOf ==
  ASSUME NEW e \in Encoders
  PROVE  /\ Units(e) \in Seq({Header(e)} \cup Seq(Bytes))
         /\ Len(Units(e)) = Len(e.learned) + 1
         /\ Units(e)[1] = Header(e)
         /\ \A i \in 1..Len(e.learned) : Units(e)[i + 1] = e.learned[i]
         /\ Tail(Units(e)) = e.learned
<1>1. PICK header, tokens, T : header = Header(e) /\ tokens = e.learned
                               /\ T = {header} \cup Seq(Bytes)
  OBVIOUS
<1>2. tokens \in Seq(Seq(Bytes))
  BY <1>1 DEF Encoders
<1>3. tokens \in Seq(T) /\ <<header>> \in Seq(T)
  <2>1. Seq(Bytes) \subseteq T /\ header \in T
    BY <1>1
  <2> QED BY <1>2, <2>1, SeqMonotonic
<1>4. PICK units : units = <<header>> \o tokens
  OBVIOUS
<1>5. PICK n : n = Len(tokens)
  OBVIOUS
<1>6. n \in Nat
  BY <1>3, <1>5
<1>7. /\ units \in Seq(T) /\ Len(units) = n + 1 /\ units[1] = header
      /\ \A i \in 1..n : units[i + 1] = tokens[i]
  BY <1>3, <1>4, <1>5
<1>8. Tail(units) = tokens
  <2>1. units # << >>
    BY <1>6, <1>7
  <2>2. PICK tail : tail = Tail(units)
    OBVIOUS
  <2>3. tail \in Seq(T) /\ Len(tail) = n /\ \A i \in 1..n : tail[i] = units[i + 1]
    BY <1>6, <1>7, <2>1, <2>2, HeadTailProperties
  <2>4. \A i \in 1..n : tail[i] = tokens[i]
    BY <1>7, <2>3
  <2> QED BY <1>3, <1>5, <2>2, <2>3, <2>4, SeqEqual
<1> QED BY <1>1, <1>4, <1>5, <1>7, <1>8 DEF Units

(* A file that holds as many tokens as its header says is all of it.       *)
LEMMA CompleteIsWhole ==
  ASSUME NEW e \in Encoders, NEW n \in 0..Len(Units(e)),
         Complete(SubSeq(Units(e), 1, n))
  PROVE  SubSeq(Units(e), 1, n) = Units(e)
<1>1. PICK units, T : units = Units(e) /\ T = {Header(e)} \cup Seq(Bytes)
  OBVIOUS
<1>2. PICK k : k = Len(e.learned)
  OBVIOUS
<1>3. e.learned \in Seq(Seq(Bytes)) /\ e.special \in BOOLEAN
  BY DEF Encoders
<1>4. k \in Nat
  BY <1>2, <1>3
<1>5. units \in Seq(T) /\ Len(units) = k + 1 /\ units[1] = Header(e)
  BY <1>1, <1>2, UnitsOf
<1>6. PICK part : part = SubSeq(units, 1, n)
  OBVIOUS
<1>7. n \in 0..(k + 1) /\ Complete(part)
  BY <1>1, <1>5, <1>6
<1>8. part \in Seq(T) /\ Len(part) = n /\ \A i \in 1..n : part[i] = units[i]
  BY <1>4, <1>5, <1>6, <1>7
<1>9. n # 0
  BY <1>7, <1>8 DEF Complete
<1>10. part[1] = Header(e)
  BY <1>4, <1>5, <1>7, <1>8, <1>9
<1>11. part[1].vocab = FirstLearned(e.special) + k /\ part[1].special = e.special
  BY <1>2, <1>10 DEF Header, VocabSize
<1>12. FirstLearned(e.special) \in Nat
  BY <1>3, BytePairsAssumption DEF FirstLearned
<1>13. n - 1 = (FirstLearned(e.special) + k) - FirstLearned(e.special)
  BY <1>7, <1>8, <1>11 DEF Complete
<1>14. n = k + 1
  BY <1>4, <1>7, <1>12, <1>13
<1>15. part = units
  BY <1>5, <1>6, <1>14, SubSeqFull
<1> QED BY <1>1, <1>6, <1>15

LEMMA SaveKeeps == VocabularyInv /\ Save => VocabularyInv'
<1> SUFFICES ASSUME VocabularyInv, Save PROVE VocabularyInv'
  OBVIOUS
<1>1. /\ stage = "ready" /\ stage' = stage /\ encoder' = encoder
      /\ chunks' = chunks /\ original' = original
  BY DEF Save
<1>2. PICK n \in 0..Len(Units(encoder)) : file' = SubSeq(Units(encoder), 1, n)
  BY DEF Save
<1>3. encoder = original /\ Sound(original)
  BY <1>1 DEF VocabularyInv, EncoderInv
<1>4. EncoderInv'
  BY <1>1, <1>3 DEF EncoderInv, Sound
<1>5. FileInv'
  <2>1. original = [Restored(original.max, original.special, original.learned)
                      EXCEPT !.frozen = TRUE]
    BY <1>1 DEF VocabularyInv, FileInv
  <2>2. n \in 0..Len(Units(original')) /\ file' = SubSeq(Units(original'), 1, n)
    BY <1>1, <1>2, <1>3
  <2> QED BY <1>1, <1>3, <2>1, <2>2 DEF FileInv, Sound
<1>6. TrainingInv'
  BY <1>1 DEF VocabularyInv, TrainingInv
<1> QED BY <1>1, <1>4, <1>5, <1>6 DEF VocabularyInv

LEMMA CloseKeeps == VocabularyInv /\ Close => VocabularyInv'
<1> SUFFICES ASSUME VocabularyInv, Close PROVE VocabularyInv'
  OBVIOUS
<1>1. /\ stage = "ready" /\ stage' = "closed" /\ encoder' = None
      /\ chunks' = chunks /\ file' = file /\ original' = original
  BY DEF Close
<1>2. EncoderInv'
  BY <1>1 DEF EncoderInv
<1>3. FileInv'
  BY <1>1 DEF VocabularyInv, FileInv, Sound
<1>4. TrainingInv'
  BY <1>1 DEF VocabularyInv, TrainingInv
<1> QED BY <1>1, <1>2, <1>3, <1>4 DEF VocabularyInv

LEMMA LoadKeeps == VocabularyInv /\ Load => VocabularyInv'
<1> SUFFICES ASSUME VocabularyInv, Load PROVE VocabularyInv'
  OBVIOUS
<1>1. /\ stage = "closed" /\ stage' = "ready" /\ file # None
      /\ Readable(file) /\ encoder' = ReadEncoder(file)
      /\ chunks' = chunks /\ file' = file /\ original' = original
  BY DEF Load
<1>2. /\ Sound(original)
      /\ original = [Restored(original.max, original.special, original.learned)
                       EXCEPT !.frozen = TRUE]
  BY <1>1 DEF VocabularyInv, FileInv
<1>3. PICK n \in 0..Len(Units(original)) : file = SubSeq(Units(original), 1, n)
  BY <1>1 DEF VocabularyInv, FileInv
<1>4. original \in Encoders
  BY <1>2 DEF Sound
<1>5. file = Units(original)
  BY <1>1, <1>3, <1>4, CompleteIsWhole DEF Readable
<1>6. file[1] = Header(original) /\ Tail(file) = original.learned
  BY <1>4, <1>5, UnitsOf
<1>7. file[1].max = original.max /\ file[1].special = original.special
  BY <1>6 DEF Header
<1>8. encoder' = original
  BY <1>1, <1>2, <1>6, <1>7 DEF ReadEncoder
<1>9. EncoderInv'
  BY <1>1, <1>2, <1>8 DEF EncoderInv, Sound
<1>10. FileInv'
  <2>1. n \in 0..Len(Units(original')) /\ file' = SubSeq(Units(original'), 1, n)
    BY <1>1, <1>3
  <2> QED BY <1>1, <1>2, <2>1 DEF FileInv, Sound
<1>11. TrainingInv'
  BY <1>1 DEF VocabularyInv, TrainingInv
<1> QED BY <1>1, <1>9, <1>10, <1>11 DEF VocabularyInv

LEMMA VocabularyInductive ==
  VocabularyInv /\ [VocabularyNext]_vocabularyVars => VocabularyInv'
<1>1. CASE UNCHANGED vocabularyVars
  <2> SUFFICES ASSUME VocabularyInv PROVE VocabularyInv'
    OBVIOUS
  <2>1. /\ stage' = stage /\ encoder' = encoder /\ chunks' = chunks
        /\ working' = working /\ file' = file /\ chunk' = chunk
        /\ original' = original
    BY <1>1 DEF vocabularyVars
  <2>2. EncoderInv'
    BY <2>1 DEF VocabularyInv, EncoderInv, Sound
  <2>3. FileInv'
    BY <2>1 DEF VocabularyInv, FileInv, Sound
  <2>4. TrainingInv'
    BY <2>1 DEF VocabularyInv, TrainingInv, EncodingFollowsTraining
  <2> QED BY <2>1, <2>2, <2>3, <2>4 DEF VocabularyInv
<1>2. CASE VocabularyNext
  BY <1>2, ReadChunkKeeps, LearnKeeps, EndChunkKeeps, FreezeKeeps,
     FailTrainingKeeps, SaveKeeps, CloseKeeps, LoadKeeps DEF VocabularyNext
<1> QED BY <1>1, <1>2

LEMMA VocabularyAlways == VocabularySpec => []VocabularyInv
  BY VocabularyInitial, VocabularyInductive, PTL DEF VocabularySpec

LEMMA DecodingInverts == VocabularyInv => DecodeInvertsEncode
<1> SUFFICES ASSUME VocabularyInv, encoder # None, NEW text \in Texts
             PROVE  Decode(encoder, Encode(encoder, text)) = text
  BY DEF DecodeInvertsEncode
<1>1. Sound(encoder)
  BY DEF VocabularyInv, EncoderInv
<1>2. text \in Seq(Bytes)
  BY BytePairsAssumption
<1> QED BY <1>1, <1>2, DecodeEncode DEF Sound

(* Of whatever corpus a vocabulary was learned, in however many chunks, and*)
(* whether it was trained here or read from a file: a text encoded and     *)
(* then decoded is the same text (bpe_encode, bpe_decode).                 *)
THEOREM TextsSurvive == VocabularySpec => []DecodeInvertsEncode
  BY VocabularyAlways, DecodingInverts, PTL

LEMMA TrainingFollowed == VocabularyInv => EncodingFollowsTraining
  BY DEF VocabularyInv, TrainingInv, EncodingFollowsTraining

(* What bpe_train has made of a chunk is what bpe_encode would make of it  *)
(* with the merges it learned from it.                                     *)
THEOREM TrainingIsEncoding == VocabularySpec => []EncodingFollowsTraining
  BY VocabularyAlways, TrainingFollowed, PTL

LEMMA ReloadingKeeps == VocabularyInv => ReloadKeepsTokens
<1> SUFFICES ASSUME VocabularyInv, stage = "ready" PROVE ReloadKeepsTokens
  BY DEF ReloadKeepsTokens
<1>1. encoder = original /\ Sound(original)
  BY DEF VocabularyInv, EncoderInv
<1>2. original \in Encoders
  BY <1>1 DEF Sound
<1>3. PICK e : e = encoder
  OBVIOUS
<1>4. e \in Encoders /\ \A i \in 1..Len(e.learned) : LengthOK(e.learned[i])
  BY <1>1, <1>3 DEF Sound
<1>5. PICK n : n = Len(e.learned)
  OBVIOUS
<1>6. e.learned \in Seq(Seq(Bytes)) /\ e.special \in BOOLEAN
  BY <1>4 DEF Encoders
<1>7. n \in Nat
  BY <1>5, <1>6
<1>8. PICK units : units = Units(e)
  OBVIOUS
<1>9. /\ Len(units) = n + 1 /\ units[1] = Header(e)
      /\ \A i \in 1..n : units[i + 1] = e.learned[i]
  BY <1>4, <1>5, <1>8, UnitsOf
<1>10. Complete(units)
  <2>1. units[1].vocab = FirstLearned(e.special) + n /\ units[1].special = e.special
    BY <1>5, <1>9 DEF Header, VocabSize
  <2>2. FirstLearned(e.special) \in Nat
    BY <1>6, BytePairsAssumption DEF FirstLearned
  <2>3. Len(units) - 1 = units[1].vocab - FirstLearned(units[1].special)
    BY <1>7, <1>9, <2>1, <2>2
  <2>4. units # << >>
    BY <1>7, <1>9
  <2> QED BY <2>3, <2>4 DEF Complete
<1>11. \A i \in 2..Len(units) : LengthOK(units[i])
  <2>1. ASSUME NEW i \in 2..Len(units) PROVE LengthOK(units[i])
    <3>1. i - 1 \in 1..n /\ (i - 1) + 1 = i
      BY <1>7, <1>9
    <3>2. units[i] = e.learned[i - 1]
      BY <1>9, <3>1
    <3> QED BY <1>4, <1>5, <3>1, <3>2
  <2> QED BY <2>1
<1>12. units[1].max = e.max
  BY <1>9 DEF Header
<1>13. e.max <= MaxPortable => Writable(e) /\ Readable(units)
  BY <1>4, <1>10, <1>11, <1>12 DEF Writable, Readable
<1> QED BY <1>1, <1>3, <1>8, <1>13 DEF ReloadKeepsTokens

(* A vocabulary that was trained can be written, what was written whole    *)
(* can be read, and one that was read gives every text the ids it had; a   *)
(* file cut short is never read (bpe_encoder_write, bpe_encoder_read).     *)
THEOREM VocabulariesSurvive == VocabularySpec => []ReloadKeepsTokens
  BY VocabularyAlways, ReloadingKeeps, PTL

-----------------------------------------------------------------------------
(* Where the walk is, whatever chunks brought it there: the next window to *)
(* emit starts where the window of that number starts in the whole stream, *)
(* the buffer ends where the stream read so far ends, and the windows      *)
(* submitted are those of the whole stream.                                *)
NextPlace(offset) == base + offset = StartOf(Len(windows) + 1)

BufferEnd(closing) == base + size = corpus - left + Framing + closing

WindowsAreWhole ==
  \A i \in 1..Len(windows) : windows[i] = WindowAt(i) /\ StartOf(i) + 1 < Total

ReadInv == activity = "read" => NextPlace(next_target) /\ BufferEnd(0)

WalkInv ==
  activity = "walk" => /\ NextPlace(window_start)
                 /\ BufferEnd(IF partial THEN Framing ELSE 0)
                 /\ IF partial THEN left = 0 ELSE window_start <= size

DoneInv == activity = "done" => StartOf(Len(windows) + 1) + 1 >= Total

WindowsInv == ReadInv /\ WalkInv /\ DoneInv /\ WindowsAreWhole

-----------------------------------------------------------------------------
(* Places in the stream.                                                   *)

(* A window starts one stride after the last.                              *)
LEMMA StartStep ==
  ASSUME train_stride \in Nat, NEW k \in Nat \ {0}
  PROVE  /\ StartOf(k) \in Nat
         /\ StartOf(k + 1) = StartOf(k) + train_stride
         /\ StartOf(1) = 1
<1> DEFINE s == train_stride
<1>1. ASSUME NEW j \in Nat PROVE j * s \in Nat /\ (j + 1) * s = j * s + s
  BY SMT
<1>2. k - 1 \in Nat /\ (k + 1) - 1 = (k - 1) + 1
  OBVIOUS
<1>3. (k - 1) * s \in Nat /\ ((k + 1) - 1) * s = (k - 1) * s + s
  BY <1>1, <1>2
<1>4. (1 - 1) * s = 0
  BY SMT
<1> QED BY <1>3, <1>4 DEF StartOf

(* Later windows start at least a stride later. *)
LEMMA StartsApart ==
  ASSUME train_stride \in Nat \ {0},
         NEW j \in Nat \ {0}, NEW k \in Nat \ {0}, j < k
  PROVE  StartOf(j) + train_stride <= StartOf(k)
<1> DEFINE s == train_stride
<1>1. ASSUME NEW d \in Nat, NEW i \in Nat
      PROVE  (i + d) * s = i * s + d * s /\ d * s \in Nat /\ i * s \in Nat
  BY SMT
<1>2. PICK d \in Nat : k - 1 = (j - 1) + (d + 1)
  <2>1. k - j - 1 \in Nat /\ k - 1 = (j - 1) + ((k - j - 1) + 1)
    OBVIOUS
  <2> QED BY <2>1
<1>3. (k - 1) * s = (j - 1) * s + (d + 1) * s /\ (j - 1) * s \in Nat
  BY <1>1, <1>2, j - 1 \in Nat, d + 1 \in Nat
<1>4. (d + 1) * s = d * s + s /\ d * s \in Nat
  BY SMT
<1> QED BY <1>3, <1>4 DEF StartOf

(* The numbering cannot fall behind the places.                            *)
LEMMA StartGrows ==
  ASSUME train_stride \in Nat \ {0}, NEW k \in Nat \ {0}
  PROVE  StartOf(k) >= k
<1> DEFINE s == train_stride
<1>1. ASSUME NEW i \in Nat PROVE i * s >= i
  BY SMT
<1>2. (k - 1) * s >= k - 1 /\ (k - 1) * s \in Int
  BY <1>1, k - 1 \in Nat, SMT
<1> QED BY <1>2 DEF StartOf

(* The windows of the whole stream are those with a token to predict: they *)
(* are numbered from 1 without a gap.                                      *)
LEMMA WholeStreamLength ==
  ASSUME train_stride \in Nat \ {0}, Total \in Nat
  PROVE  \E n \in Nat :
           /\ Len(WholeStream) = n
           /\ \A k \in Nat \ {0} : k <= n <=> StartOf(k) + 1 < Total
           /\ \A k \in 1..n : WholeStream[k] = WindowAt(k)
<1> DEFINE fits == {k \in 1..Total : StartOf(k) + 1 < Total}
           past == {n \in Nat : ~(StartOf(n + 1) + 1 < Total)}
<1>1. Total \in past
  BY StartGrows, Total + 1 \in Nat \ {0}, StartStep
<1>2. PICK n \in past : \A m \in past : n <= m
  BY <1>1, LeastExists
<1>3. ASSUME NEW k \in Nat \ {0} PROVE k <= n <=> StartOf(k) + 1 < Total
  <2>0. n \in Nat /\ ~(StartOf(n + 1) + 1 < Total) /\ k - 1 \in Nat /\ (k - 1) + 1 = k
    BY <1>2
  <2>1. ASSUME k <= n PROVE StartOf(k) + 1 < Total
    <3>1. ~(n <= k - 1)
      BY <2>0, <2>1
    <3>2. k - 1 \notin past
      BY <1>2, <3>1
    <3> QED BY <3>2, <2>0
  <2>2. ASSUME ~(k <= n) PROVE ~(StartOf(k) + 1 < Total)
    <3>1. CASE k = n + 1
      BY <3>1, <2>0
    <3>2. CASE n + 1 < k
      <4>1. StartOf(n + 1) + train_stride <= StartOf(k)
        BY <3>2, <2>0, StartsApart, n + 1 \in Nat \ {0}
      <4>2. StartOf(n + 1) \in Nat /\ StartOf(k) \in Nat
        BY <2>0, StartStep, n + 1 \in Nat \ {0}
      <4> QED BY <4>1, <4>2, <2>0
    <3> QED BY <3>1, <3>2, <2>2, <2>0
  <2> QED BY <2>1, <2>2
<1>4. fits = 1..n
  <2>1. ASSUME NEW k \in fits PROVE k \in 1..n
    BY <1>2, <1>3
  <2>2. ASSUME NEW k \in 1..n PROVE k \in fits
    <3>1. k \in Nat \ {0} /\ k <= n
      BY <1>2
    <3>2. StartOf(k) + 1 < Total
      BY <3>1, <1>3
    <3>3. StartOf(k) >= k /\ StartOf(k) \in Nat
      BY <3>1, StartGrows, StartStep
    <3> QED BY <3>1, <3>2, <3>3
  <2> QED BY <2>1, <2>2
<1>5. Cardinality(fits) = n
  <2>1. n \in Nat /\ n \in Int /\ 1 \in Int
    BY <1>2
  <2>2. Cardinality(1..n) = IF 1 > n THEN 0 ELSE n - 1 + 1
    BY ONLY <2>1, FS_Interval
  <2>3. Cardinality(1..n) = n
    BY <2>1, <2>2
  <2> QED BY <2>3, <1>4
<1>6. WholeStream = [k \in 1..n |-> WindowAt(k)]
  BY <1>5 DEF WholeStream
<1>7. Len(WholeStream) = n /\ \A k \in 1..n : WholeStream[k] = WindowAt(k)
  BY <1>6, <1>2
<1> QED BY <1>2, <1>3, <1>7

-----------------------------------------------------------------------------
(* The walk.                                                               *)

USE DEF walkConfig

(* Every variable of the walk keeps its type.                              *)
THEOREM WalkTypes == WalkSpec => []WalkTypeOK
<1>1. WalkInit => WalkTypeOK
  <2> SUFFICES ASSUME WalkInit PROVE WalkTypeOK
    OBVIOUS
  <2>1. train_window \in Nat \ {0} /\ corpus \in Nat
    BY WindowWalkAssumption DEF WalkInit
  <2>2. train_stride \in 1..train_window
    <3>1. PICK s \in Strides : train_stride = ResolveStride(train_window, s)
      BY DEF WalkInit
    <3> QED BY <3>1, <2>1, WindowWalkAssumption DEF ResolveStride
  <2>3. windows \in Seq(WalkWindow) /\ size \in Nat
    BY DEF WalkInit, Framing
  <2>4. left \in 0..corpus /\ base \in Nat /\ window_start \in Nat /\ next_target \in {0, 1}
    BY <2>1 DEF WalkInit
  <2>5. special_tokens \in BOOLEAN /\ partial \in BOOLEAN /\ activity \in {"read", "walk", "done"}
    BY DEF WalkInit
  <2> QED BY <2>1, <2>2, <2>3, <2>4, <2>5 DEF WalkTypeOK
<1>2. WalkTypeOK /\ [WalkNext]_walkVars => WalkTypeOK'
  <2> SUFFICES ASSUME WalkTypeOK, [WalkNext]_walkVars PROVE WalkTypeOK'
    OBVIOUS
  <2>1. ASSUME NEW n \in 1..left, AddChunk(n) PROVE WalkTypeOK'
    <3>1. left' = left - n /\ size' = size + n /\ n \in 1..left
          /\ UNCHANGED <<train_window, train_stride, special_tokens, corpus, base, next_target, windows>>
      BY <2>1 DEF AddChunk
    <3>2. left' \in 0..corpus' /\ size' \in Nat
      BY <3>1 DEF WalkTypeOK
    <3>3. window_start' \in Nat /\ partial' \in BOOLEAN /\ activity' \in {"read", "walk", "done"}
      <4>1. CASE ReadyToFlush(size')
        <5>1. window_start' = next_target /\ partial' = FALSE /\ activity' = "walk"
          BY <2>1, <4>1 DEF AddChunk
        <5>2. next_target \in {0, 1}
          BY DEF WalkTypeOK
        <5>3. next_target' \in {0, 1} /\ window_start' \in Nat
          BY ONLY <5>1, <5>2, <3>1
        <5>4. partial' \in BOOLEAN /\ activity' \in {"read", "walk", "done"}
          BY ONLY <5>1, Zenon
        <5> QED BY <5>3, <5>4
      <4>2. CASE ~ReadyToFlush(size')
        <5>1. window_start' = window_start /\ partial' = partial /\ activity' = activity
          BY <2>1, <4>2 DEF AddChunk
        <5> QED BY <5>1 DEF WalkTypeOK
      <4> QED BY <4>1, <4>2
    <3> QED BY <3>1, <3>2, <3>3 DEF WalkTypeOK
  <2>2. CASE EndOfFile
    BY <2>2 DEF WalkTypeOK, EndOfFile, Framing
  <2>3. CASE EmitWindow
    <3>1. WindowLength \in Nat \ {0}
      BY <2>3 DEF WalkTypeOK, EmitWindow, WindowFits, WindowLength, Available
    <3>2. [start |-> base + window_start, length |-> WindowLength] \in WalkWindow
      BY <3>1 DEF WalkTypeOK, WalkWindow
    <3>3. windows' \in Seq(WalkWindow)
      BY <2>3, <3>2 DEF WalkTypeOK, EmitWindow
    <3> QED BY <2>3, <3>3 DEF WalkTypeOK, EmitWindow
  <2>4. CASE EndWalk
    BY <2>4 DEF WalkTypeOK, EndWalk, NextWalkStart, Retained
  <2>5. CASE UNCHANGED walkVars
    BY <2>5 DEF WalkTypeOK, walkVars
  <2> QED BY <2>1, <2>2, <2>3, <2>4, <2>5 DEF WalkNext
<1> QED BY <1>1, <1>2, PTL DEF WalkSpec

(* The fields of a window.                                                *)
LEMMA WindowFields ==
  ASSUME NEW s, NEW l
  PROVE  [start |-> s, length |-> l].start = s /\ [start |-> s, length |-> l].length = l
  OBVIOUS

(* A step that changes neither the settings nor the windows leaves the     *)
(* places of the whole stream alone.                                       *)
LEMMA PlacesStay ==
  ASSUME UNCHANGED walkConfig
  PROVE  /\ Total' = Total /\ Framing' = Framing
         /\ \A k : StartOf(k)' = StartOf(k) /\ WindowAt(k)' = WindowAt(k)
  BY DEF Total, Framing, StartOf, WindowAt

(* Every step of the walk keeps the places.                                *)
LEMMA WindowsInvStep ==
  ASSUME WalkTypeOK, WindowsInv, [WalkNext]_walkVars
  PROVE  WindowsInv'
<1> USE DEF WalkTypeOK
<1>t. Total = corpus + 2 * Framing /\ Framing \in {0, 1} /\ Total \in Nat /\ Len(windows) \in Nat
  BY DEF Total, Framing
<1>l. Len(windows) + 1 \in Nat \ {0} /\ train_stride \in Nat
  BY <1>t
<1>p. StartOf(Len(windows) + 1) \in Nat
  BY <1>l, StartStep
<1>1. ASSUME NEW n \in 1..left, AddChunk(n) PROVE WindowsInv'
  <2>1. UNCHANGED <<walkConfig, windows, base, next_target>> /\ activity = "read" /\ left' = left - n
        /\ size' = size + n
    BY <1>1 DEF AddChunk
  <2>2. NextPlace(next_target) /\ BufferEnd(0)
    BY <2>1 DEF WindowsInv, ReadInv
  <2>3. base' + size' = corpus' - left' + Framing' + 0
    BY <2>1, <2>2, PlacesStay, <1>t DEF BufferEnd
  <2>4. base' + next_target' = StartOf(Len(windows) + 1)'
    BY <2>1, <2>2 DEF NextPlace, StartOf
  <2>5. CASE ReadyToFlush(size')
    <3>1. window_start' = next_target /\ partial' = FALSE /\ activity' = "walk"
      BY <1>1, <2>5 DEF AddChunk
    <3>2. window_start' <= size'
      BY <3>1, <2>1
    <3>3. WalkInv'
      BY <3>1, <3>2, <2>1, <2>3, <2>4 DEF WalkInv, NextPlace, BufferEnd
    <3>4. WindowsAreWhole'
      BY <2>1, PlacesStay DEF WindowsInv, WindowsAreWhole
    <3> QED BY <3>1, <3>3, <3>4 DEF WindowsInv, ReadInv, DoneInv
  <2>6. CASE ~ReadyToFlush(size')
    <3>1. activity' = "read"
      BY <1>1, <2>6, <2>1 DEF AddChunk
    <3>2. ReadInv'
      BY <2>3, <2>4 DEF ReadInv, NextPlace, BufferEnd
    <3>4. WindowsAreWhole'
      BY <2>1, PlacesStay DEF WindowsInv, WindowsAreWhole
    <3> QED BY <3>1, <3>2, <3>4 DEF WindowsInv, WalkInv, DoneInv
  <2> QED BY <2>5, <2>6
<1>2. CASE EndOfFile
  <2>1. UNCHANGED <<walkConfig, windows, base, next_target, left>> /\ activity = "read" /\ left = 0
        /\ size' = size + Framing /\ window_start' = next_target /\ partial' = TRUE /\ activity' = "walk"
    BY <1>2 DEF EndOfFile
  <2>2. NextPlace(next_target) /\ BufferEnd(0)
    BY <2>1 DEF WindowsInv, ReadInv
  <2>3. base' + size' = corpus' - left' + Framing' + Framing'
    BY <2>1, <2>2, PlacesStay, <1>t DEF BufferEnd
  <2>4. base' + window_start' = StartOf(Len(windows) + 1)'
    BY <2>1, <2>2 DEF NextPlace, StartOf
  <2>5. WalkInv'
    BY <2>1, <2>3, <2>4 DEF WalkInv, NextPlace, BufferEnd
  <2>6. WindowsAreWhole'
    BY <2>1, PlacesStay DEF WindowsInv, WindowsAreWhole
  <2> QED BY <2>1, <2>5, <2>6 DEF WindowsInv, ReadInv, DoneInv
<1>3. CASE EmitWindow
  <2> DEFINE k == Len(windows) + 1
  <2>1. UNCHANGED <<walkConfig, left, base, size, partial, activity>> /\ activity = "walk" /\ WindowFits
        /\ window_start' = window_start + train_stride
        /\ windows' = Append(windows, [start |-> base + window_start, length |-> WindowLength])
    BY <1>3 DEF EmitWindow
  <2>2. /\ base + window_start = StartOf(k)
        /\ base + size = corpus - left + Framing + (IF partial THEN Framing ELSE 0)
        /\ IF partial THEN left = 0 ELSE window_start <= size
    BY <2>1 DEF WindowsInv, WalkInv, NextPlace, BufferEnd
  <2>3. base + size <= Total /\ (partial => base + size = Total)
    BY <2>2, <1>t
  <2>4. window_start + 1 <= size - 1 /\ Available = size - 1 - window_start
    BY <2>1 DEF WindowFits, Available
  <2>5. StartOf(k) + 1 < Total
    BY <2>2, <2>3, <2>4, <1>t
  <2>6. WindowLength = IF Total - 1 - StartOf(k) < train_window
                       THEN Total - 1 - StartOf(k) ELSE train_window
    <3>1. CASE partial
      BY <3>1, <2>2, <2>3, <2>4, <1>t DEF WindowLength
    <3>2. CASE ~partial
      <4>1. WindowLength = train_window
        BY <3>2, <2>1 DEF WindowFits
      <4>2. size - 1 - window_start >= train_window
        BY <4>1, <2>4 DEF WindowLength
      <4>3. Total - 1 - StartOf(k) >= train_window
        BY <4>2, <2>2, <2>3, <1>t
      <4> QED BY <4>1, <4>3, <1>t, <1>p
    <3> QED BY <3>1, <3>2
  <2>7. [start |-> base + window_start, length |-> WindowLength] = WindowAt(k)
    BY <2>2, <2>6 DEF WindowAt
  <2>8. /\ Len(windows') = k
        /\ \A i \in 1..k : windows'[i] = IF i = k THEN WindowAt(k) ELSE windows[i]
    BY <2>1, <2>7
  <2>9. WindowsAreWhole'
    <3>1. \A i \in 1..k : windows'[i] = WindowAt(i) /\ StartOf(i) + 1 < Total
      BY <2>5, <2>8, <1>t DEF WindowsInv, WindowsAreWhole
    <3> QED BY <3>1, <2>1, <2>8, PlacesStay DEF WindowsAreWhole
  <2>10. WalkInv'
    <3>1. base' + window_start' = StartOf(k + 1)
      BY <2>1, <2>2, <1>l, <1>p, StartStep
    <3>2. (base + window_start = StartOf(Len(windows) + 1))'
      BY <3>1, <2>1, <2>8, PlacesStay
    <3>3. BufferEnd(IF partial THEN Framing ELSE 0)'
      BY <2>1, <2>2, PlacesStay DEF BufferEnd
    <3>4. ASSUME ~partial' PROVE window_start' <= size'
      <4>1. WindowLength = train_window
        BY <3>4, <2>1 DEF WindowFits
      <4>2. size - 1 - window_start >= train_window
        BY <4>1, <2>4 DEF WindowLength
      <4> QED BY <4>2, <2>1
    <3> QED BY <3>2, <3>3, <3>4, <2>1, <2>2 DEF WalkInv, NextPlace
  <2> QED BY <2>1, <2>9, <2>10 DEF WindowsInv, ReadInv, DoneInv
<1>4. CASE EndWalk
  <2>1. UNCHANGED <<walkConfig, left, window_start, partial, windows>> /\ activity = "walk" /\ ~WindowFits
    BY <1>4 DEF EndWalk
  <2>2. /\ base + window_start = StartOf(Len(windows) + 1)
        /\ base + size = corpus - left + Framing + (IF partial THEN Framing ELSE 0)
        /\ IF partial THEN left = 0 ELSE window_start <= size
    BY <2>1 DEF WindowsInv, WalkInv, NextPlace, BufferEnd
  <2>3. WindowsAreWhole'
    BY <2>1, PlacesStay DEF WindowsInv, WindowsAreWhole
  <2>4. CASE partial
    <3>1. activity' = "done"
      BY <1>4, <2>4 DEF EndWalk
    <3>2. window_start + 1 >= size
      BY <2>1, <2>4 DEF WindowFits, Available
    <3>3. base + size = Total
      BY <2>2, <2>4, <1>t
    <3>4. StartOf(Len(windows) + 1) + 1 >= Total
      BY <2>2, <3>2, <3>3
    <3>5. DoneInv'
      BY <3>4, <2>1, PlacesStay DEF DoneInv
    <3> QED BY <3>1, <3>5, <2>3 DEF WindowsInv, ReadInv, WalkInv
  <2>5. CASE ~partial
    <3>1. /\ base' = base + NextWalkStart /\ size' = size - NextWalkStart
          /\ next_target' = 0 /\ activity' = "read"
      BY <1>4, <2>5 DEF EndWalk, Retained
    <3>2. NextWalkStart = window_start
      BY <2>2, <2>5 DEF NextWalkStart
    <3>3. base' + next_target' = StartOf(Len(windows) + 1)
      BY <3>1, <3>2, <2>2
    <3>4. base' + size' = corpus - left + Framing
      BY <3>1, <2>2, <2>5, <3>2, <1>t
    <3>5. ReadInv'
      BY <3>3, <3>4, <2>1, PlacesStay, <1>t DEF ReadInv, NextPlace, BufferEnd
    <3> QED BY <3>1, <3>5, <2>3 DEF WindowsInv, WalkInv, DoneInv
  <2> QED BY <2>4, <2>5
<1>5. CASE UNCHANGED walkVars
  <2>1. UNCHANGED walkConfig
    BY <1>5 DEF walkVars
  <2> QED BY <1>5, <2>1, PlacesStay
          DEF walkVars, WindowsInv, ReadInv, WalkInv, DoneInv, WindowsAreWhole, NextPlace, BufferEnd
<1> QED BY <1>1, <1>2, <1>3, <1>4, <1>5 DEF WalkNext

(* The places are right throughout an epoch.                               *)
LEMMA WindowsInvHolds == WalkSpec => []WindowsInv
<1>1. WalkInit => WindowsInv
  <2> SUFFICES ASSUME WalkInit PROVE WindowsInv
    OBVIOUS
  <2>1. StartOf(1) = 1
    BY WindowWalkAssumption, StartStep, 1 \in Nat \ {0} DEF WalkInit, ResolveStride
  <2>2. Len(windows) = 0
    BY DEF WalkInit
  <2> QED BY <2>1, <2>2, WindowWalkAssumption
          DEF WalkInit, WindowsInv, ReadInv, WalkInv, DoneInv, WindowsAreWhole, NextPlace, BufferEnd,
              Framing
<1>2. WalkTypeOK /\ WindowsInv /\ [WalkNext]_walkVars => WindowsInv'
  BY WindowsInvStep
<1> QED BY <1>1, <1>2, WalkTypes, PTL DEF WalkSpec

(* Wherever the chunk boundaries fall, for any window, stride, threshold   *)
(* and corpus: the windows an epoch submits are those of the whole stream  *)
(* cut in one piece, and all of them once the stream has ended.            *)
THEOREM ChunksLeaveNoTrace == WalkSpec => []ChunkingIsInvisible
<1>1. WalkTypeOK /\ WindowsInv => ChunkingIsInvisible
  <2> SUFFICES ASSUME WalkTypeOK, WindowsInv PROVE ChunkingIsInvisible
    OBVIOUS
  <2>1. Total \in Nat /\ train_stride \in Nat \ {0} /\ Len(windows) \in Nat
    BY DEF WalkTypeOK, Total, Framing
  <2>2. PICK n \in Nat :
           /\ Len(WholeStream) = n
           /\ \A k \in Nat \ {0} : k <= n <=> StartOf(k) + 1 < Total
           /\ \A k \in 1..n : WholeStream[k] = WindowAt(k)
    BY <2>1, WholeStreamLength
  <2>3. \A i \in 1..Len(windows) :
           i \in Nat \ {0} /\ windows[i] = WindowAt(i) /\ StartOf(i) + 1 < Total
    BY <2>1 DEF WindowsInv, WindowsAreWhole
  <2>4. \A i \in 1..Len(windows) : i <= n
    BY <2>2, <2>3
  <2>5. Len(windows) <= n
    <3>1. CASE Len(windows) = 0
      BY <3>1
    <3>2. CASE Len(windows) # 0
      BY <3>2, <2>1, <2>4, Len(windows) \in 1..Len(windows)
    <3> QED BY <3>1, <3>2
  <2>6. \A i \in 1..Len(windows) : windows[i] = WholeStream[i]
    BY <2>2, <2>3, <2>4
  <2>7. ASSUME activity = "done" PROVE Len(windows) = n
    <3>1. ~(StartOf(Len(windows) + 1) + 1 < Total)
      <4>1. StartOf(Len(windows) + 1) + 1 >= Total
        BY <2>7 DEF WindowsInv, DoneInv
      <4>2. StartOf(Len(windows) + 1) \in Nat
        BY <2>1, StartStep, Len(windows) + 1 \in Nat \ {0}
      <4> QED BY <4>1, <4>2, <2>1
    <3>2. ~(Len(windows) + 1 <= n)
      BY <3>1, <2>1, <2>2, Len(windows) + 1 \in Nat \ {0}
    <3> QED BY <3>2, <2>1, <2>5
  <2> QED BY <2>2, <2>5, <2>6, <2>7 DEF ChunkingIsInvisible
<1> QED BY <1>1, WalkTypes, WindowsInvHolds, PTL

(* After an epoch, whatever its chunks, every token from the third stream  *)
(* position on is the target of some window, and of one window only when   *)
(* windows follow each other without overlap.                              *)
THEOREM TailTokensSupervised == WalkSpec => []TailIsSupervised
<1>1. WalkTypeOK /\ WindowsInv => TailIsSupervised
  <2> SUFFICES ASSUME WalkTypeOK, WindowsInv, activity = "done", NEW t \in 2..Total - 1
               PROVE  /\ Supervisors(t) # {}
                      /\ train_stride = train_window => Cardinality(Supervisors(t)) = 1
    BY DEF TailIsSupervised
  <2>1. /\ Total \in Nat /\ train_stride \in Nat \ {0} /\ Len(windows) \in Nat
        /\ train_window \in Nat /\ train_stride <= train_window /\ t \in Nat
    BY DEF WalkTypeOK, Total, Framing
  <2>2. \A k \in Nat \ {0} : StartOf(k) \in Nat
    BY <2>1, StartStep
  <2>3. \A i \in 1..Len(windows) :
           i \in Nat \ {0} /\ windows[i] = WindowAt(i) /\ StartOf(i) + 1 < Total
    BY <2>1 DEF WindowsInv, WindowsAreWhole
  <2>4. \A i \in 1..Len(windows) :
           i \in Supervisors(t) <=> StartOf(i) < t /\ t <= StartOf(i) + train_window
    <3> SUFFICES ASSUME NEW i \in 1..Len(windows)
                 PROVE  i \in Supervisors(t) <=> StartOf(i) < t /\ t <= StartOf(i) + train_window
      OBVIOUS
    <3>1. /\ windows[i].start = StartOf(i)
          /\ windows[i].length = IF Total - 1 - StartOf(i) < train_window
                                 THEN Total - 1 - StartOf(i) ELSE train_window
      <4>1. windows[i] = WindowAt(i)
        BY <2>3
      <4> DEFINE supervised == IF Total - 1 - StartOf(i) < train_window
                             THEN Total - 1 - StartOf(i) ELSE train_window
      <4>2. WindowAt(i) = [start |-> StartOf(i), length |-> supervised]
        BY DEF WindowAt
      <4> HIDE DEF supervised
      <4>3. windows[i].start = StartOf(i) /\ windows[i].length = supervised
        BY ONLY <4>1, <4>2, WindowFields
      <4> QED BY <4>3 DEF supervised
    <3>2. StartOf(i) \in Nat /\ t <= Total - 1
      BY <2>2, <2>3
    <3>3. t <= StartOf(i) + windows[i].length <=> t <= StartOf(i) + train_window
      BY <3>1, <3>2, <2>1
    <3> QED BY <3>1, <3>3 DEF Supervisors
  <2> DEFINE later == {m \in Nat : t <= StartOf(m + 1)}
  <2>5. t \in later
    BY <2>1, <2>2, StartGrows, t + 1 \in Nat \ {0}
  <2>6. PICK m \in later : \A o \in later : m <= o
    BY <2>5, LeastExists
  <2>7. m \in Nat \ {0}
    BY <2>6, <2>1, StartStep, 1 \in Nat \ {0}
  <2>8. StartOf(m) < t /\ t <= StartOf(m) + train_stride
    <3>1. m - 1 \in Nat /\ (m - 1) + 1 = m /\ m - 1 \notin later
      BY <2>6, <2>7
    <3>2. StartOf(m) < t
      BY <3>1, <2>1, <2>2, <2>7
    <3>3. t <= StartOf(m + 1) /\ StartOf(m + 1) = StartOf(m) + train_stride
      BY <2>6, <2>7, <2>1, StartStep
    <3> QED BY <3>2, <3>3
  <2>9. m \in 1..Len(windows)
    <3>1. StartOf(m) + 1 < Total
      BY <2>8, <2>1, <2>2, <2>7
    <3>2. StartOf(Len(windows) + 1) + 1 >= Total
      BY DEF WindowsInv, DoneInv
    <3>l. Len(windows) + 1 \in Nat \ {0}
      BY <2>1
    <3>3. ASSUME Len(windows) + 1 < m PROVE FALSE
      <4>1. StartOf(Len(windows) + 1) + train_stride <= StartOf(m)
        BY <3>3, <3>l, <2>1, <2>7, StartsApart
      <4> QED BY <4>1, <3>1, <3>2, <3>l, <2>1, <2>2, <2>7
    <3>4. m # Len(windows) + 1
      BY <3>1, <3>2, <2>1, <2>2, <2>7
    <3> QED BY <3>3, <3>4, <2>1, <2>7
  <2>10. m \in Supervisors(t)
    <3>1. StartOf(m) \in Nat
      BY <2>2, <2>7
    <3> QED BY <2>4, <2>8, <2>9, <3>1, <2>1
  <2>11. ASSUME train_stride = train_window PROVE Cardinality(Supervisors(t)) = 1
    <3>1. ASSUME NEW i \in Supervisors(t) PROVE i = m
      <4>1. i \in 1..Len(windows) /\ i \in Nat \ {0}
        BY <2>1 DEF Supervisors
      <4>2. StartOf(i) < t /\ t <= StartOf(i) + train_stride
        BY <4>1, <2>4, <2>11
      <4>3. ~(i < m)
        <5>1. ASSUME i < m PROVE FALSE
          <6>1. StartOf(i) + train_stride <= StartOf(m)
            BY <5>1, <4>1, <2>1, <2>7, StartsApart
          <6> QED BY <6>1, <4>2, <2>8, <4>1, <2>1, <2>2, <2>7
        <5> QED BY <5>1
      <4>4. ~(m < i)
        <5>1. ASSUME m < i PROVE FALSE
          <6>1. StartOf(m) + train_stride <= StartOf(i)
            BY <5>1, <4>1, <2>1, <2>7, StartsApart
          <6> QED BY <6>1, <4>2, <2>8, <4>1, <2>1, <2>2, <2>7
        <5> QED BY <5>1
      <4> QED BY <4>1, <4>3, <4>4, <2>7
    <3>2. Supervisors(t) = {m}
      BY <3>1, <2>10
    <3> QED BY <3>2, FS_Singleton
  <2> QED BY <2>10, <2>11
<1> QED BY <1>1, WalkTypes, WindowsInvHolds, PTL

-----------------------------------------------------------------------------
(* The decode loop.                                                        *)


(* The first n generated tokens neither end in EOS nor complete a stop     *)
(* sequence.                                                               *)
Clean(n) ==
  /\ Matches(Generated(sequence, n)) = {}
  /\ n > 0 => ~IsEos(sequence[prompt_count + n])

(* Nothing generated so far ends the loop.                                 *)
AllClean == \A n \in 0..result.new_count : Clean(n)

(* Of everything generated, what follows the first n tokens is the longest *)
(* end that can still grow into a stop sequence.                           *)
LongestAfter(n) ==
  \E h \in 0..result.new_count :
    /\ n + h = result.new_count
    /\ CanGrow(Gen, h)
    /\ \A m \in 0..result.new_count : CanGrow(Gen, m) => m <= h

(* Why the emit_until under way delivers up to its target.                 *)
ForEos ==
  /\ result.new_count > minimum_new_tokens
  /\ IsEos(sequence[prompt_count + result.new_count])
  /\ target = result.new_count - 1

ForStop ==
  /\ ~IsEos(sequence[prompt_count + result.new_count])
  /\ Matches(Gen) # {}
  /\ target = result.new_count - Len(stops[Matching(Gen)])

ForDecode ==
  /\ AllClean
  /\ LongestAfter(target)
  /\ fed = SubSeq(sequence, 1, result.total_count - 1)

ForFlush == AllClean /\ target = result.new_count

(* The counts describe the buffer and the stream.                          *)
CountInv ==
  /\ prompt_count > 0
  /\ result.total_count = prompt_count + result.new_count
  /\ result.total_count <= Len(sequence)
  /\ result.emitted_count = Len(delivered)
  /\ Len(delivered) <= result.new_count
  /\ pc # "done" => Len(sequence) = result.total_count
  /\ pc \in {"sample", "forward"} => result.new_count < limit

(* Delivered is the beginning of what was generated, and nothing before the*)
(* last token ended the loop.                                              *)
StreamInv ==
  /\ delivered = Generated(sequence, Len(delivered))
  /\ \A n \in 0..result.new_count - 1 : Clean(n)

(* The flags say why the loop ended, once it has.                          *)
FlagInv ==
  /\ pc \notin {"exit", "done"} =>
       ~result.stopped_on_eos /\ ~result.stopped_on_stop_sequence
  /\ pc # "done" => ~result.stopped_by_callback
  /\ result.stopped_by_callback =>
       /\ ~result.stopped_on_eos /\ ~result.stopped_on_stop_sequence
       /\ result.new_count = Len(delivered) /\ AllClean

(* What the loop has ended with.                                           *)
Ended ==
  /\ Len(delivered) = target
  /\ \/ /\ reason = "eos" /\ ForEos
        /\ result.stopped_on_eos /\ ~result.stopped_on_stop_sequence
     \/ /\ reason = "stop" /\ ForStop
        /\ ~result.stopped_on_eos /\ result.stopped_on_stop_sequence
        /\ result.stop_sequence_index = Matching(Gen)
     \/ /\ reason = "flush" /\ ForFlush
        /\ ~result.stopped_on_eos /\ ~result.stopped_on_stop_sequence

(* Where the loop is.                                                      *)
LoopInv ==
  /\ pc = "prime" =>
       /\ result.new_count = 0 /\ Len(fed) < prompt_count
       /\ fed = SubSeq(sequence, 1, Len(fed))
  /\ pc \in {"prime", "sample", "forward", "flush", "error"} => AllClean
  /\ pc = "sample" => fed = SubSeq(sequence, 1, result.total_count)
  /\ pc = "forward" => fed = SubSeq(sequence, 1, result.total_count - 1)
  /\ pc \in {"sample", "forward"} => LongestAfter(Len(delivered))
  /\ pc = "emit" =>
       /\ Len(delivered) <= target
       /\ \/ reason = "eos" /\ ForEos
          \/ reason = "stop" /\ ForStop
          \/ reason = "decode" /\ ForDecode /\ result.new_count > 0
          \/ reason = "flush" /\ ForFlush
  /\ pc = "exit" \/ (pc = "done" /\ ~result.stopped_by_callback) => Ended

(* The inductive invariant, with the cache's own.                          *)
DecodeInv == IInv /\ CountInv /\ StreamInv /\ FlagInv /\ LoopInv /\ TypeOK

-----------------------------------------------------------------------------
(* Sequences.                                                              *)

(* A piece of a sequence, by its elements.                                 *)
LEMMA Piece ==
  ASSUME NEW S, NEW s \in Seq(S), NEW m \in 1..Len(s) + 1, NEW n \in m - 1..Len(s)
  PROVE  /\ SubSeq(s, m, n) \in Seq(S)
         /\ Len(SubSeq(s, m, n)) = n - m + 1
         /\ \A i \in 1..n - m + 1 : SubSeq(s, m, n)[i] = s[m - 1 + i]
  OBVIOUS

(* The last n elements of a sequence.                                      *)
LEMMA LastPiece ==
  ASSUME NEW S, NEW s \in Seq(S), NEW n \in 0..Len(s)
  PROVE  /\ LastOf(s, n) \in Seq(S) /\ Len(LastOf(s, n)) = n
         /\ \A i \in 1..n : LastOf(s, n)[i] = s[Len(s) - n + i]
<1> DEFINE m == Len(s) - n + 1
<1>1. m \in 1..Len(s) + 1 /\ Len(s) \in m - 1..Len(s) /\ Len(s) - m + 1 = n
      /\ m - 1 = Len(s) - n
  OBVIOUS
<1> HIDE DEF m
<1>2. /\ SubSeq(s, m, Len(s)) \in Seq(S)
      /\ Len(SubSeq(s, m, Len(s))) = n
      /\ \A i \in 1..n : SubSeq(s, m, Len(s))[i] = s[m - 1 + i]
  BY <1>1, Piece
<1> QED BY <1>1, <1>2 DEF LastOf, m

(* What ends with u once t is appended ended with all of u but its last.   *)
LEMMA EndedBefore ==
  ASSUME NEW g \in Seq(Tokens), NEW t \in Tokens, NEW u \in Seq(Tokens),
         NEW m \in 1..Len(g) + 1, m <= Len(u),
         LastOf(Append(g, t), m) = SubSeq(u, 1, m)
  PROVE  LastOf(g, m - 1) = SubSeq(u, 1, m - 1)
<1> DEFINE h == Append(g, t)
           r == m - 1
<1>1. /\ h \in Seq(Tokens) /\ Len(h) = Len(g) + 1
      /\ \A i \in 1..Len(g) : h[i] = g[i]
  OBVIOUS
<1>2. m \in 0..Len(h) /\ r \in 0..Len(g) /\ m = r + 1
  BY <1>1
<1> HIDE DEF h
<1>3. \A i \in 1..m : LastOf(h, m)[i] = h[Len(h) - m + i]
  BY <1>1, <1>2, LastPiece
<1>4. /\ LastOf(g, r) \in Seq(Tokens) /\ Len(LastOf(g, r)) = r
      /\ \A i \in 1..r : LastOf(g, r)[i] = g[Len(g) - r + i]
  BY <1>2, LastPiece
<1> HIDE DEF r
<1>5. /\ SubSeq(u, 1, r) \in Seq(Tokens) /\ Len(SubSeq(u, 1, r)) = r
      /\ \A i \in 1..r : SubSeq(u, 1, r)[i] = u[i]
      /\ \A i \in 1..m : SubSeq(u, 1, m)[i] = u[i]
  BY <1>2
<1>6. ASSUME NEW i \in 1..r
      PROVE  LastOf(g, r)[i] = SubSeq(u, 1, r)[i]
  <2>1. /\ Len(h) - m + i = Len(g) - r + i /\ Len(g) - r + i \in 1..Len(g)
        /\ i \in 1..m
    BY <1>1, <1>2
  <2>2. LastOf(h, m)[i] = g[Len(g) - r + i]
    BY <1>1, <1>3, <2>1
  <2>3. LastOf(h, m)[i] = u[i]
    BY <1>5, <2>1 DEF h
  <2> QED BY <1>4, <1>5, <2>2, <2>3
<1>7. LastOf(g, r) = SubSeq(u, 1, r)
  BY <1>4, <1>5, <1>6, SeqEqual
<1> QED BY <1>7 DEF r

-----------------------------------------------------------------------------
(* Greatest elements.                                                      *)

(* A bounded set of numbers has a greatest element.                        *)
LEMMA GreatestExists ==
  ASSUME NEW k \in Nat, NEW S, S \subseteq 0..k, S # {}
  PROVE  \E n \in S : \A m \in S : m <= n
<1> DEFINE R == {k - n : n \in S}
<1>1. R \subseteq Nat /\ R # {}
  <2>1. \A n \in S : n \in 0..k
    OBVIOUS
  <2>2. \A n \in S : k - n \in Nat
    BY <2>1
  <2> QED BY <2>2
<1>2. PICK r \in R : \A q \in R : r <= q
  BY <1>1, LeastExists
<1>3. PICK n \in S : r = k - n
  BY <1>2
<1>4. \A m \in S : k - n <= k - m
  BY <1>2, <1>3
<1> QED BY <1>3, <1>4

-----------------------------------------------------------------------------
(* Stop sequences.                                                         *)

StopsOK == stops \in Seq(Seq(Tokens) \ {<< >>}) /\ minimum_new_tokens \in Nat

(* A stop sequence is a sequence of tokens that is not empty.              *)
LEMMA StopTokens ==
  ASSUME StopsOK, NEW i \in 1..Len(stops)
  PROVE  stops[i] \in Seq(Tokens) /\ Len(stops[i]) \in Nat \ {0}
<1>1. stops[i] \in Seq(Tokens) /\ stops[i] # << >>
  BY DEF StopsOK
<1> QED BY <1>1

(* The first registered match is a match.                                  *)
LEMMA MatchingMatches ==
  ASSUME NEW gen, Matches(gen) # {}
  PROVE  Matching(gen) \in Matches(gen)
<1>1. Matches(gen) \subseteq Nat
  BY DEF Matches
<1>2. \E i \in Matches(gen) : \A j \in Matches(gen) : i <= j
  BY <1>1, LeastExists
<1> QED BY <1>2 DEF Matching

(* A match is a possible stop sequence that grew by its last token.        *)
LEMMA MatchGrew ==
  ASSUME StopsOK, NEW g \in Seq(Tokens), NEW t \in Tokens,
         NEW i \in Matches(Append(g, t))
  PROVE  /\ Len(stops[i]) \in 1..Len(g) + 1
         /\ CanGrow(g, Len(stops[i]) - 1)
<1> DEFINE h == Append(g, t)
           l == Len(stops[i])
<1>1. Len(h) = Len(g) + 1 /\ Len(g) \in Nat
  OBVIOUS
<1>2. i \in 1..Len(stops) /\ MatchAt(h, i)
  BY DEF Matches
<1>3. stops[i] \in Seq(Tokens) /\ l \in Nat \ {0}
  BY <1>2, StopTokens
<1> HIDE DEF h, l
<1>4. l <= Len(h) /\ Len(h) - l >= minimum_new_tokens /\ LastOf(h, l) = stops[i]
  BY <1>2 DEF MatchAt, l
<1>5. SubSeq(stops[i], 1, l) = stops[i]
  <2>1. ASSUME NEW u \in Seq(Tokens) PROVE SubSeq(u, 1, Len(u)) = u
    OBVIOUS
  <2> QED BY <1>3, <2>1 DEF l
<1>9. l <= Len(stops[i])
  BY <1>3 DEF l
<1>6. l \in 1..Len(g) + 1
  BY <1>1, <1>3, <1>4
<1>7. LastOf(g, l - 1) = SubSeq(stops[i], 1, l - 1)
  <2>1. LastOf(Append(g, t), l) = SubSeq(stops[i], 1, l)
    BY <1>4, <1>5 DEF h
  <2> QED BY <1>3, <1>6, <1>9, <2>1, EndedBefore
<1>8. l - 1 < l /\ Len(g) - (l - 1) >= minimum_new_tokens
  BY <1>1, <1>3, <1>4 DEF StopsOK
<1> QED BY <1>2, <1>6, <1>7, <1>8 DEF CanGrow, l

(* An end that can grow could already grow before its last token.          *)
LEMMA GrewBefore ==
  ASSUME StopsOK, NEW g \in Seq(Tokens), NEW t \in Tokens,
         NEW m \in 1..Len(g) + 1, CanGrow(Append(g, t), m)
  PROVE  CanGrow(g, m - 1)
<1> DEFINE h == Append(g, t)
<1>1. Len(h) = Len(g) + 1 /\ Len(g) \in Nat
  OBVIOUS
<1>2. PICK i \in 1..Len(stops) :
         /\ m < Len(stops[i])
         /\ Len(h) - m >= minimum_new_tokens
         /\ LastOf(h, m) = SubSeq(stops[i], 1, m)
  <2> HIDE DEF h
  <2>1. m # 0
    OBVIOUS
  <2>2. CanGrow(h, m)
    BY DEF h
  <2> QED BY <2>1, <2>2 DEF CanGrow
<1>3. stops[i] \in Seq(Tokens) /\ Len(stops[i]) \in Nat
  BY StopTokens
<1>4. LastOf(g, m - 1) = SubSeq(stops[i], 1, m - 1)
  <2>1. m <= Len(stops[i]) /\ LastOf(Append(g, t), m) = SubSeq(stops[i], 1, m)
    BY <1>2, <1>3
  <2> HIDE DEF h
  <2> QED BY <1>3, <2>1, EndedBefore
<1>5. m - 1 < Len(stops[i]) /\ Len(g) - (m - 1) >= minimum_new_tokens
  BY <1>1, <1>2, <1>3 DEF StopsOK
<1> QED BY <1>4, <1>5 DEF CanGrow

(* What pending_stop_prefix holds, and that no more could grow when the    *)
(* longest end that could grow before was already held.                    *)
LEMMA PendingIsLongest ==
  ASSUME StopsOK, NEW g \in Seq(Tokens), NEW t \in Tokens,
         NEW done \in 0..Len(g),
         \A m \in 0..Len(g) : CanGrow(g, m) => m <= Len(g) - done
  PROVE  /\ Pending(Append(g, t), done) \in 0..Len(g) + 1 - done
         /\ CanGrow(Append(g, t), Pending(Append(g, t), done))
         /\ \A m \in 0..Len(g) + 1 :
              CanGrow(Append(g, t), m) => m <= Pending(Append(g, t), done)
<1> DEFINE h == Append(g, t)
           k == Len(g) + 1 - done
           S == {m \in 0..k : CanGrow(h, m)}
           p == Pending(h, done)
<1>1. Len(h) = Len(g) + 1 /\ Len(g) \in Nat /\ k \in Nat /\ Len(h) - done = k
  OBVIOUS
<1> HIDE DEF h, k
<1>2. 0 \in S
  BY <1>1 DEF CanGrow
<1>3. \E n \in S : \A m \in S : m <= n
  <2> HIDE DEF S
  <2>1. S \subseteq 0..k
    BY DEF S
  <2> QED BY <1>1, <1>2, <2>1, GreatestExists
<1>4. p \in 0..k /\ CanGrow(h, p) /\ \A m \in 0..k : CanGrow(h, m) => m <= p
  BY <1>1, <1>3 DEF Pending
<1> HIDE DEF p, S
<1>5. ASSUME NEW m \in 0..Len(g) + 1, CanGrow(h, m)
      PROVE  m <= p
  <2>1. CASE m = 0
    BY <2>1, <1>1, <1>4
  <2>2. CASE m > 0
    <3>1. m \in 1..Len(g) + 1 /\ m - 1 \in 0..Len(g)
      BY <2>2, <1>1
    <3>2. CanGrow(g, m - 1)
      BY <3>1, <1>5, GrewBefore DEF h
    <3>3. m - 1 <= Len(g) - done
      BY <3>1, <3>2
    <3>4. m \in 0..k
      BY <3>1, <3>3, <1>1 DEF k
    <3> QED BY <3>4, <1>4, <1>5
  <2> QED BY <2>1, <2>2
<1>6. /\ p \in 0..k /\ CanGrow(h, p)
      /\ \A m \in 0..Len(g) + 1 : CanGrow(h, m) => m <= p
  BY <1>4, <1>5
<1> QED BY <1>6, Zenon DEF h, k, p

-----------------------------------------------------------------------------
(* What the invariant says of the buffer.                                  *)

(* Shapes and bounds used everywhere below.                                *)
Base ==
  /\ StopsOK
  /\ prompt_count \in Nat \ {0} /\ limit \in Nat
  /\ sequence \in Seq(Tokens) /\ delivered \in Seq(Tokens) /\ fed \in Seq(Tokens)
  /\ result \in Result
  /\ result.new_count \in Nat /\ result.new_count <= limit
  /\ result.total_count = prompt_count + result.new_count
  /\ result.total_count <= Len(sequence)
  /\ Len(delivered) \in Nat /\ Len(delivered) <= result.new_count
  /\ Len(delivered) = result.emitted_count

(* What DecodeInv says about types and counts.                             *)
LEMMA BaseFacts ==
  ASSUME GenerationAssumption, DecodeInv
  PROVE  Base
<1>1. TypeOK /\ CountInv
  BY DEF DecodeInv
<1>2. StopsOK
  BY <1>1 DEF TypeOK, StopsOK, GenerationAssumption
<1>3. /\ prompt_count \in Nat \ {0} /\ limit \in Nat
      /\ sequence \in Seq(Tokens) /\ delivered \in Seq(Tokens)
      /\ result \in Result
  BY <1>1 DEF TypeOK, CountInv
<1>4. fed \in Seq(Tokens)
  BY <1>1 DEF TypeOK, CacheTypeOK
<1>5. result.new_count \in Nat /\ result.new_count <= limit
  BY <1>3 DEF Result
<1> QED BY <1>1, <1>2, <1>3, <1>4, <1>5 DEF Base, CountInv

(* The generated tokens, by their elements.                                *)
LEMMA GeneratedFacts ==
  ASSUME Base, NEW n \in 0..result.new_count
  PROVE  /\ Generated(sequence, n) \in Seq(Tokens)
         /\ Len(Generated(sequence, n)) = n
         /\ \A i \in 1..n : Generated(sequence, n)[i] = sequence[prompt_count + i]
<1> DEFINE m == prompt_count + 1
           k == prompt_count + n
<1>1. /\ sequence \in Seq(Tokens) /\ m \in 1..Len(sequence) + 1
      /\ k \in m - 1..Len(sequence) /\ k - m + 1 = n /\ m - 1 = prompt_count
  BY DEF Base
<1> HIDE DEF m, k
<1>2. /\ SubSeq(sequence, m, k) \in Seq(Tokens)
      /\ Len(SubSeq(sequence, m, k)) = n
      /\ \A i \in 1..n : SubSeq(sequence, m, k)[i] = sequence[prompt_count + i]
  BY <1>1, Piece
<1> QED BY <1>2 DEF Generated, m, k

(* All generated tokens, by their elements.                                *)
LEMMA GenFacts ==
  ASSUME Base
  PROVE  /\ Gen \in Seq(Tokens) /\ Len(Gen) = result.new_count
         /\ \A i \in 1..result.new_count : Gen[i] = sequence[prompt_count + i]
<1>1. result.new_count \in 0..result.new_count
  BY DEF Base
<1> QED BY <1>1, GeneratedFacts DEF Gen

(* A shorter piece of what was generated.                                  *)
LEMMA GeneratedPiece ==
  ASSUME Base, NEW k \in 0..result.new_count, NEW n \in 0..k
  PROVE  SubSeq(SubSeq(Gen, 1, k), 1, n) = Generated(sequence, n)
<1> DEFINE s == SubSeq(Gen, 1, k)
           r == SubSeq(s, 1, n)
           t == Generated(sequence, n)
<1>1. /\ k \in Nat /\ n \in Nat /\ n <= k /\ k <= Len(Gen)
      /\ result.new_count \in Nat
  BY GenFacts DEF Base
<1>2. /\ s \in Seq(Tokens) /\ Len(s) = k
      /\ \A i \in 1..k : s[i] = Gen[i]
  BY <1>1, GenFacts
<1> HIDE DEF s
<1>3. /\ r \in Seq(Tokens) /\ Len(r) = n
      /\ \A i \in 1..n : r[i] = s[i]
  BY <1>1, <1>2
<1>4. n \in 0..result.new_count
  BY <1>1
<1>5. /\ t \in Seq(Tokens) /\ Len(t) = n
      /\ \A i \in 1..n : t[i] = sequence[prompt_count + i]
  BY <1>4, GeneratedFacts
<1> HIDE DEF r, t
<1>6. ASSUME NEW i \in 1..n
      PROVE  r[i] = t[i]
  <2>1. i \in 1..k /\ i \in 1..result.new_count
    BY <1>1
  <2> QED BY <2>1, <1>2, <1>3, <1>5, GenFacts
<1>7. r = t
  BY <1>3, <1>5, <1>6, SeqEqual
<1> QED BY <1>7 DEF r, s, t

(* The first n tokens do not change while the buffer keeps them.           *)
LEMMA SameClean ==
  ASSUME UNCHANGED options, NEW n \in Nat,
         Generated(sequence, n)' = Generated(sequence, n),
         n > 0 => sequence'[prompt_count + n] = sequence[prompt_count + n]
  PROVE  Clean(n)' <=> Clean(n)
<1>1. UNCHANGED <<special, stops, minimum_new_tokens, prompt_count>>
  BY DEF options
<1>2. ASSUME NEW g, Generated(sequence, n)' = g, Generated(sequence, n) = g
      PROVE  Matches(Generated(sequence, n))' = Matches(Generated(sequence, n))
  BY <1>1, <1>2 DEF Matches, MatchAt
<1>3. Matches(Generated(sequence, n))' = Matches(Generated(sequence, n))
  BY <1>2
<1> QED BY <1>1, <1>3 DEF Clean, IsEos

(* Stop sequences are looked for in the same way in the next state.        *)
LEMMA SameStops ==
  ASSUME UNCHANGED options, NEW g, Gen' = g
  PROVE  /\ \A n : CanGrow(Gen, n)' <=> CanGrow(g, n)
         /\ Matches(Gen)' = Matches(g)
         /\ Matching(Gen)' = Matching(g)
<1>1. UNCHANGED <<special, stops, minimum_new_tokens, prompt_count>>
  BY DEF options
<1>2. \A n : CanGrow(Gen, n)' <=> CanGrow(g, n)
  BY <1>1 DEF CanGrow
<1>3. Matches(Gen)' = Matches(g)
  BY <1>1 DEF Matches, MatchAt
<1>4. Matching(Gen)' = Matching(g)
  BY <1>3 DEF Matching
<1> QED BY <1>2, <1>3, <1>4

(* A step that generates nothing.                                          *)
LEMMA SameText ==
  ASSUME UNCHANGED <<options, sequence>>
  PROVE  /\ \A n \in Nat : Clean(n)' <=> Clean(n)
         /\ \A n \in Nat : Generated(sequence, n)' = Generated(sequence, n)
         /\ result'.new_count = result.new_count =>
              /\ Gen' = Gen
              /\ \A n : CanGrow(Gen, n)' <=> CanGrow(Gen, n)
              /\ Matches(Gen)' = Matches(Gen)
              /\ Matching(Gen)' = Matching(Gen)
<1>1. prompt_count' = prompt_count
  BY DEF options
<1>2. ASSUME NEW n \in Nat
      PROVE  Generated(sequence, n)' = Generated(sequence, n)
  BY <1>1 DEF Generated
<1>3. ASSUME NEW n \in Nat
      PROVE  Clean(n)' <=> Clean(n)
  BY <1>2, SameClean
<1>4. CASE result'.new_count = result.new_count
  <2>1. Gen' = Gen
    BY <1>1, <1>4 DEF Gen, Generated
  <2> QED BY <1>2, <1>3, <2>1, SameStops
<1> QED BY <1>2, <1>3, <1>4

-----------------------------------------------------------------------------
(* The steps.                                                              *)

(* prepare_prompt keeps and adds only known tokens.                        *)
LEMMA PreparedType ==
  ASSUME NEW prompt \in Seq(Tokens), NEW framed \in BOOLEAN, NEW room \in Nat \ {0},
         Bos \in Tokens
  PROVE  Prepared(prompt, framed, room) \in Seq(Tokens)
<1> DEFINE available == IF framed THEN room - 1 ELSE room
           retained == Least(Len(prompt), available)
           m == Len(prompt) - retained + 1
           tail == SubSeq(prompt, m, Len(prompt))
<1>1. available \in Nat /\ Len(prompt) \in Nat
  OBVIOUS
<1>2. retained \in 0..Len(prompt)
  <2> HIDE DEF available
  <2> QED BY <1>1 DEF Least
<1> HIDE DEF retained
<1>3. m \in 1..Len(prompt) + 1 /\ Len(prompt) \in m - 1..Len(prompt)
  BY <1>1, <1>2
<1> HIDE DEF m
<1>4. tail \in Seq(Tokens)
  BY <1>3, Piece
<1> HIDE DEF tail
<1>5. (IF framed THEN <<Bos>> ELSE << >>) \o tail \in Seq(Tokens)
  BY <1>4
<1> QED BY <1>5 DEF Prepared, tail, m, retained

(* Before anything is generated nothing can have ended the loop.           *)
LEMMA NothingGenerated ==
  ASSUME StopsOK, prompt_count \in Nat
  PROVE  /\ Generated(sequence, 0) = << >> /\ Clean(0)
<1>1. Generated(sequence, 0) = << >>
  BY DEF Generated
<1>2. Matches(<< >>) = {}
  <2>1. \A i \in 1..Len(stops) : ~(Len(stops[i]) <= Len(<< >>))
    BY StopTokens
  <2> QED BY <2>1 DEF Matches, MatchAt
<1> QED BY <1>1, <1>2 DEF Clean

(* A prepared session has delivered nothing and ended nothing.             *)
LEMMA InitDecodeInv ==
  ASSUME GenerationAssumption, Init
  PROVE  DecodeInv
<1>1. IInv
  BY InitIInv DEF Init
<1>2. /\ special \in BOOLEAN /\ stops \in StopLists
      /\ minimum_new_tokens \in Minimums /\ StopsOK
      /\ fed = << >> /\ capacity \in Nat \ {0}
  BY KVCacheAssumption DEF Init, KVInit, GenerationAssumption, StopsOK
<1>3. sequence \in Seq(Tokens) /\ prompt_count = Len(sequence)
      /\ prompt_count \in Nat \ {0} /\ limit \in Nat
  <2>1. PICK prompt \in Prompts, request \in Requests, room \in SequenceCapacities :
           /\ sequence = Prepared(prompt, special, capacity)
           /\ prompt_count = Len(sequence)
           /\ prompt_count > 0
           /\ prompt_count <= room
           /\ limit = Least(request, room - prompt_count)
    BY DEF Init
  <2>2. sequence \in Seq(Tokens)
    BY <2>1, <1>2, PreparedType DEF GenerationAssumption
  <2>3. prompt_count \in Nat /\ room \in Nat /\ request \in Nat
    BY <2>1, <2>2 DEF GenerationAssumption
  <2>4. room - prompt_count \in Nat
    BY <2>1, <2>3
  <2>5. limit \in Nat
    BY <2>1, <2>3, <2>4 DEF Least
  <2> QED BY <2>1, <2>2, <2>3, <2>5
<1>4. /\ result = NewResult /\ delivered = << >> /\ target = 0 /\ reason = "none"
      /\ prior_training \in BOOLEAN /\ is_training = FALSE /\ pc = "prime"
  BY DEF Init
<1>5. /\ result \in Result /\ result.new_count = 0 /\ result.emitted_count = 0
      /\ result.total_count = prompt_count
      /\ ~result.stopped_on_eos /\ ~result.stopped_on_stop_sequence
      /\ ~result.stopped_by_callback
  <2>1. 0 \in 0..limit /\ 0 \in 0..Len(stops) /\ prompt_count \in Nat
    BY <1>2, <1>3 DEF StopsOK
  <2> QED BY <1>4, <2>1 DEF NewResult, Result
<1>6. TypeOK
  <2>1. CacheTypeOK
    BY <1>1 DEF IInv
  <2>2. 0 \in 0..limit /\ << >> \in Seq(Tokens)
    BY <1>3
  <2> QED BY <1>2, <1>3, <1>4, <1>5, <2>1, <2>2 DEF TypeOK
<1>7. CountInv
  BY <1>3, <1>4, <1>5 DEF CountInv
<1>8. Generated(sequence, 0) = << >> /\ Clean(0)
  BY <1>2, <1>3, NothingGenerated
<1>9. StreamInv
  BY <1>4, <1>5, <1>8 DEF StreamInv
<1>10. FlagInv
  BY <1>4, <1>5 DEF FlagInv
<1>11. LoopInv
  <2>1. AllClean
    BY <1>5, <1>8 DEF AllClean
  <2>2. Len(fed) < prompt_count /\ fed = SubSeq(sequence, 1, Len(fed))
    BY <1>2, <1>3
  <2> QED BY <1>4, <1>5, <2>1, <2>2 DEF LoopInv
<1> QED BY <1>1, <1>6, <1>7, <1>9, <1>10, <1>11 DEF DecodeInv

(* A step that leaves the buffer, the result and what was delivered alone. *)
LEMMA Quiet ==
  ASSUME Base, UNCHANGED <<options, sequence, delivered>>,
         result'.new_count = result.new_count
  PROVE  /\ StreamInv' <=> StreamInv
         /\ AllClean' <=> AllClean
         /\ LongestAfter(Len(delivered))' <=> LongestAfter(Len(delivered))
         /\ target' = target =>
              /\ LongestAfter(target)' <=> LongestAfter(target)
              /\ ForEos' <=> ForEos
              /\ ForStop' <=> ForStop
              /\ ForFlush' <=> ForFlush
<1>1. /\ \A n \in Nat : Clean(n)' <=> Clean(n)
      /\ \A n \in Nat : Generated(sequence, n)' = Generated(sequence, n)
      /\ Gen' = Gen
      /\ \A n : CanGrow(Gen, n)' <=> CanGrow(Gen, n)
      /\ Matches(Gen)' = Matches(Gen)
      /\ Matching(Gen)' = Matching(Gen)
  BY SameText
<1>2. /\ delivered' = delivered /\ Len(delivered) \in Nat
      /\ sequence' = sequence /\ prompt_count' = prompt_count
      /\ special' = special /\ stops' = stops
      /\ minimum_new_tokens' = minimum_new_tokens
      /\ result.new_count \in Nat
  BY DEF Base, options
<1>3. AllClean' <=> AllClean
  <2>1. \A n \in 0..result.new_count : n \in Nat
    BY <1>2
  <2> QED BY <1>1, <2>1 DEF AllClean
<1>4. StreamInv' <=> StreamInv
  <2>1. \A n \in 0..result.new_count - 1 : n \in Nat
    BY <1>2
  <2>2. Generated(sequence, Len(delivered))' = Generated(sequence, Len(delivered))
    BY <1>2 DEF Generated
  <2> QED BY <1>1, <1>2, <2>1, <2>2 DEF StreamInv
<1>5. LongestAfter(Len(delivered))' <=> LongestAfter(Len(delivered))
  BY <1>1, <1>2 DEF LongestAfter
<1>6. ASSUME target' = target
      PROVE  /\ LongestAfter(target)' <=> LongestAfter(target)
             /\ ForEos' <=> ForEos
             /\ ForStop' <=> ForStop
             /\ ForFlush' <=> ForFlush
  <2>1. LongestAfter(target)' <=> LongestAfter(target)
    BY <1>1, <1>6 DEF LongestAfter
  <2>2. ForEos' <=> ForEos
    BY <1>2, <1>6 DEF ForEos, IsEos
  <2>3. ForStop' <=> ForStop
    BY <1>1, <1>2, <1>6 DEF ForStop, IsEos
  <2>4. ForFlush' <=> ForFlush
    BY <1>3, <1>6 DEF ForFlush
  <2> QED BY <2>1, <2>2, <2>3, <2>4
<1> QED BY <1>3, <1>4, <1>5, <1>6

(* One more token has been fed.                                            *)
LEMMA FedOne ==
  ASSUME NEW s \in Seq(Tokens), NEW f \in Seq(Tokens), Len(f) + 1 <= Len(s),
         f = SubSeq(s, 1, Len(f))
  PROVE  /\ Append(f, s[Len(f) + 1]) = SubSeq(s, 1, Len(f) + 1)
         /\ Len(Append(f, s[Len(f) + 1])) = Len(f) + 1
         /\ s[Len(f) + 1] \in Tokens
<1> DEFINE l == Len(f) + 1
           a == Append(f, s[l])
           r == SubSeq(s, 1, l)
<1>1. Len(f) \in Nat /\ l \in 1..Len(s) /\ s[l] \in Tokens /\ l = Len(f) + 1
  OBVIOUS
<1> HIDE DEF l
<1>2. /\ a \in Seq(Tokens) /\ Len(a) = l /\ a[l] = s[l]
      /\ \A i \in 1..Len(f) : a[i] = f[i]
  BY <1>1
<1>3. r \in Seq(Tokens) /\ Len(r) = l /\ \A i \in 1..l : r[i] = s[i]
  BY <1>1
<1>4. \A i \in 1..Len(f) : f[i] = s[i]
  <2>1. \A i \in 1..Len(f) : SubSeq(s, 1, Len(f))[i] = s[i]
    BY <1>1
  <2> QED BY <2>1
<1> HIDE DEF a, r
<1>5. ASSUME NEW i \in 1..l
      PROVE  a[i] = r[i]
  BY <1>1, <1>2, <1>3, <1>4
<1>6. a = r
  BY <1>2, <1>3, <1>5, SeqEqual
<1> QED BY <1>1, <1>2, <1>6 DEF a, r, l

(* Priming feeds the next token of the prompt.                             *)
LEMMA PrimeDecodeInv ==
  ASSUME GenerationAssumption, DecodeInv, Prime
  PROVE  DecodeInv'
<1>1. Base /\ IInv /\ CountInv /\ StreamInv /\ FlagInv /\ LoopInv /\ TypeOK
  BY BaseFacts DEF DecodeInv
<1> DEFINE token == sequence[Len(fed) + 1]
<1>2. /\ UNCHANGED <<options, sequence, result, delivered, target, reason>>
      /\ pc = "prime"
      /\ \/ /\ ForwardToken(token)
            /\ pc' = IF Len(fed') = prompt_count THEN AfterPrime ELSE "prime"
            /\ UNCHANGED is_training
         \/ ~CanForward /\ Return("error") /\ UNCHANGED cacheVars
  BY DEF Prime
<1>3. /\ result.new_count = 0 /\ Len(fed) < prompt_count
      /\ fed = SubSeq(sequence, 1, Len(fed)) /\ AllClean
      /\ Len(sequence) = prompt_count /\ result.total_count = prompt_count
      /\ Len(delivered) = 0
  <2>1. Len(sequence) = result.total_count
    BY <1>1, <1>2 DEF CountInv
  <2> QED BY <1>1, <1>2, <2>1 DEF LoopInv, Base
<1>4. /\ Append(fed, token) = SubSeq(sequence, 1, Len(fed) + 1)
      /\ Len(Append(fed, token)) = Len(fed) + 1
      /\ token \in Tokens
  <2>1. Len(fed) + 1 <= Len(sequence)
    BY <1>1, <1>3 DEF Base
  <2> HIDE DEF token
  <2>2. sequence \in Seq(Tokens) /\ fed \in Seq(Tokens)
    BY <1>1 DEF Base
  <2> QED BY <2>1, <2>2, <1>3, FedOne DEF token
<1>5. /\ UNCHANGED <<options, sequence, delivered>>
      /\ result'.new_count = result.new_count
      /\ prompt_count' = prompt_count /\ special' = special /\ stops' = stops
      /\ minimum_new_tokens' = minimum_new_tokens /\ limit' = limit
      /\ prior_training' = prior_training
  BY <1>2 DEF options
<1>6. StreamInv' /\ AllClean'
  BY <1>1, <1>3, <1>5, Quiet
<1> HIDE DEF token
<1>7. CASE ForwardToken(token) /\ UNCHANGED is_training
           /\ pc' = IF Len(fed') = prompt_count THEN AfterPrime ELSE "prime"
  <2>1. IInv'
    BY <1>1, <1>4, <1>7, ForwardIInv
  <2>2. fed' = SubSeq(sequence, 1, Len(fed) + 1) /\ Len(fed') = Len(fed) + 1
    BY <1>4, <1>7 DEF ForwardToken
  <2>3. /\ pc' \in {"prime", "sample", "flush"}
        /\ pc' = "prime" => Len(fed') # prompt_count
        /\ pc' # "prime" => Len(fed') = prompt_count
        /\ pc' = "sample" => limit > 0
    BY <1>7 DEF AfterPrime
  <2>4. CountInv' /\ FlagInv'
    BY <1>1, <1>2, <1>3, <1>5, <2>3 DEF CountInv, FlagInv
  <2>5. TypeOK'
    <3>1. CacheTypeOK'
      BY <2>1 DEF IInv
    <3> QED BY <1>1, <1>2, <1>5, <1>7, <2>3, <3>1 DEF TypeOK, Result
  <2>6. Len(fed) + 1 <= prompt_count
    BY <1>1, <1>3 DEF Base
  <2>7. LongestAfter(Len(delivered))'
    <3>1. CanGrow(Gen, 0)'
      BY DEF CanGrow
    <3>2. result'.new_count = 0 /\ Len(delivered') = 0
      BY <1>2, <1>3
    <3> QED BY <3>1, <3>2 DEF LongestAfter
  <2>8. LoopInv'
    <3>1. pc' = "prime" => /\ result'.new_count = 0 /\ Len(fed') < prompt_count'
                           /\ fed' = SubSeq(sequence', 1, Len(fed'))
      BY <1>1, <1>2, <1>3, <1>5, <2>2, <2>3, <2>6 DEF Base
    <3>2. pc' = "sample" => fed' = SubSeq(sequence', 1, result'.total_count)
      BY <1>2, <1>3, <2>2, <2>3
    <3> QED BY <1>6, <2>3, <2>7, <3>1, <3>2 DEF LoopInv
  <2> QED BY <1>6, <2>1, <2>4, <2>5, <2>8 DEF DecodeInv
<1>8. CASE Return("error") /\ UNCHANGED cacheVars
  <2>1. IInv'
    BY <1>1, <1>8, NextIInv
  <2>2. pc' = "error" /\ is_training' = prior_training
    BY <1>8 DEF Return
  <2>3. CountInv' /\ FlagInv'
    BY <1>1, <1>2, <1>3, <1>5, <2>2 DEF CountInv, FlagInv
  <2>4. TypeOK'
    <3>1. CacheTypeOK'
      BY <2>1 DEF IInv
    <3> QED BY <1>1, <1>2, <1>5, <2>2, <3>1 DEF TypeOK, Result
  <2>5. LoopInv'
    BY <1>6, <2>2 DEF LoopInv
  <2> QED BY <1>6, <2>1, <2>3, <2>4, <2>5 DEF DecodeInv
<1> QED BY <1>2, <1>7, <1>8

(* The loop feeds the token it sampled last.                               *)
LEMMA ForwardDecodeInv ==
  ASSUME GenerationAssumption, DecodeInv, Forward
  PROVE  DecodeInv'
<1>1. Base /\ IInv /\ CountInv /\ StreamInv /\ FlagInv /\ LoopInv /\ TypeOK
  BY BaseFacts DEF DecodeInv
<1>2. /\ UNCHANGED <<options, sequence, result, delivered, target, reason>>
      /\ pc = "forward"
      /\ \/ ForwardToken(NextInput) /\ pc' = "sample" /\ UNCHANGED is_training
         \/ ~CanForward /\ Return("error") /\ UNCHANGED cacheVars
  BY DEF Forward
<1>3. /\ result.new_count < limit
      /\ fed = SubSeq(sequence, 1, result.total_count - 1) /\ AllClean
      /\ LongestAfter(Len(delivered))
      /\ Len(sequence) = result.total_count
  BY <1>1, <1>2 DEF CountInv, LoopInv
<1>4. /\ UNCHANGED <<options, sequence, delivered>>
      /\ result'.new_count = result.new_count
      /\ prompt_count' = prompt_count /\ special' = special /\ stops' = stops
      /\ minimum_new_tokens' = minimum_new_tokens /\ limit' = limit
      /\ prior_training' = prior_training
  BY <1>2 DEF options
<1>5. StreamInv' /\ AllClean' /\ LongestAfter(Len(delivered))'
  BY <1>1, <1>3, <1>4, Quiet
<1>6. CASE ForwardToken(NextInput) /\ pc' = "sample" /\ UNCHANGED is_training
  <2>1. /\ result.total_count \in Nat \ {0} /\ sequence \in Seq(Tokens)
        /\ fed \in Seq(Tokens)
    BY <1>1 DEF Base
  <2>2. Len(fed) = result.total_count - 1
    BY <1>3, <2>1
  <2>3. NextInput = sequence[Len(fed) + 1]
    BY <2>1, <2>2 DEF NextInput
  <2>4. /\ Append(fed, NextInput) = SubSeq(sequence, 1, Len(fed) + 1)
        /\ NextInput \in Tokens
    <3>1. Len(fed) + 1 <= Len(sequence) /\ fed = SubSeq(sequence, 1, Len(fed))
      BY <1>3, <2>1, <2>2
    <3> QED BY <2>1, <2>3, <3>1, FedOne
  <2>5. IInv'
    BY <1>1, <1>6, <2>4, ForwardIInv
  <2>6. fed' = SubSeq(sequence, 1, result.total_count)
    BY <1>6, <2>1, <2>2, <2>4 DEF ForwardToken
  <2>7. CountInv' /\ FlagInv'
    BY <1>1, <1>2, <1>3, <1>4, <1>6 DEF CountInv, FlagInv
  <2>8. TypeOK'
    <3>1. CacheTypeOK'
      BY <2>5 DEF IInv
    <3> QED BY <1>1, <1>2, <1>4, <1>6, <3>1 DEF TypeOK, Result
  <2>9. LoopInv'
    BY <1>2, <1>5, <1>6, <2>6 DEF LoopInv
  <2> QED BY <1>5, <2>5, <2>7, <2>8, <2>9 DEF DecodeInv
<1>7. CASE Return("error") /\ UNCHANGED cacheVars
  <2>1. IInv'
    BY <1>1, <1>7, NextIInv
  <2>2. pc' = "error" /\ is_training' = prior_training
    BY <1>7 DEF Return
  <2>3. CountInv' /\ FlagInv'
    BY <1>1, <1>2, <1>4, <2>2 DEF CountInv, FlagInv
  <2>4. TypeOK'
    <3>1. CacheTypeOK'
      BY <2>1 DEF IInv
    <3> QED BY <1>1, <1>2, <1>4, <2>2, <3>1 DEF TypeOK, Result
  <2>5. LoopInv'
    BY <1>5, <2>2 DEF LoopInv
  <2> QED BY <1>5, <2>1, <2>3, <2>4, <2>5 DEF DecodeInv
<1> QED BY <1>2, <1>6, <1>7

(* The buffer is kept and the cache left alone.                            *)
LEMMA FlushDecodeInv ==
  ASSUME GenerationAssumption, DecodeInv, Flush
  PROVE  DecodeInv'
<1>1. Base /\ IInv /\ CountInv /\ StreamInv /\ FlagInv /\ LoopInv /\ TypeOK
  BY BaseFacts DEF DecodeInv
<1>2. /\ UNCHANGED <<cacheVars, options, sequence, result, delivered, is_training>>
      /\ pc = "flush" /\ pc' = "emit" /\ reason' = "flush"
      /\ target' = result.new_count
  BY DEF Flush, BeginEmit
<1>3. AllClean
  BY <1>1, <1>2 DEF LoopInv
<1>4. /\ UNCHANGED <<options, sequence, delivered>>
      /\ result'.new_count = result.new_count
      /\ prompt_count' = prompt_count /\ special' = special /\ stops' = stops
      /\ minimum_new_tokens' = minimum_new_tokens /\ limit' = limit
      /\ prior_training' = prior_training
  BY <1>2 DEF options
<1>5. StreamInv' /\ AllClean'
  BY <1>1, <1>3, <1>4, Quiet
<1>6. IInv'
  BY <1>1, <1>2, NextIInv
<1>7. CountInv' /\ FlagInv'
  BY <1>1, <1>2, <1>4 DEF CountInv, FlagInv
<1>8. TypeOK'
  <2>1. CacheTypeOK' /\ result.new_count \in 0..limit
    BY <1>1, <1>6 DEF IInv, Base
  <2> QED BY <1>1, <1>2, <1>4, <2>1 DEF TypeOK, Result
<1>9. LoopInv'
  <2>1. ForFlush' /\ Len(delivered') <= target'
    BY <1>1, <1>2, <1>5 DEF ForFlush, Base
  <2> QED BY <1>2, <2>1 DEF LoopInv
<1> QED BY <1>5, <1>6, <1>7, <1>8, <1>9 DEF DecodeInv

(* The loop's end restores the mode and changes nothing else.              *)
LEMMA FinishDecodeInv ==
  ASSUME GenerationAssumption, DecodeInv, Finish
  PROVE  DecodeInv'
<1>1. Base /\ IInv /\ CountInv /\ StreamInv /\ FlagInv /\ LoopInv /\ TypeOK
  BY BaseFacts DEF DecodeInv
<1>2. /\ UNCHANGED <<cacheVars, options, sequence, result, delivered, target, reason>>
      /\ pc = "exit" /\ pc' = "done" /\ is_training' = prior_training
  BY DEF Finish, Return
<1>3. Ended /\ ~result.stopped_by_callback
  BY <1>1, <1>2 DEF LoopInv, FlagInv
<1>4. /\ UNCHANGED <<options, sequence, delivered>>
      /\ result'.new_count = result.new_count
      /\ prompt_count' = prompt_count /\ special' = special /\ stops' = stops
      /\ minimum_new_tokens' = minimum_new_tokens /\ limit' = limit
      /\ prior_training' = prior_training
  BY <1>2 DEF options
<1>5. /\ StreamInv' /\ (ForEos' <=> ForEos) /\ (ForStop' <=> ForStop)
      /\ (ForFlush' <=> ForFlush)
  BY <1>1, <1>2, <1>4, Quiet
<1>6. IInv'
  BY <1>1, <1>2, NextIInv
<1>7. CountInv' /\ FlagInv'
  BY <1>1, <1>2, <1>3, <1>4 DEF CountInv, FlagInv
<1>8. TypeOK'
  <2>1. CacheTypeOK'
    BY <1>6 DEF IInv
  <2> QED BY <1>1, <1>2, <1>4, <2>1 DEF TypeOK, Result
<1>9. LoopInv'
  <2>1. Matching(Gen)' = Matching(Gen)
    BY <1>4, SameText
  <2>2. Ended'
    BY <1>2, <1>3, <1>5, <2>1 DEF Ended
  <2> QED BY <1>2, <2>2 DEF LoopInv
<1> QED BY <1>5, <1>6, <1>7, <1>8, <1>9 DEF DecodeInv

(* When emit_until has reached its target the reason decides what follows. *)
LEMMA EndEmitDecodeInv ==
  ASSUME GenerationAssumption, DecodeInv, EndEmit
  PROVE  DecodeInv'
<1>1. Base /\ IInv /\ CountInv /\ StreamInv /\ FlagInv /\ LoopInv /\ TypeOK
  BY BaseFacts DEF DecodeInv
<1>2. /\ UNCHANGED <<cacheVars, options, sequence, delivered, target, reason,
                     is_training>>
      /\ pc = "emit" /\ Len(delivered) >= target
  BY DEF EndEmit
<1>3. /\ Len(delivered) = target
      /\ \/ reason = "eos" /\ ForEos
         \/ reason = "stop" /\ ForStop
         \/ reason = "decode" /\ ForDecode /\ result.new_count > 0
         \/ reason = "flush" /\ ForFlush
  <2>1. target \in Nat /\ Len(delivered) \in Nat
    BY <1>1 DEF TypeOK, Base
  <2> QED BY <1>1, <1>2, <2>1 DEF LoopInv
<1>4. /\ result \in Result /\ ~result.stopped_on_eos
      /\ ~result.stopped_on_stop_sequence /\ ~result.stopped_by_callback
  BY <1>1, <1>2 DEF FlagInv, Base
<1>5. /\ prompt_count' = prompt_count /\ special' = special /\ stops' = stops
      /\ minimum_new_tokens' = minimum_new_tokens /\ limit' = limit
      /\ prior_training' = prior_training
  BY <1>2 DEF options
<1>6. IInv'
  BY <1>1, <1>2, NextIInv
<1>7. ASSUME /\ result' \in Result /\ result'.new_count = result.new_count
             /\ result'.total_count = result.total_count
             /\ result'.emitted_count = result.emitted_count
             /\ result'.stopped_by_callback = result.stopped_by_callback,
             pc' \in {"exit", "forward", "flush"},
             pc' = "forward" => result.new_count < limit,
             pc' # "exit" => UNCHANGED result,
             LoopInv'
      PROVE  DecodeInv'
  <2>1. CountInv' /\ FlagInv'
    BY <1>1, <1>2, <1>4, <1>5, <1>7 DEF CountInv, FlagInv
  <2>2. StreamInv'
    BY <1>1, <1>2, <1>7, Quiet
  <2>3. TypeOK'
    <3>1. CacheTypeOK'
      BY <1>6 DEF IInv
    <3> QED BY <1>1, <1>2, <1>5, <1>7, <3>1 DEF TypeOK, Result
  <2> QED BY <1>6, <1>7, <2>1, <2>2, <2>3 DEF DecodeInv
<1>8. CASE reason = "eos" /\ ForEos
  <2>1. result' = [result EXCEPT !.stopped_on_eos = TRUE] /\ pc' = "exit"
    BY <1>8 DEF EndEmit
  <2>2. /\ result' \in Result /\ result'.new_count = result.new_count
        /\ result'.total_count = result.total_count
        /\ result'.emitted_count = result.emitted_count
        /\ result'.stopped_by_callback = result.stopped_by_callback
        /\ result'.stopped_on_stop_sequence = result.stopped_on_stop_sequence
        /\ result'.stopped_on_eos
    BY <1>4, <2>1 DEF Result
  <2>3. ForEos'
    BY <1>1, <1>2, <1>8, <2>2, Quiet
  <2>4. LoopInv'
    BY <1>2, <1>3, <1>4, <1>8, <2>1, <2>2, <2>3 DEF LoopInv, Ended
  <2> QED BY <1>7, <2>1, <2>2, <2>4
<1>9. CASE reason = "stop" /\ ForStop
  <2>1. result' = [result EXCEPT !.stopped_on_stop_sequence = TRUE,
                                 !.stop_sequence_index = Matching(Gen)]
        /\ pc' = "exit"
    BY <1>9 DEF EndEmit, Gen
  <2>2. Matching(Gen) \in 0..Len(stops)
    <3>1. Matching(Gen) \in Matches(Gen)
      BY <1>9, MatchingMatches DEF ForStop
    <3>2. Len(stops) \in Nat
      BY <1>1 DEF Base, StopsOK
    <3> QED BY <3>1, <3>2 DEF Matches
  <2>3. /\ result' \in Result /\ result'.new_count = result.new_count
        /\ result'.total_count = result.total_count
        /\ result'.emitted_count = result.emitted_count
        /\ result'.stopped_by_callback = result.stopped_by_callback
        /\ result'.stopped_on_eos = result.stopped_on_eos
        /\ result'.stopped_on_stop_sequence
        /\ result'.stop_sequence_index = Matching(Gen)
    BY <1>4, <2>1, <2>2 DEF Result
  <2>4. ForStop' /\ Matching(Gen)' = Matching(Gen)
    BY <1>1, <1>2, <1>9, <2>3, Quiet, SameText
  <2>5. LoopInv'
    BY <1>2, <1>3, <1>4, <1>9, <2>1, <2>3, <2>4 DEF LoopInv, Ended
  <2> QED BY <1>7, <2>1, <2>3, <2>5
<1>10. CASE reason = "decode" /\ ForDecode
  <2>1. pc' = AfterDecode /\ UNCHANGED result
    BY <1>10 DEF EndEmit
  <2>2. /\ pc' \in {"forward", "flush"}
        /\ pc' = "forward" => result.new_count < limit
    BY <2>1 DEF AfterDecode
  <2>3. AllClean' /\ LongestAfter(Len(delivered))'
    <3>1. AllClean /\ LongestAfter(Len(delivered))
      BY <1>3, <1>10 DEF ForDecode
    <3> QED BY <1>1, <1>2, <2>1, <3>1, Quiet
  <2>4. fed' = SubSeq(sequence', 1, result'.total_count - 1)
    BY <1>2, <1>10, <2>1 DEF ForDecode, cacheVars
  <2>5. LoopInv'
    BY <2>2, <2>3, <2>4 DEF LoopInv
  <2> QED BY <1>4, <1>5, <1>7, <2>1, <2>2, <2>5 DEF Result
<1>11. CASE reason = "flush" /\ ForFlush
  <2>1. pc' = "exit" /\ UNCHANGED result
    BY <1>11 DEF EndEmit
  <2>2. ForFlush'
    BY <1>1, <1>2, <1>11, <2>1, Quiet
  <2>3. LoopInv'
    BY <1>2, <1>3, <1>4, <1>11, <2>1, <2>2 DEF LoopInv, Ended
  <2> QED BY <1>4, <1>5, <1>7, <2>1, <2>3 DEF Result
<1> QED BY <1>3, <1>8, <1>9, <1>10, <1>11

(* A delivered token is the next of those generated.                       *)
LEMMA Delivers ==
  ASSUME Base, StreamInv, Len(delivered) < result.new_count
  PROVE  /\ AfterDelivery = Generated(sequence, Len(delivered) + 1)
         /\ AfterDelivery \in Seq(Tokens)
         /\ Len(AfterDelivery) = Len(delivered) + 1
<1> DEFINE d == Len(delivered)
           token == sequence[prompt_count + d + 1]
           r == Generated(sequence, d + 1)
<1>1. /\ d \in 0..result.new_count /\ d + 1 \in 0..result.new_count
      /\ delivered \in Seq(Tokens) /\ sequence \in Seq(Tokens)
      /\ prompt_count + d + 1 \in 1..Len(sequence)
      /\ prompt_count \in Nat /\ prompt_count + (d + 1) = prompt_count + d + 1
  <2>1. /\ d \in Nat /\ prompt_count \in Nat \ {0} /\ result.new_count \in Nat
        /\ d < result.new_count
        /\ prompt_count + result.new_count <= Len(sequence)
        /\ delivered \in Seq(Tokens) /\ sequence \in Seq(Tokens)
    BY DEF Base
  <2> HIDE DEF d
  <2>2. Len(sequence) \in Nat
    BY <2>1
  <2>3. prompt_count + d + 1 \in 1..Len(sequence)
    BY <2>1, <2>2
  <2> QED BY <2>1, <2>3
<1>2. token \in Tokens
  BY <1>1
<1>3. \A i \in 1..d : delivered[i] = sequence[prompt_count + i]
  <2>1. delivered = Generated(sequence, d)
    BY DEF StreamInv
  <2> QED BY <1>1, <2>1, GeneratedFacts
<1>4. /\ r \in Seq(Tokens) /\ Len(r) = d + 1
      /\ \A i \in 1..d + 1 : r[i] = sequence[prompt_count + i]
  BY <1>1, GeneratedFacts
<1>5. AfterDelivery = Append(delivered, token)
  BY DEF AfterDelivery
<1> HIDE DEF token, r
<1>6. /\ AfterDelivery \in Seq(Tokens) /\ Len(AfterDelivery) = d + 1
      /\ AfterDelivery[d + 1] = token
      /\ \A i \in 1..d : AfterDelivery[i] = delivered[i]
  BY <1>1, <1>2, <1>5
<1>7. ASSUME NEW i \in 1..d + 1
      PROVE  AfterDelivery[i] = r[i]
  <2>1. CASE i \in 1..d
    BY <2>1, <1>3, <1>4, <1>6
  <2>2. CASE i = d + 1
    BY <2>2, <1>1, <1>4, <1>6 DEF token
  <2> HIDE DEF d
  <2> QED BY <1>1, <2>1, <2>2
<1>8. AfterDelivery = r
  BY <1>4, <1>6, <1>7, SeqEqual
<1> QED BY <1>6, <1>8 DEF r

(* An emit_until never goes past what was generated, and stays before the  *)
(* terminator when there is one.                                           *)
LEMMA TargetBound ==
  ASSUME Base, TypeOK, StreamInv, ForEos \/ ForStop \/ ForDecode \/ ForFlush
  PROVE  /\ target \in 0..result.new_count
         /\ \A n \in 0..target : Clean(n)
<1>1. result.new_count \in Nat /\ target \in Nat
      /\ \A n \in 0..result.new_count - 1 : Clean(n)
  BY DEF Base, TypeOK, StreamInv
<1>2. CASE ForEos
  BY <1>1, <1>2 DEF ForEos
<1>3. CASE ForStop
  <2> DEFINE i == Matching(Gen)
  <2>1. i \in 1..Len(stops)
    BY <1>3, MatchingMatches DEF ForStop, Matches
  <2>2. Len(stops[i]) \in Nat \ {0} /\ target = result.new_count - Len(stops[i])
    BY <1>3, <2>1, StopTokens DEF ForStop, Base
  <2> HIDE DEF i
  <2>3. target \in 0..result.new_count - 1
    BY <1>1, <2>2
  <2> QED BY <1>1, <2>3
<1>4. CASE ForDecode \/ ForFlush
  <2>1. target <= result.new_count
    BY <1>1, <1>4 DEF ForDecode, ForFlush, LongestAfter
  <2> QED BY <1>1, <1>4, <2>1 DEF ForDecode, ForFlush, AllClean
<1> QED BY <1>2, <1>3, <1>4

(* One token is delivered, or the callback stops the loop.                 *)
LEMMA EmitDecodeInv ==
  ASSUME GenerationAssumption, DecodeInv, Emit
  PROVE  DecodeInv'
<1>1. Base /\ IInv /\ CountInv /\ StreamInv /\ FlagInv /\ LoopInv /\ TypeOK
  BY BaseFacts DEF DecodeInv
<1> DEFINE d == Len(delivered) + 1
<1>2. /\ UNCHANGED <<cacheVars, options, sequence, target, reason>>
      /\ pc = "emit" /\ Len(delivered) < target
      /\ delivered' = AfterDelivery
  BY DEF Emit
<1>3. \/ reason = "eos" /\ ForEos
      \/ reason = "stop" /\ ForStop
      \/ reason = "decode" /\ ForDecode /\ result.new_count > 0
      \/ reason = "flush" /\ ForFlush
  BY <1>1, <1>2 DEF LoopInv
<1>4. target \in 0..result.new_count /\ \A n \in 0..target : Clean(n)
  BY <1>1, <1>3, TargetBound
<1>5. /\ result \in Result /\ ~result.stopped_on_eos
      /\ ~result.stopped_on_stop_sequence /\ ~result.stopped_by_callback
  BY <1>1, <1>2 DEF FlagInv, Base
<1>6. /\ prompt_count' = prompt_count /\ special' = special /\ stops' = stops
      /\ minimum_new_tokens' = minimum_new_tokens /\ limit' = limit
      /\ prior_training' = prior_training
  BY <1>2 DEF options
<1>7. /\ d \in 1..target /\ result.new_count \in Nat /\ Len(delivered) \in Nat
      /\ result.new_count <= limit /\ limit \in Nat
  BY <1>1, <1>2, <1>4 DEF Base
<1>8. /\ delivered' = Generated(sequence, d) /\ delivered' \in Seq(Tokens)
      /\ Len(delivered') = d
  BY <1>1, <1>2, <1>4, <1>7, Delivers
<1>9. IInv'
  BY <1>1, <1>2, NextIInv
<1>10. \A n \in Nat : /\ Clean(n)' <=> Clean(n)
                      /\ Generated(sequence, n)' = Generated(sequence, n)
  BY <1>2, SameText
<1> HIDE DEF d
<1>11. delivered' = Generated(sequence, Len(delivered))'
  BY <1>2, <1>6, <1>8 DEF Generated
<1>12. CASE /\ result' = [result EXCEPT !.emitted_count = Len(delivered')]
            /\ UNCHANGED <<is_training, pc>>
  <2>1. /\ result' \in Result /\ result'.new_count = result.new_count
        /\ result'.total_count = result.total_count
        /\ result'.emitted_count = d
        /\ ~result'.stopped_on_eos /\ ~result'.stopped_on_stop_sequence
        /\ ~result'.stopped_by_callback
    <3>1. d \in 0..limit
      BY <1>4, <1>7
    <3> QED BY <1>5, <1>8, <1>12, <3>1 DEF Result
  <2>2. CountInv' /\ FlagInv'
    BY <1>1, <1>2, <1>4, <1>6, <1>7, <1>8, <1>12, <2>1 DEF CountInv, FlagInv
  <2>3. \A n \in 0..result'.new_count - 1 : Clean(n)'
    BY <1>1, <1>7, <1>10, <2>1 DEF StreamInv
  <2>4. StreamInv'
    BY <1>11, <2>3 DEF StreamInv
  <2>5. TypeOK'
    <3>1. CacheTypeOK'
      BY <1>9 DEF IInv
    <3> QED BY <1>1, <1>2, <1>6, <1>8, <1>12, <2>1, <3>1 DEF TypeOK, Result
  <2>6. /\ Gen' = Gen /\ Matches(Gen)' = Matches(Gen)
        /\ Matching(Gen)' = Matching(Gen)
        /\ \A n : CanGrow(Gen, n)' <=> CanGrow(Gen, n)
    BY <1>2, <2>1, SameText
  <2>7. AllClean' <=> AllClean
    BY <1>7, <1>10, <2>1 DEF AllClean
  <2>8. \/ reason' = "eos" /\ ForEos'
        \/ reason' = "stop" /\ ForStop'
        \/ reason' = "decode" /\ ForDecode' /\ result'.new_count > 0
        \/ reason' = "flush" /\ ForFlush'
    <3>1. ForEos => ForEos'
      BY <1>2, <1>6, <2>1 DEF ForEos, IsEos
    <3>2. ForStop => ForStop'
      BY <1>2, <1>6, <2>1, <2>6 DEF ForStop, IsEos
    <3>3. LongestAfter(target) => LongestAfter(target)'
      BY <1>2, <2>1, <2>6 DEF LongestAfter
    <3>4. fed' = fed
      BY <1>2 DEF cacheVars
    <3>5. ForDecode => ForDecode'
      BY <1>2, <2>1, <2>7, <3>3, <3>4 DEF ForDecode
    <3>6. ForFlush => ForFlush'
      BY <1>2, <2>1, <2>7 DEF ForFlush
    <3> QED BY <1>2, <1>3, <2>1, <3>1, <3>2, <3>5, <3>6
  <2>9. LoopInv'
    BY <1>2, <1>7, <1>8, <1>12, <2>8 DEF LoopInv
  <2> QED BY <1>9, <2>2, <2>4, <2>5, <2>9 DEF DecodeInv
<1>13. CASE result' = Cancelled(Len(delivered')) /\ Return("done")
  <2>1. d \in 0..limit /\ d \in 0..target /\ d <= result.new_count
    BY <1>4, <1>7
  <2>2. /\ result' \in Result /\ result'.new_count = d
        /\ result'.total_count = prompt_count + d
        /\ result'.emitted_count = d
        /\ ~result'.stopped_on_eos /\ ~result'.stopped_on_stop_sequence
        /\ result'.stopped_by_callback
    <3>1. prompt_count + d \in Nat
      BY <1>1, <2>1 DEF Base
    <3> QED BY <1>5, <1>6, <1>8, <1>13, <2>1, <3>1 DEF Result, Cancelled
  <2>3. pc' = "done" /\ is_training' = prior_training
    BY <1>13 DEF Return
  <2>4. \A n \in 0..d : Clean(n)'
    BY <1>4, <1>7, <1>10, <2>1
  <2>5. AllClean'
    BY <2>2, <2>4 DEF AllClean
  <2>6. CountInv' /\ FlagInv'
    <3>1. prompt_count + d <= Len(sequence) /\ prompt_count > 0
      BY <1>1, <2>1, <1>7 DEF Base
    <3> QED BY <1>2, <1>6, <1>7, <1>8, <2>2, <2>3, <2>5, <3>1
            DEF CountInv, FlagInv
  <2>7. StreamInv'
    BY <1>7, <1>11, <2>2, <2>4 DEF StreamInv
  <2>8. TypeOK'
    <3>1. CacheTypeOK'
      BY <1>9 DEF IInv
    <3> QED BY <1>1, <1>2, <1>6, <1>8, <2>2, <2>3, <3>1 DEF TypeOK, Result
  <2>9. LoopInv'
    BY <2>2, <2>3 DEF LoopInv
  <2> QED BY <1>9, <2>6, <2>7, <2>8, <2>9 DEF DecodeInv
<1>14. \/ /\ result' = [result EXCEPT !.emitted_count = Len(delivered')]
          /\ UNCHANGED <<is_training, pc>>
       \/ result' = Cancelled(Len(delivered')) /\ Return("done")
  BY DEF Emit
<1> QED BY <1>12, <1>13, <1>14

(* One more token of the buffer is one more generated token.               *)
LEMMA GeneratesOne ==
  ASSUME Base, Len(sequence) = result.total_count, NEW token \in Tokens,
         sequence' = Append(SubSeq(sequence, 1, result.total_count), token),
         UNCHANGED options, result'.new_count = result.new_count + 1
  PROVE  /\ sequence' = Append(sequence, token)
         /\ Gen' = Append(Gen, token)
         /\ sequence'[prompt_count + result.new_count + 1] = token
         /\ \A n \in 0..result.new_count :
              /\ SubSeq(sequence', prompt_count + 1, prompt_count + n)
                   = Generated(sequence, n)
              /\ Clean(n)' <=> Clean(n)
<1> DEFINE c == result.new_count
<1>1. /\ sequence \in Seq(Tokens) /\ c \in Nat /\ prompt_count \in Nat \ {0}
      /\ Len(sequence) = prompt_count + c /\ prompt_count' = prompt_count
  BY DEF Base, options
<1>2. sequence' = Append(sequence, token)
  <2>1. ASSUME NEW s \in Seq(Tokens) PROVE SubSeq(s, 1, Len(s)) = s
    OBVIOUS
  <2> QED BY <1>1, <2>1
<1>3. /\ sequence' \in Seq(Tokens) /\ Len(sequence') = prompt_count + c + 1
      /\ sequence'[prompt_count + c + 1] = token
      /\ \A i \in 1..prompt_count + c : sequence'[i] = sequence[i]
  BY <1>1, <1>2
<1> HIDE DEF c
<1> DEFINE New(n) == SubSeq(sequence', prompt_count + 1, prompt_count + n)
<1>4. ASSUME NEW n \in 0..c + 1
      PROVE  /\ New(n) \in Seq(Tokens) /\ Len(New(n)) = n
             /\ \A i \in 1..n : New(n)[i] = sequence'[prompt_count + i]
  <2> DEFINE m == prompt_count + 1
             k == prompt_count + n
             s == sequence'
  <2>1. /\ m \in 1..Len(s) + 1 /\ k \in m - 1..Len(s) /\ k - m + 1 = n
        /\ m - 1 = prompt_count
    BY <1>1, <1>3
  <2> HIDE DEF m, k, s
  <2>2. s \in Seq(Tokens)
    BY <1>3 DEF s
  <2>3. /\ SubSeq(s, m, k) \in Seq(Tokens) /\ Len(SubSeq(s, m, k)) = n
        /\ \A i \in 1..n : SubSeq(s, m, k)[i] = s[prompt_count + i]
    BY <2>1, <2>2, Piece
  <2> QED BY <2>3 DEF s, m, k
<1>5. ASSUME NEW n \in 0..c
      PROVE  /\ Generated(sequence, n) \in Seq(Tokens)
             /\ Len(Generated(sequence, n)) = n
             /\ \A i \in 1..n :
                  /\ Generated(sequence, n)[i] = sequence[prompt_count + i]
                  /\ sequence'[prompt_count + i] = sequence[prompt_count + i]
  <2>1. \A i \in 1..n : prompt_count + i \in 1..prompt_count + c
    BY <1>1
  <2> QED BY <1>3, <2>1, GeneratedFacts DEF c
<1>6. ASSUME NEW n \in 0..c
      PROVE  /\ New(n) = Generated(sequence, n)
             /\ Clean(n)' <=> Clean(n)
  <2> DEFINE s == New(n)
             t == Generated(sequence, n)
  <2>1. n \in 0..c + 1 /\ n \in Nat
    BY <1>1
  <2>2. s \in Seq(Tokens) /\ Len(s) = n /\ \A i \in 1..n : s[i] = sequence'[prompt_count + i]
    BY <1>4, <2>1
  <2>3. t \in Seq(Tokens) /\ Len(t) = n /\ \A i \in 1..n : t[i] = sequence'[prompt_count + i]
    BY <1>5
  <2> HIDE DEF s, t, New
  <2>4. \A i \in 1..n : s[i] = t[i]
    BY <2>2, <2>3
  <2>5. s = t
    BY <2>2, <2>3, <2>4, SeqEqual
  <2>6. n > 0 => sequence'[prompt_count + n] = sequence[prompt_count + n]
    <3>1. n > 0 => n \in 1..n
      BY <2>1
    <3> QED BY <1>5, <3>1
  <2>7. Generated(sequence, n)' = New(n)
    BY <1>1 DEF Generated, New
  <2>8. Generated(sequence, n)' = Generated(sequence, n)
    BY <2>5, <2>7 DEF s, t
  <2>9. Clean(n)' <=> Clean(n)
    BY <2>1, <2>6, <2>8, SameClean
  <2> QED BY <2>5, <2>9 DEF s, t
<1>7. Gen' = Append(Gen, token)
  <2> DEFINE s == New(c + 1)
             g == Generated(sequence, c)
             t == Append(g, token)
  <2>1. c \in 0..c /\ c + 1 \in 0..c + 1 /\ c \in Nat
    BY <1>1
  <2>2. /\ s \in Seq(Tokens) /\ Len(s) = c + 1
        /\ \A i \in 1..c + 1 : s[i] = sequence'[prompt_count + i]
    BY <1>4, <2>1
  <2>3. /\ g \in Seq(Tokens) /\ Len(g) = c
        /\ \A i \in 1..c : g[i] = sequence'[prompt_count + i]
    BY <1>5, <2>1
  <2> HIDE DEF g, New
  <2>4. /\ t \in Seq(Tokens) /\ Len(t) = c + 1 /\ t[c + 1] = token
        /\ \A i \in 1..c : t[i] = g[i]
    BY <2>3
  <2> HIDE DEF s, t
  <2>5. ASSUME NEW i \in 1..c + 1
        PROVE  s[i] = t[i]
    <3>1. CASE i \in 1..c
      BY <3>1, <2>2, <2>3, <2>4
    <3>2. CASE i = c + 1
      <4>1. s[c + 1] = sequence'[prompt_count + (c + 1)]
        BY <2>2, <3>2
      <4>2. prompt_count + (c + 1) = prompt_count + c + 1
        BY <1>1
      <4> QED BY <3>2, <4>1, <4>2, <1>3, <2>4
    <3> QED BY <2>1, <3>1, <3>2
  <2>6. \A i \in 1..c + 1 : s[i] = t[i]
    BY <2>5
  <2>7. s = t
    BY <2>2, <2>4, <2>6, SeqEqual
  <2>8. Gen' = New(c + 1)
    BY <1>1 DEF Gen, Generated, New, c
  <2> QED BY <2>7, <2>8 DEF s, t, g, Gen, c
<1> QED BY <1>2, <1>3, <1>6, <1>7 DEF c

(* The new token ends the loop, completes a stop sequence or is held as    *)
(* far as it can still grow into one.                                      *)
LEMMA SampleDecodeInv ==
  ASSUME GenerationAssumption, DecodeInv, NEW token \in Tokens, Sample(token)
  PROVE  DecodeInv'
<1>1. Base /\ IInv /\ CountInv /\ StreamInv /\ FlagInv /\ LoopInv /\ TypeOK
  BY BaseFacts DEF DecodeInv
<1> DEFINE c == result.new_count
           d == Len(delivered)
           h == Append(Gen, token)
<1>2. /\ UNCHANGED <<cacheVars, options, delivered, is_training>>
      /\ pc = "sample" /\ token \in Sampleable
      /\ sequence' = Append(SubSeq(sequence, 1, result.total_count), token)
      /\ result' = [result EXCEPT !.new_count = @ + 1, !.total_count = @ + 1]
  BY DEF Sample
<1>3. /\ c < limit /\ Len(sequence) = result.total_count /\ AllClean
      /\ fed = SubSeq(sequence, 1, result.total_count) /\ LongestAfter(d)
      /\ ~result.stopped_on_eos /\ ~result.stopped_on_stop_sequence
      /\ ~result.stopped_by_callback
  BY <1>1, <1>2 DEF CountInv, LoopInv, FlagInv
<1>4. /\ c \in Nat /\ d \in 0..c /\ limit \in Nat /\ result \in Result
      /\ result.total_count = prompt_count + c /\ prompt_count \in Nat \ {0}
      /\ sequence \in Seq(Tokens) /\ StopsOK
  BY <1>1 DEF Base
<1>5. /\ prompt_count' = prompt_count /\ special' = special /\ stops' = stops
      /\ minimum_new_tokens' = minimum_new_tokens /\ limit' = limit
      /\ prior_training' = prior_training
  BY <1>2 DEF options
<1> HIDE DEF c, d
<1>6. /\ result' \in Result /\ result'.new_count = c + 1
      /\ result'.total_count = prompt_count + c + 1
      /\ result'.emitted_count = result.emitted_count
      /\ ~result'.stopped_on_eos /\ ~result'.stopped_on_stop_sequence
      /\ ~result'.stopped_by_callback
  <2>1. c + 1 \in 0..limit /\ prompt_count + c + 1 \in Nat
    BY <1>3, <1>4
  <2> QED BY <1>2, <1>3, <1>4, <2>1 DEF Result, c
<1>7. /\ sequence' = Append(sequence, token) /\ Gen' = h
      /\ sequence'[prompt_count + c + 1] = token
      /\ \A n \in 0..c : Clean(n)' <=> Clean(n)
      /\ SubSeq(sequence', prompt_count + 1, prompt_count + d)
           = Generated(sequence, d)
  <2>1. d \in 0..result.new_count
    BY <1>4 DEF c
  <2> QED BY <1>1, <1>2, <1>3, <1>4, <1>6, <2>1, GeneratesOne DEF c
<1>8. Gen \in Seq(Tokens) /\ Len(Gen) = c /\ Len(h) = c + 1 /\ h \in Seq(Tokens)
  BY <1>1, GenFacts DEF c
<1> HIDE DEF h
<1>9. /\ \A n : CanGrow(Gen, n)' <=> CanGrow(h, n)
      /\ Matches(Gen)' = Matches(h)
      /\ Matching(Gen)' = Matching(h)
  BY <1>2, <1>7, SameStops
<1>10. IInv'
  BY <1>1, <1>2, NextIInv
<1>11. /\ sequence' \in Seq(Tokens) /\ Len(sequence') = prompt_count + c + 1
  BY <1>3, <1>4, <1>7
<1>12. StreamInv'
  <2>1. \A n \in 0..result'.new_count - 1 : Clean(n)'
    <3>1. \A n \in 0..c : Clean(n)
      BY <1>3 DEF AllClean, c
    <3>2. result'.new_count - 1 = c
      BY <1>4, <1>6
    <3> QED BY <1>7, <3>1, <3>2
  <2>2. delivered' = Generated(sequence, Len(delivered))'
    <3>1. delivered' = delivered /\ Len(delivered') = d
      BY <1>2 DEF d
    <3>2. delivered = Generated(sequence, d)
      BY <1>1 DEF StreamInv, d
    <3>3. Generated(sequence, Len(delivered))'
            = SubSeq(sequence', prompt_count + 1, prompt_count + d)
      BY <1>5, <3>1 DEF Generated
    <3> QED BY <1>7, <3>1, <3>2, <3>3
  <2> QED BY <2>1, <2>2 DEF StreamInv
<1>13. ASSUME pc' = "emit", target' \in d..c + 1,
              \/ reason' = "eos" /\ ForEos'
              \/ reason' = "stop" /\ ForStop'
              \/ reason' = "decode" /\ ForDecode'
       PROVE  DecodeInv'
  <2>1. Len(delivered') = d /\ delivered' \in Seq(Tokens)
    BY <1>1, <1>2 DEF Base, d
  <2>2. CountInv' /\ FlagInv'
    <3>1. result.emitted_count = d
      BY <1>1 DEF Base, d
    <3> QED BY <1>4, <1>5, <1>6, <1>11, <1>13, <2>1, <3>1 DEF CountInv, FlagInv
  <2>3. TypeOK'
    <3>1. CacheTypeOK'
      BY <1>10 DEF IInv
    <3>2. target' \in 0..limit
      BY <1>3, <1>4, <1>13
    <3>3. reason' \in {"eos", "stop", "decode"} /\ is_training' = is_training
      BY <1>2, <1>13
    <3> QED BY <1>1, <1>5, <1>6, <1>11, <1>13, <2>1, <3>1, <3>2, <3>3
            DEF TypeOK, Result
  <2>4. LoopInv'
    <3>1. Len(delivered') <= target' /\ result'.new_count > 0
      BY <1>4, <1>6, <1>13, <2>1
    <3> QED BY <1>13, <3>1 DEF LoopInv
  <2> QED BY <1>10, <1>12, <2>2, <2>3, <2>4 DEF DecodeInv
<1>14. IF IsEos(token)
         THEN BeginEmit(Len(h) - 1, "eos")
         ELSE IF Matches(h) # {}
         THEN BeginEmit(Len(h) - Len(stops[Matching(h)]), "stop")
         ELSE BeginEmit(Len(h) - Pending(h, d), "decode")
  <2>1. Generated(sequence', result.new_count + 1) = h
    <3>1. Gen' = Generated(sequence', result.new_count + 1)
      BY <1>5, <1>6 DEF Gen, Generated, c
    <3> QED BY <1>7, <3>1
  <2> QED BY <2>1 DEF Sample, d
<1>15. \A m \in 0..c : CanGrow(Gen, m) => m <= c - d
  BY <1>3, <1>4 DEF LongestAfter, c
<1>16. CASE IsEos(token)
  <2>1. pc' = "emit" /\ reason' = "eos" /\ target' = c
    BY <1>4, <1>8, <1>14, <1>16 DEF BeginEmit
  <2>2. c >= minimum_new_tokens
    <3>1. special /\ token = Eos
      BY <1>16 DEF IsEos
    <3>2. EosAllowed
      BY <1>2, <3>1 DEF Sampleable
    <3> QED BY <3>2 DEF EosAllowed, c
  <2>3. ForEos'
    <3>1. IsEos(sequence[prompt_count + result.new_count])'
      <4>1. prompt_count' + result'.new_count = prompt_count + c + 1
        BY <1>4, <1>5, <1>6
      <4> QED BY <1>5, <1>7, <1>16, <4>1 DEF IsEos
    <3> QED BY <1>4, <1>5, <1>6, <2>1, <2>2, <3>1 DEF ForEos, StopsOK
  <2> QED BY <1>4, <1>13, <2>1, <2>3
<1>17. ~IsEos(token) => ~IsEos(sequence[prompt_count + result.new_count])'
  <2>1. prompt_count' + result'.new_count = prompt_count + c + 1
    BY <1>4, <1>5, <1>6
  <2> QED BY <1>5, <1>7, <2>1 DEF IsEos
<1>18. CASE ~IsEos(token) /\ Matches(h) # {}
  <2> DEFINE i == Matching(h)
             l == Len(stops[i])
  <2>1. pc' = "emit" /\ reason' = "stop" /\ target' = (c + 1) - l
    BY <1>8, <1>14, <1>18 DEF BeginEmit
  <2>2. l \in 1..c + 1 /\ CanGrow(Gen, l - 1)
    <3>1. i \in Matches(h)
      BY <1>18, MatchingMatches
    <3> HIDE DEF i
    <3> QED BY <1>4, <1>8, <3>1, MatchGrew DEF h
  <2> HIDE DEF l
  <2>3. l - 1 \in 0..c
    BY <1>4, <2>2
  <2>4. l - 1 <= c - d
    BY <1>15, <2>2, <2>3
  <2>5. target' \in d..c + 1
    BY <1>4, <2>1, <2>2, <2>4
  <2>6. ForStop'
    <3>1. target' = result'.new_count - Len(stops'[Matching(Gen)'])
      <4>1. Matching(Gen)' = i /\ stops' = stops
        BY <1>5, <1>9
      <4> HIDE DEF i
      <4>2. Len(stops'[Matching(Gen)']) = l
        BY <4>1 DEF l
      <4> QED BY <1>6, <2>1, <4>2
    <3> QED BY <1>9, <1>17, <1>18, <3>1 DEF ForStop
  <2> QED BY <1>13, <2>1, <2>5, <2>6
<1>19. CASE ~IsEos(token) /\ Matches(h) = {}
  <2> DEFINE p == Pending(h, d)
  <2>1. pc' = "emit" /\ reason' = "decode" /\ target' = (c + 1) - p
    <3>1. BeginEmit(Len(h) - p, "decode")
      BY <1>14, <1>19
    <3> HIDE DEF p
    <3> QED BY <1>8, <3>1 DEF BeginEmit
  <2>2. /\ p \in 0..c + 1 - d /\ CanGrow(h, p)
        /\ \A m \in 0..c + 1 : CanGrow(h, m) => m <= p
    BY <1>4, <1>8, <1>15, PendingIsLongest DEF h
  <2> HIDE DEF p
  <2>3. target' \in d..c + 1 /\ target' + p = c + 1 /\ p \in 0..c + 1
    BY <1>4, <2>1, <2>2
  <2>4. LongestAfter(target)'
    BY <1>6, <1>9, <2>2, <2>3 DEF LongestAfter
  <2>5. AllClean'
    <3>1. ASSUME NEW n \in Nat, n = c + 1
          PROVE  Clean(n)'
      <4>1. Generated(sequence, n)' = h
        BY <1>5, <1>6, <1>7, <3>1 DEF Gen, Generated
      <4>2. Matches(Generated(sequence, n))' = {}
        <5>1. /\ stops' = stops /\ minimum_new_tokens' = minimum_new_tokens
          BY <1>5
        <5> QED BY <4>1, <5>1, <1>19 DEF Matches, MatchAt
      <4>3. ~IsEos(sequence[prompt_count + n])'
        <5>1. prompt_count' + n = prompt_count + c + 1
          BY <1>4, <1>5, <3>1
        <5> QED BY <1>5, <1>7, <1>19, <5>1 DEF IsEos
      <4> QED BY <4>2, <4>3 DEF Clean
    <3>2. \A n \in 0..c : Clean(n)'
      BY <1>3, <1>7 DEF AllClean, c
    <3>3. \A n \in 0..c + 1 : n \in Nat /\ (n \in 0..c \/ n = c + 1)
      BY <1>4
    <3> QED BY <1>6, <3>1, <3>2, <3>3 DEF AllClean
  <2>6. fed' = SubSeq(sequence', 1, result'.total_count - 1)
    <3>1. fed' = fed /\ result'.total_count - 1 = Len(sequence)
      BY <1>2, <1>3, <1>4, <1>6 DEF cacheVars
    <3>2. ASSUME NEW s \in Seq(Tokens)
          PROVE  SubSeq(Append(s, token), 1, Len(s)) = SubSeq(s, 1, Len(s))
      OBVIOUS
    <3>3. fed = SubSeq(sequence, 1, Len(sequence))
      BY <1>3
    <3> QED BY <1>4, <1>7, <3>1, <3>2, <3>3
  <2>7. ForDecode'
    BY <2>4, <2>5, <2>6 DEF ForDecode
  <2> QED BY <1>13, <2>1, <2>3, <2>7
<1> QED BY <1>16, <1>18, <1>19

(* Every step keeps the invariant.                                         *)
LEMMA NextDecodeInv ==
  ASSUME GenerationAssumption, DecodeInv, [Next]_vars
  PROVE  DecodeInv'
<1>1. CASE UNCHANGED vars
  <2>1. /\ UNCHANGED <<cacheVars, options, sequence, result, delivered, target,
                       reason, is_training, pc>>
    BY <1>1 DEF vars
  <2>2. Base /\ IInv /\ CountInv /\ StreamInv /\ FlagInv /\ LoopInv /\ TypeOK
    BY BaseFacts DEF DecodeInv
  <2>3. IInv'
    BY <2>1, <2>2, NextIInv
  <2>4. /\ StreamInv' /\ (AllClean' <=> AllClean)
        /\ (LongestAfter(Len(delivered))' <=> LongestAfter(Len(delivered)))
        /\ (LongestAfter(target)' <=> LongestAfter(target))
        /\ (ForEos' <=> ForEos) /\ (ForStop' <=> ForStop)
        /\ (ForFlush' <=> ForFlush) /\ Matching(Gen)' = Matching(Gen)
    BY <2>1, <2>2, Quiet, SameText
  <2>5. CountInv' /\ FlagInv'
    BY <2>1, <2>2, <2>4 DEF CountInv, FlagInv, options
  <2>6. TypeOK'
    <3>1. CacheTypeOK'
      BY <2>3 DEF IInv
    <3> QED BY <2>1, <2>2, <3>1 DEF TypeOK, Result, options
  <2>7. LoopInv'
    <3>1. ForDecode' <=> ForDecode
      BY <2>1, <2>4 DEF ForDecode, cacheVars
    <3>2. Ended' <=> Ended
      BY <2>1, <2>4 DEF Ended
    <3> QED BY <2>1, <2>2, <2>4, <3>1, <3>2 DEF LoopInv, cacheVars, options
  <2> QED BY <2>3, <2>4, <2>5, <2>6, <2>7 DEF DecodeInv
<1> QED
  BY <1>1, PrimeDecodeInv, SampleDecodeInv, EmitDecodeInv, EndEmitDecodeInv,
     ForwardDecodeInv, FlushDecodeInv, FinishDecodeInv DEF Next

-----------------------------------------------------------------------------
(* The theorems.                                                           *)

(* The invariant of the decode loop, for any prompt, stop sequences, minimum *)
(* and capacity.                                                           *)
THEOREM DecodeInvariance ==
  ASSUME GenerationAssumption PROVE Spec => []DecodeInv
<1>1. Init => DecodeInv
  BY InitDecodeInv
<1>2. DecodeInv /\ [Next]_vars => DecodeInv'
  BY NextDecodeInv
<1> QED BY <1>1, <1>2, PTL DEF Spec

(* The buffer, the result and the stream keep their types.                 *)
THEOREM DecodeTypes == ASSUME GenerationAssumption PROVE Spec => []TypeOK
<1>1. DecodeInv => TypeOK
  BY DEF DecodeInv
<1> QED BY <1>1, DecodeInvariance, PTL

(* What the generated tokens' content is, by how they end.                 *)
LEMMA ContentOf ==
  ASSUME Base
  PROVE  /\ AllClean => Content = Gen
         /\ ForEos \/ ForStop => Content = SubSeq(Gen, 1, target)
<1> DEFINE c == result.new_count
<1>1. /\ Gen \in Seq(Tokens) /\ Len(Gen) = c /\ c \in Nat
      /\ \A i \in 1..c : Gen[i] = sequence[prompt_count + i]
  BY GenFacts DEF Base
<1>2. Gen # << >> <=> c > 0
  BY <1>1
<1>3. c > 0 => Gen[Len(Gen)] = sequence[prompt_count + c]
  BY <1>1
<1>4. ASSUME AllClean PROVE Content = Gen
  <2>1. Clean(c)
    BY <1>1, <1>4 DEF AllClean
  <2>2. Matches(Gen) = {}
    BY <2>1 DEF Clean, Gen
  <2>3. ~(Gen # << >> /\ IsEos(Gen[Len(Gen)]))
    BY <1>2, <1>3, <2>1 DEF Clean
  <2> QED BY <2>2, <2>3 DEF Content
<1>5. ASSUME ForEos PROVE Content = SubSeq(Gen, 1, target)
  <2>1. c > 0 /\ IsEos(sequence[prompt_count + c]) /\ target = Len(Gen) - 1
    BY <1>1, <1>5 DEF ForEos, Base, StopsOK
  <2> QED BY <1>2, <1>3, <2>1 DEF Content
<1>6. ASSUME ForStop PROVE Content = SubSeq(Gen, 1, target)
  <2>1. ~IsEos(sequence[prompt_count + c]) /\ Matches(Gen) # {}
        /\ target = Len(Gen) - Len(stops[Matching(Gen)])
    BY <1>1, <1>6 DEF ForStop
  <2> QED BY <1>2, <1>3, <2>1 DEF Content
<1> QED BY <1>4, <1>5, <1>6

(* The delivered tokens are a beginning of the content, and all of it when *)
(* the loop has ended by itself.                                           *)
LEMMA DeliveredIsContent ==
  ASSUME GenerationAssumption, DecodeInv
  PROVE  StreamIsContent
<1>1. Base /\ CountInv /\ StreamInv /\ FlagInv /\ LoopInv /\ TypeOK
  BY BaseFacts DEF DecodeInv
<1> DEFINE c == result.new_count
           d == Len(delivered)
<1>2. /\ c \in Nat /\ d \in 0..c /\ delivered = Generated(sequence, d)
      /\ Gen \in Seq(Tokens) /\ Len(Gen) = c
  BY <1>1, GenFacts DEF StreamInv, Base
<1>3. ASSUME NEW k \in 0..c, Content = SubSeq(Gen, 1, k), d <= k
      PROVE  /\ Len(Content) = k
             /\ d <= Len(Content) /\ delivered = SubSeq(Content, 1, d)
             /\ d = k => delivered = Content
  <2>1. d \in 0..k /\ k \in Nat
    BY <1>2, <1>3
  <2> HIDE DEF c, d
  <2>2. Len(Content) = k
    BY <1>2, <1>3, <2>1
  <2>3. delivered = SubSeq(Content, 1, d)
    BY <1>1, <1>2, <1>3, <2>1, GeneratedPiece DEF c
  <2>4. ASSUME d = k PROVE delivered = Content
    <3>1. SubSeq(SubSeq(Gen, 1, k), 1, k) = SubSeq(Gen, 1, k)
      BY <1>2, <2>1
    <3> QED BY <1>3, <2>3, <2>4, <3>1
  <2> QED BY <2>1, <2>2, <2>3, <2>4
<1>4. ASSUME AllClean
      PROVE  /\ d <= Len(Content) /\ delivered = SubSeq(Content, 1, d)
             /\ d = c => delivered = Content
  <2>1. Content = Gen
    BY <1>1, <1>4, ContentOf
  <2>2. Gen = SubSeq(Gen, 1, c) /\ c \in 0..c /\ d <= c
    BY <1>2
  <2> HIDE DEF c, d
  <2> QED BY <1>3, <2>1, <2>2
<1>5. ASSUME ForEos \/ ForStop, d <= target
      PROVE  /\ d <= Len(Content) /\ delivered = SubSeq(Content, 1, d)
             /\ d = target => delivered = Content
  <2>1. target \in 0..c /\ Content = SubSeq(Gen, 1, target)
    BY <1>1, <1>5, ContentOf, TargetBound
  <2> HIDE DEF c, d
  <2> QED BY <1>3, <1>5, <2>1
<1> HIDE DEF c, d
<1>6. \/ AllClean
      \/ (ForEos \/ ForStop) /\ d <= target
  <2>1. CASE pc \in {"prime", "sample", "forward", "flush", "error"}
    BY <1>1, <2>1 DEF LoopInv
  <2>2. CASE pc = "emit"
    BY <1>1, <2>2 DEF LoopInv, ForDecode, ForFlush, d
  <2>3. CASE pc \in {"exit", "done"}
    <3>1. CASE result.stopped_by_callback
      BY <1>1, <3>1 DEF FlagInv
    <3>2. CASE ~result.stopped_by_callback
      <4>1. Ended /\ d \in Nat
        BY <1>1, <1>2, <2>3, <3>2 DEF LoopInv, d
      <4> QED BY <4>1 DEF Ended, ForFlush, d
    <3> QED BY <3>1, <3>2
  <2> QED BY <1>1, <2>1, <2>2, <2>3 DEF TypeOK
<1>7. ASSUME pc = "done", ~result.stopped_by_callback
      PROVE  delivered = Content
  <2>1. Ended
    BY <1>1, <1>7 DEF LoopInv
  <2>2. CASE ForEos \/ ForStop
    BY <1>2, <1>5, <2>1, <2>2 DEF Ended, d
  <2>3. CASE ForFlush
    BY <1>4, <2>1, <2>3 DEF Ended, ForFlush, c, d
  <2> QED BY <2>1, <2>2, <2>3 DEF Ended
<1>8. d <= Len(Content) /\ delivered = SubSeq(Content, 1, d)
  BY <1>4, <1>5, <1>6
<1> QED BY <1>7, <1>8 DEF StreamIsContent, d

(* generation.md: the matching marker is withheld and EOS is not sent. For *)
(* any stop sequences, however they overlap, and any callback, what has    *)
(* been delivered never contains a token of the terminator, and is all the *)
(* rest once decoding ends by itself.                                      *)
THEOREM DeliversContent ==
  ASSUME GenerationAssumption PROVE Spec => []StreamIsContent
<1>1. DecodeInv => StreamIsContent
  BY DeliveredIsContent
<1> QED BY <1>1, DecodeInvariance, PTL

(* generation.md: "It holds only a possible stop-sequence prefix": the     *)
(* longest one, although pending_stop_prefix looks only at undelivered     *)
(* tokens.                                                                 *)
THEOREM HoldsStopPrefix ==
  ASSUME GenerationAssumption PROVE Spec => []HoldsOnlyStopPrefix
<1>1. ASSUME DecodeInv PROVE HoldsOnlyStopPrefix
  <2>1. Base /\ Len(Gen) = result.new_count
    BY <1>1, BaseFacts, GenFacts
  <2>2. pc = "sample" => LongestAfter(Len(delivered))
    BY <1>1 DEF DecodeInv, LoopInv
  <2>3. ASSUME NEW h \in 0..result.new_count, Len(delivered) + h = result.new_count
        PROVE  h = Len(Gen) - Len(delivered)
    BY <2>1, <2>3 DEF Base
  <2> QED BY <2>1, <2>2, <2>3 DEF HoldsOnlyStopPrefix, LongestAfter
<1> QED BY <1>1, DecodeInvariance, PTL

(* generation_result_t: its counts describe the buffer and the stream, and *)
(* its flags the one reason to stop, by whatever way the loop ends.        *)
THEOREM ResultDescribes ==
  ASSUME GenerationAssumption PROVE Spec => []ResultIsConsistent
<1>1. ASSUME DecodeInv PROVE ResultIsConsistent
  <2>1. Base /\ CountInv /\ FlagInv /\ LoopInv /\ TypeOK
    BY <1>1, BaseFacts DEF DecodeInv
  <2>2. ASSUME result.stopped_on_eos \/ result.stopped_on_stop_sequence
        PROVE  Ended
    <3>1. pc \in {"exit", "done"} /\ ~result.stopped_by_callback
      BY <2>1, <2>2 DEF FlagInv
    <3> QED BY <2>1, <3>1 DEF LoopInv
  <2>3. ~(result.stopped_on_eos /\ result.stopped_on_stop_sequence)
    BY <2>2 DEF Ended
  <2>4. ASSUME result.stopped_on_eos
        PROVE  /\ Len(delivered) = result.new_count - 1
               /\ Len(delivered) >= minimum_new_tokens
    <3>1. ForEos /\ Len(delivered) = target
      BY <2>2, <2>4 DEF Ended
    <3> QED BY <2>1, <3>1 DEF ForEos, Base, StopsOK
  <2>5. ASSUME result.stopped_on_stop_sequence
        PROVE  /\ Len(delivered) + Len(stops[result.stop_sequence_index])
                    = result.new_count
               /\ Len(delivered) >= minimum_new_tokens
    <3>1. /\ ForStop /\ Len(delivered) = target
          /\ result.stop_sequence_index = Matching(Gen)
      BY <2>2, <2>5 DEF Ended
    <3>2. Matching(Gen) \in Matches(Gen)
      BY <3>1, MatchingMatches DEF ForStop
    <3>3. Len(stops[Matching(Gen)]) \in Nat
      BY <2>1, <3>2, StopTokens DEF Matches, Base
    <3>4. Len(Gen) - Len(stops[Matching(Gen)]) >= minimum_new_tokens
      BY <3>2 DEF Matches, MatchAt
    <3>5. Len(Gen) = result.new_count
      BY <2>1, GenFacts
    <3>6. target = result.new_count - Len(stops[Matching(Gen)])
      BY <3>1 DEF ForStop
    <3> QED BY <2>1, <3>1, <3>3, <3>4, <3>5, <3>6 DEF Base
  <2> QED BY <2>1, <2>3, <2>4, <2>5 DEF ResultIsConsistent, CountInv, FlagInv
<1> QED BY <1>1, DecodeInvariance, PTL

(* Every token is sampled from logits of the whole sequence so far, at     *)
(* absolute positions, however often the ring has wrapped.                 *)
THEOREM SamplesSeeSequence ==
  ASSUME GenerationAssumption PROVE Spec => []SampleSeesWholeSequence
<1>1. DecodeInv => SampleSeesWholeSequence
  BY DEF DecodeInv, LoopInv, IInv, SampleSeesWholeSequence
<1> QED BY <1>1, DecodeInvariance, PTL
=============================================================================
