------------------------------- MODULE HashMap -------------------------------
(***************************************************************************)
(* The hash map of libs/src/hashmap.c with length-delimited keys: a fixed  *)
(* number of buckets, each a chain of entries in the order they were       *)
(* inserted. A key is a sequence of bytes.                                 *)
(***************************************************************************)
EXTENDS SequencesExt, Integers

CONSTANTS
  BucketCount,  (* bucket_count                                             *)
  Word          (* One more than the largest unsigned long.                 *)

ASSUME HashMapAssumption ==
  /\ BucketCount \in Nat \ {0}
  /\ Word \in Nat \ {0}

(* hash_bytes                                                              *)
HashBytes(key) ==
  LET hash[n \in 0..Len(key)] ==
        IF n = 0 THEN 5381 % Word ELSE (hash[n - 1] * 33 + key[n]) % Word
  IN  hash[Len(key)]

Bucket(key) == 1 + (HashBytes(key) % BucketCount)

(* hashmap_new                                                             *)
EmptyMap == [b \in 1..BucketCount |-> << >>]

(* The entry a walk along a chain stops at.                                *)
FirstWith(chain, key) ==
  {i \in 1..Len(chain) : /\ chain[i].key = key
                         /\ \A j \in 1..(i - 1) : chain[j].key # key}

(* The chain in which the value of a key that is there is replaced, and    *)
(* any other entry comes last.                                             *)
WithEntry(chain, key, value) ==
  LET found == FirstWith(chain, key)
  IN  IF found = {} THEN Append(chain, [key |-> key, value |-> value])
      ELSE [i \in 1..Len(chain) |->
              IF i \in found THEN [chain[i] EXCEPT !.value = value]
              ELSE chain[i]]

(* hashmap_insert_bytes                                                    *)
Insert(map, key, value) ==
  [map EXCEPT ![Bucket(key)] = WithEntry(@, key, value)]

(* hashmap_get_bytes: the value, or none.                                  *)
Get(map, key) ==
  LET chain == map[Bucket(key)]
  IN  {chain[i].value : i \in FirstWith(chain, key)}
=============================================================================
