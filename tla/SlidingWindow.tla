---------------------------- MODULE SlidingWindow ----------------------------
(***************************************************************************)
(* What incremental decoding promises about its context: the next token is *)
(* computed from the newest tokens that fit the window, oldest first, each *)
(* at the absolute position it has had since the sequence began.           *)
(***************************************************************************)
EXTENDS Integers, Sequences

CONSTANTS
  Tokens,      (* Token ids.                              *)
  Capacities,  (* Sizes a window may have.                *)
  SizeMax      (* Tokens one sequence can ever consume.   *)

VARIABLES capacity, window, position

Newest(s, n) == IF Len(s) <= n THEN s ELSE SubSeq(s, Len(s) - n + 1, Len(s))

Init == capacity \in Capacities /\ window = << >> /\ position = 0

Consume(token) ==
  /\ position < SizeMax
  /\ window' = Newest(Append(window, [token |-> token, position |-> position]),
                      capacity)
  /\ position' = position + 1
  /\ UNCHANGED capacity

Clear == window' = << >> /\ position' = 0 /\ UNCHANGED capacity

Next == Clear \/ \E token \in Tokens : Consume(token)

Spec == Init /\ [][Next]_<<capacity, window, position>>
=============================================================================
