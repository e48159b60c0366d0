------------------------------ MODULE Ownership ------------------------------
(***************************************************************************)
(* What public-api.md promises about lifetimes: a model or tokenizer comes *)
(* into being held, lives exactly as long as some handle holds it, and     *)
(* once gone never comes back.                                             *)
(***************************************************************************)
CONSTANTS
  Handles,   (* What an application can be given and must give back.       *)
  Objects    (* Models and tokenizers.                                     *)

VARIABLES
  holds,     (* The objects each handle keeps alive.                       *)
  state      (* Per object: absent, live or gone.                          *)

Init ==
  /\ holds = [h \in Handles |-> {}]
  /\ state = [o \in Objects |-> "absent"]

IsHeld(o) == \E h \in Handles : o \in holds[h]

Next ==
  /\ holds' \in [Handles -> SUBSET Objects]
  /\ state' = [o \in Objects |->
                 IF \E h \in Handles : o \in holds'[h] THEN "live"
                 ELSE IF state[o] = "absent" THEN "absent" ELSE "gone"]
  /\ \A o \in Objects : state[o] = "gone" => state'[o] = "gone"

Spec == Init /\ [][Next]_<<holds, state>>
=============================================================================
