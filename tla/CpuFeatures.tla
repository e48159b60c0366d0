---------------------------- MODULE CpuFeatures ----------------------------
(***************************************************************************)
(* Runtime detection of the instruction sets a kernel may use. Every query *)
(* detects on demand, without synchronisation: threads whose first queries *)
(* coincide all run the detection, over the same process-wide variables.   *)
(***************************************************************************)
EXTENDS Integers, FiniteSets

CONSTANTS Threads,   (* threads of the process, from 0                      *)
          Cpus,      (* processors, as the sets of what they report         *)
          Caps,      (* what DRANZER_CPU_ISA may ask for, NONE when unset   *)
          NONE

VARIABLES cpu,        (* the processor                                      *)
          env,        (* the requested cap                                  *)
          detected,   (* whether some detection has ended                   *)
          supported,  (* isa_supported, as a set                            *)
          max_isa,    (* the cap, 4 while none was applied                  *)
          pc          (* where each thread is in detect_once                *)

detection == <<cpu, env, detected, supported, max_isa, pc>>

Isas == {"baseline", "avx2", "avx512", "neon"}
Ordinal == [baseline |-> 0, avx2 |-> 1, avx512 |-> 2, neon |-> 3]
Uncapped == 3
NotRequested == 4

(* The environment's cap parses to nothing when its name is unknown.       *)
DetectionInit ==
  /\ cpu \in Cpus
  /\ env \in Caps
  /\ detected = FALSE
  /\ supported = {}
  /\ max_isa = NotRequested
  /\ pc = [t \in Threads |-> "ready"]

Goto(t, step) == pc' = [pc EXCEPT ![t] = step]

(* What detect_x86 requires; the operating system must save the registers. *)
Avx2Usable == {"osxsave", "leaf7", "avx", "avx2", "fma", "ymm"} \subseteq cpu
Avx512Usable == {"avx512f", "avx512vl", "zmm"} \subseteq cpu

(* A query that finds no detection done runs one.                          *)
Query(t) ==
  /\ pc[t] = "ready" /\ ~detected
  /\ Goto(t, "clear")
  /\ UNCHANGED <<cpu, env, detected, supported, max_isa>>

Clear(t) ==
  /\ pc[t] = "clear"
  /\ supported' = {"baseline"}
  /\ Goto(t, "avx2")
  /\ UNCHANGED <<cpu, env, detected, max_isa>>

With(isa, usable) == supported' = IF usable THEN supported \cup {isa} ELSE supported \ {isa}

ProbeAvx2(t) ==
  /\ pc[t] = "avx2"
  /\ IF "arm" \in cpu THEN With("neon", TRUE) ELSE With("avx2", Avx2Usable)
  /\ Goto(t, "avx512")
  /\ UNCHANGED <<cpu, env, detected, max_isa>>

(* The AVX-512 answer reads the AVX2 one back from the shared table.       *)
ProbeAvx512(t) ==
  /\ pc[t] = "avx512"
  /\ With("avx512", "avx2" \in supported /\ Avx512Usable)
  /\ Goto(t, "cap")
  /\ UNCHANGED <<cpu, env, detected, max_isa>>

Cap(t) ==
  /\ pc[t] = "cap"
  /\ IF max_isa = NotRequested
     THEN max_isa' = Uncapped /\ Goto(t, "env")
     ELSE Goto(t, "publish") /\ UNCHANGED max_isa
  /\ UNCHANGED <<cpu, env, detected, supported>>

ApplyEnvironmentCap(t) ==
  /\ pc[t] = "env"
  /\ max_isa' = IF env = NONE THEN max_isa ELSE Ordinal[env]
  /\ Goto(t, "publish")
  /\ UNCHANGED <<cpu, env, detected, supported>>

Publish(t) ==
  /\ pc[t] = "publish"
  /\ detected' = TRUE
  /\ Goto(t, "ready")
  /\ UNCHANGED <<cpu, env, supported, max_isa>>

Detect(t) ==
  \/ Query(t) \/ Clear(t) \/ ProbeAvx2(t) \/ ProbeAvx512(t)
  \/ Cap(t) \/ ApplyEnvironmentCap(t) \/ Publish(t)

(* cpu_isa_available, once this thread's detect_once has returned.         *)
Available(isa) ==
  isa = "baseline" \/ (Ordinal[isa] <= max_isa /\ isa \in supported)

(* What the instructions of a kernel need of the processor.                *)
Needs ==
  [baseline |-> {},
   avx2 |-> {"osxsave", "avx", "avx2", "fma", "ymm"},
   avx512 |-> {"osxsave", "avx512f", "avx512vl", "zmm"},
   neon |-> {"arm"}]
=============================================================================
