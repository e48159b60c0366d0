---------------------------- MODULE BundleStore ----------------------------
(***************************************************************************)
(* One bundle path shared by processes that build or load models, train    *)
(* them, and save them as float or quantized bundles. A save writes a      *)
(* temporary file of its own section by section, syncs it and renames it   *)
(* over the path; a mapping loader keeps using the file it mapped. Writes  *)
(* may fail, processes may be killed, the machine may lose power, and the  *)
(* file may be damaged or edited between two uses.                         *)
(***************************************************************************)
EXTENDS BundleFormat, FiniteSets

CONSTANTS Procs,       (* processes                                         *)
          Models,      (* the models training starts from                   *)
          Policies,    (* quantization policies a caller asks for           *)
          OldModels,   (* the models of bundles saved earlier,              *)
          OldPolicies, (* the policies of those that are quantized          *)
          LegacyModels,(* and the models of files older than bundles        *)
          Sidecar,     (* the tokenizer beside a legacy model file          *)
          Edits(_),    (* the damaged or edited forms of a file             *)
          MaxFiles,    (* files ever created                                *)
          MaxTraining  (* updates and quantizations of one model's weights  *)

ASSUME BundleStoreAssumption ==
  /\ MaxFiles \in Nat /\ MaxTraining \in Nat
  /\ \A m \in Models \cup OldModels \cup LegacyModels : IsModel(m) /\ m # NONE
  /\ \A m \in OldModels \cup LegacyModels : ModelAccepts(m.shape)
  /\ \A m \in OldModels : SaveError(m) = "SUCCESS"
  /\ \A m \in LegacyModels : m.shape.flags = {}
  /\ \A policy \in OldPolicies : PolicyValid(policy)
  /\ IsTokenizer(Sidecar)
  /\ NONE \notin {"damaged", "edited", "checks", "shape", "model", "encoder"}

VARIABLES
  inodes,   (* every file ever created, by number                           *)
  path,     (* the file the bundle path names, 0 when there is none         *)
  recent,   (* what path may name after a power loss                        *)
  temp,     (* the temporary file each process is writing, 0 when none      *)
  live,     (* the model of each process                                    *)
  mapped    (* mappings each process holds                                  *)

vars == <<inodes, path, recent, temp, live, mapped>>

(* A live model: whether its parameters are a read-only mapping, and of    *)
(* which file.                                                             *)
Owned(model) == [model |-> model, read_only |-> FALSE, file |-> 0]
Mapped(model, i) == [model |-> model, read_only |-> TRUE, file |-> i]

(* The sections of a file in the order they are written; a quantized       *)
(* bundle's real header replaces an empty one at the end.                  *)
Sections(f) == IF IsQuantized(f.fields) THEN 5 ELSE 4

HeaderWritten(inode) ==
  inode.written >= (IF IsQuantized(inode.file.fields) THEN 5 ELSE 1)

(* What a reader finds in a file, however much of it was written.          *)
Visible(inode) ==
  LET f == inode.file
      section(i, bytes) == IF inode.written >= i THEN bytes ELSE 0
  IN  IF inode.written >= Sections(f) THEN f
      ELSE [f EXCEPT !.size = section(1, f.fields.header_size)
                                + section(2, f.weights.bytes)
                                + section(3, f.tokenizer.bytes)
                                + section(4, FooterSize),
                     !.fields.magic = f.fields.magic /\ HeaderWritten(inode),
                     !.footer = inode.written >= 4]

Inode(file, source) ==
  [file |-> file, source |-> source, written |-> 0, synced |-> FALSE, edit |-> NONE]

(* A file that is there from the start.                                    *)
Settled(file, source) ==
  [Inode(file, source) EXCEPT !.written = Sections(file), !.synced = TRUE]

Source(model, values) == [model EXCEPT !.values = values]

(* The model a quantized bundle of the given one loads as.                 *)
QuantizedSource(model, policy) == Source(model, Append(model.values, policy))

Init ==
  /\ \/ inodes = << >>
     \/ \E model \in OldModels : inodes = <<Settled(FloatFile(model), model)>>
     \/ \E model \in OldModels, policy \in OldPolicies :
          inodes = <<Settled(QuantizedFile(model, policy), QuantizedSource(model, policy))>>
     \/ \E model \in LegacyModels : inodes = <<Settled(LegacyFile(model), model)>>
  /\ path = Len(inodes)
  /\ recent = {path}
  /\ temp = [p \in Procs |-> 0]
  /\ live = [p \in Procs |-> NONE]
  /\ mapped = [p \in Procs |-> 0]

Idle(p) == temp[p] = 0

Hold(p, handle) == live' = [live EXCEPT ![p] = handle]

-----------------------------------------------------------------------------
(* Models.                                                                 *)

(* model_new and a tokenizer.                                              *)
NewModel(p) ==
  /\ Idle(p) /\ live[p] = NONE
  /\ \E model \in Models : ModelAccepts(model.shape) /\ Hold(p, Owned(model))
  /\ UNCHANGED <<inodes, path, recent, temp, mapped>>

(* Mutant: the update does not ask whether the parameters are its own.     *)
Writable_Any(handle) == TRUE

Writable(handle) == ~handle.read_only

(* Weights change in place: an optimizer step, or model_quantize_weights   *)
(* with any policy. On a mapping the write would reach the mapped pages.   *)
ChangeWeights(p, tag) ==
  /\ Idle(p) /\ live[p] # NONE
  /\ Writable(live[p])
  /\ Len(live[p].model.values) < MaxTraining
  /\ live' = [live EXCEPT ![p].model.values = Append(@, tag)]
  /\ UNCHANGED <<inodes, path, recent, temp, mapped>>

Train(p) == ChangeWeights(p, [op |-> "step"])
QuantizeWeights(p) == \E policy \in Policies : ChangeWeights(p, policy)

(* model_free                                                              *)
FreeModel(p) ==
  /\ Idle(p) /\ live[p] # NONE
  /\ Hold(p, NONE)
  /\ mapped' = [mapped EXCEPT ![p] = @ - (IF live[p].read_only THEN 1 ELSE 0)]
  /\ UNCHANGED <<inodes, path, recent, temp>>

-----------------------------------------------------------------------------
(* Saving.                                                                 *)

(* fopen of <path>.tmp.<pid>                                               *)
Opened(p, inode) ==
  /\ inodes' = Append(inodes, inode)
  /\ temp' = [temp EXCEPT ![p] = Len(inodes) + 1]

BeginSave(p, file, source) ==
  /\ SaveError(live[p].model) = "SUCCESS"
  /\ Opened(p, Inode(file, source))
  /\ UNCHANGED <<path, recent, live, mapped>>

Save(p) ==
  /\ Idle(p) /\ live[p] # NONE /\ Len(inodes) < MaxFiles
  /\ BeginSave(p, FloatFile(live[p].model), live[p].model)

SaveQuantized(p, policy) ==
  /\ Idle(p) /\ live[p] # NONE /\ Len(inodes) < MaxFiles
  /\ PolicyValid(policy)
  /\ BeginSave(p, QuantizedFile(live[p].model, policy),
               QuantizedSource(live[p].model, policy))

Current(p) == inodes[temp[p]]

WriteSection(p) ==
  /\ ~Idle(p)
  /\ Current(p).written < Sections(Current(p).file)
  /\ inodes' = [inodes EXCEPT ![temp[p]].written = @ + 1]
  /\ UNCHANGED <<path, recent, temp, live, mapped>>

(* Mutant: the rename does not wait for the data.                          *)
SyncDue_Never(p) == FALSE

(* fflush, fsync and fclose come before the rename.                        *)
SyncDue(p) == ~Current(p).synced

Sync(p) ==
  /\ ~Idle(p)
  /\ Current(p).written = Sections(Current(p).file)
  /\ SyncDue(p)
  /\ inodes' = [inodes EXCEPT ![temp[p]].synced = TRUE]
  /\ UNCHANGED <<path, recent, temp, live, mapped>>

Rename(p) ==
  /\ ~Idle(p)
  /\ Current(p).written = Sections(Current(p).file)
  /\ ~SyncDue(p)
  /\ path' = temp[p]
  /\ recent' = recent \cup {temp[p]}
  /\ temp' = [temp EXCEPT ![p] = 0]
  /\ UNCHANGED <<inodes, live, mapped>>

(* A write, the sync, the close or the rename fails, or packing a tensor   *)
(* runs out of memory: the temporary is removed and an error returned.     *)
SaveFails(p) ==
  /\ ~Idle(p)
  /\ temp' = [temp EXCEPT ![p] = 0]
  /\ UNCHANGED <<inodes, path, recent, live, mapped>>

-----------------------------------------------------------------------------
(* Loading. A loader opens the path once; the file it opened never changes *)
(* afterwards, so the whole call is one step.                              *)

Reading == Visible(inodes[path])

(* A load that is refused, or that runs out of memory, changes nothing.    *)
LoadCopy(p) ==
  /\ Idle(p) /\ live[p] = NONE
  /\ path # 0 /\ CopyError(Reading, TRUE) = "SUCCESS"
  /\ Hold(p, Owned(LoadedModel(Reading)))
  /\ UNCHANGED <<inodes, path, recent, temp, mapped>>

(* Whether model_free owns the mapping when a stage fails.                 *)
HandedOver(stage) == stage = "encoder"

(* Unmapped by the loader itself, and by the model_free it calls.          *)
Unmapped(stage) ==
  (IF stage # "encoder" THEN 1 ELSE 0) + (IF HandedOver(stage) THEN 1 ELSE 0)

(* A failing stage: the checks, the shape, memory for the model's buffers  *)
(* or for the tokenizer.                                                   *)
LoadMapped(p, memory) ==
  LET stage == IF MapError(Reading) # "SUCCESS" THEN "checks"
               ELSE IF ~ModelAccepts(ClaimedShape(Reading.fields)) THEN "shape"
               ELSE memory
      held == 1 - (IF stage = NONE THEN 0 ELSE Unmapped(stage))
  IN  /\ Idle(p) /\ live[p] = NONE
      /\ path # 0 /\ Reading.size >= 8
      /\ Hold(p, IF stage = NONE THEN Mapped(LoadedModel(Reading), path) ELSE NONE)
      /\ mapped' = [mapped EXCEPT ![p] = @ + held]
      /\ UNCHANGED <<inodes, path, recent, temp>>

(* model_load: the legacy layout has no checks beyond its own totals. A    *)
(* file that is not one reads as absurd dimensions.                        *)
LegacyModel(f) == f.legacy

(* load_model_artifact: what is not a bundle is read as a legacy model with*)
(* its tokenizer beside it; a bundle's own tokenizer cannot be overridden. *)
LoadArtifact(p, explicit_tokenizer) ==
  LET error == CopyError(Reading, TRUE)
      legacy == LegacyModel(Reading)
  IN  /\ Idle(p) /\ live[p] = NONE
      /\ path # 0
      /\ \/ /\ error = "SUCCESS" /\ ~explicit_tokenizer
            /\ Hold(p, Owned(LoadedModel(Reading)))
         \/ /\ error = "NOT_BUNDLE" /\ legacy # NONE
            /\ Sidecar.vocab = legacy.shape.vocab
            /\ Hold(p, Owned([legacy EXCEPT !.tokenizer = Sidecar]))
      /\ UNCHANGED <<inodes, path, recent, temp, mapped>>

-----------------------------------------------------------------------------
(* The environment.                                                        *)

Kill(p) ==
  /\ live[p] # NONE \/ ~Idle(p)
  /\ temp' = [temp EXCEPT ![p] = 0]
  /\ mapped' = [mapped EXCEPT ![p] = 0]
  /\ Hold(p, NONE)
  /\ UNCHANGED <<inodes, path, recent>>

(* Unsynced data may be lost from any section on, and a rename may be      *)
(* undone: the directory is not synced.                                    *)
PowerLoss ==
  /\ \E kept \in [DOMAIN inodes -> 0..5] :
       /\ \A i \in DOMAIN inodes :
            /\ kept[i] <= inodes[i].written
            /\ inodes[i].synced => kept[i] = inodes[i].written
            /\ i \notin recent => kept[i] = inodes[i].written
       /\ inodes' = [i \in DOMAIN inodes |-> [inodes[i] EXCEPT !.written = kept[i]]]
  /\ path' \in recent
  /\ recent' = {path'}
  /\ temp' = [p \in Procs |-> 0]
  /\ live' = [p \in Procs |-> NONE]
  /\ mapped' = [p \in Procs |-> 0]

(* One part of a file is not what was written: a changed field, payload,   *)
(* checksum, footer or length.                                             *)
Damaged(f, g) ==
  \E part \in {"fields", "sum", "weights", "tokenizer", "footer", "size"} :
    /\ g[part] # f[part]
    /\ \A other \in {"fields", "sum", "weights", "tokenizer", "footer", "size"} \ {part} :
         g[other] = f[other]

(* The bundle at the path is replaced by a damaged copy, or by one edited  *)
(* by a tool that renews the header checksum.                              *)
Edit ==
  /\ path # 0 /\ Len(inodes) < MaxFiles
  /\ inodes[path].edit = NONE /\ inodes[path].file.legacy = NONE
  /\ \E file \in Edits(inodes[path].file) :
       /\ IsFile(file)
       /\ inodes' = Append(inodes,
                      [inodes[path] EXCEPT
                         !.file = file, !.written = Sections(file),
                         !.edit = IF Damaged(inodes[path].file, file)
                                  THEN "damaged" ELSE "edited"])
  /\ path' = Len(inodes')
  /\ recent' = {path'}
  /\ UNCHANGED <<temp, live, mapped>>

Next ==
  \/ \E p \in Procs :
       \/ NewModel(p) \/ Train(p) \/ QuantizeWeights(p) \/ FreeModel(p)
       \/ Save(p) \/ WriteSection(p) \/ Sync(p) \/ Rename(p) \/ SaveFails(p)
       \/ \E policy \in Policies : SaveQuantized(p, policy)
       \/ LoadCopy(p)
       \/ \E memory \in {NONE, "model", "encoder"} : LoadMapped(p, memory)
       \/ \E explicit_tokenizer \in BOOLEAN : LoadArtifact(p, explicit_tokenizer)
       \/ Kill(p)
  \/ PowerLoss
  \/ Edit

Spec == Init /\ [][Next]_vars

-----------------------------------------------------------------------------
(* Properties.                                                             *)

TypeOK ==
  /\ path \in 0..Len(inodes) /\ Len(inodes) <= MaxFiles
  /\ recent \subseteq 0..Len(inodes)
  /\ temp \in [Procs -> 0..Len(inodes)]
  /\ mapped \in [Procs -> Nat]
  /\ \A p \in Procs : live[p] = NONE \/ live[p].file \in 0..Len(inodes)

(* Whatever was killed, failed or lost power during a save, the path names *)
(* nothing or a whole bundle that loads as the model it was saved from.    *)
PathIsWhole ==
  (path # 0 /\ inodes[path].edit = NONE /\ inodes[path].file.legacy = NONE) =>
    /\ CopyError(Reading, TRUE) = "SUCCESS"
    /\ LoadedModel(Reading) = inodes[path].source

(* A damaged bundle is refused by both loaders, never loaded as another    *)
(* model: a changed field, payload, footer or length.                      *)
DamageIsRefused ==
  (path # 0 /\ inodes[path].edit = "damaged") =>
    /\ CopyError(Reading, TRUE) # "SUCCESS"
    /\ ~MapSucceeds(Reading)

(* On every file, damaged and edited ones included.                        *)
LoadersAgree == path # 0 => LoadersAgreeOn(Reading) /\ ClaimsFitPayload(Reading)

(* A mapped model's weights are the bytes of a file nobody writes to: they *)
(* stay what they were when it was loaded, though the path is replaced     *)
(* under it; and the mapping is released exactly once.                     *)
MappedModelIsStable ==
  \A p \in Procs :
    /\ mapped[p] = IF live[p] # NONE /\ live[p].read_only THEN 1 ELSE 0
    /\ (live[p] # NONE /\ live[p].read_only) =>
         Visible(inodes[live[p].file]).weights.values = live[p].model.values
=============================================================================
