# DRANZER in TLA+

A formal model of DRANZER, a language-model trainer and inference runtime written in C. The
modules describe what the code does, TLC checks them on small instances, and TLAPS proves the
central theorems for every value of the constants. Paths below are relative to the repository
(`src/cli/main.c`, `docs/usage.md`).

## 1. The system

DRANZER trains a small transformer on one text corpus, saves resumable checkpoints and a final
bundle, and generates text from a bundle. It is one process with one control thread. CPU kernels
may fork and join inside one call, and a CUDA device is used synchronously. What makes it hard is
not threads, it is **state that must survive the process** (checkpoints, replay), **streams cut
at arbitrary places** (file chunks, training windows), **windows that slide** (the key/value
ring) and **output that must be withheld** until it is known not to be a stop sequence.

| Part | Source | State it keeps | Operations | What is hard | What makes it correct |
|---|---|---|---|---|---|
| Training driver | `cli/main.c` | epoch, accumulator (minibatch, pending counts, prediction cursor, resume skip, replay slots, minibatch index), model, run state | fresh start, resume, epoch loop, replay, commit, final checkpoint, bundle | death at any point, replay by counting, short last groups | a resumed run receives exactly the updates of an uninterrupted one |
| Checkpoints | `cli/checkpoint.c` | files in a directory | save (temporary file, sync, rename, prune), find latest, load | death between two file operations, stale temporary files, foreign files | the latest file is always whole; the newest step is never lost |
| Token stream, windows | `cli/stream.c`, `cli/batch.c`, `cli/main.c` | token buffer, offsets, read position | read chunk, flush, cut windows, retain the tail | chunk boundaries anywhere, end of stream | windows do not depend on chunking; no token skipped or repeated |
| Key/value cache | `core/transformer.c` | ring of rows per layer, `start`, `length`, `total_tokens` | init, forward one token, reset | wrap, eviction, stale rows, absolute positions | attention sees exactly the newest tokens that fit |
| Decode loop | `cli/generation.c` | sequence, counts, delivered count, cache, training mode | prime, sample, match stops, hold back, deliver, cancel | overlapping stops, minimum length, cancellation in the middle of a delivery | the reader sees all content and no part of a terminator |
| Sampling | `cli/sampling.c`, `core/rng.c` | RNG stream | greedy, top-k, top-p | floating-point edges | masked tokens are never chosen |
| Public API | `api/dranzer.c` | handles with reference counts, cache and generation sessions | load, create, reset, next, free | lifetimes, failed resets, retries after BUFFER_TOO_SMALL | no handle outlives what it uses; a retry repeats nothing |
| Training numerics | `core/training.c`, `optimizer.c`, `lm_head.c`, `weight_decay.c` | parameters, gradients, Adam moments, metrics | accumulate, apply, schedule | floating point | gradients zeroed once per update, applied once |
| Model and parameters | `core/model.c`, `model_params.c`, `serialization.c`, `model_quantize.c` | parameter layout, ownership, read-only mapping | create, load, free, quantize | partial allocation, mapped parameters | layout covers the buffer exactly |
| Bundle | `core/bundle.c`, `fingerprint.c` | file sections, checksums | save atomically, load by copy or mmap | partial writes, versions | a bundle is old or new, never mixed |
| Tokenizer | `libs/src/byte_pair_encoding.c`, `hashmap.c`, `cli/tokenizer.c` | tokens, merges, special mode | train, encode, decode, read, write | merge order, recounting | decode(encode(x)) = x |
| GPU weights | `backends/gpu/gpu_matmul.c`, `core/matmul_dispatch.c` | device buffers by host pointer, generation number | lazy init, upload, invalidate, shut down | stale device copies, full cache | device contents equal host contents when used |
| CPU kernels | `core/matmul*.c`, `cpu_features.c`, `parallel.c`, `bf16.c` | selected kernel | select, run | feature mismatch | same result as the portable kernel |
| Quantization | `core/quantize.c`, `quantized_matmul.c` | blocks | quantize, dequantize | nibble layout, short blocks | every weight in exactly one place |
| Evaluation | `cli/evaluation.c`, `core/evaluation.c` | stream, window, sums | evaluate a file | chunk boundaries | every target counted once |
| Command line | `cli/cli.c`, `cli/main.c` | options, files on disk | parse, check, train, evaluate, generate | overrides of a resumed run, some thirty error paths | an explicit option takes effect or is refused; exit codes are honest |
| Config, manifest | `cli/config.c`, `manifest.c` | text files | write | exclusive creation | a manifest is never overwritten |

Interactions. The driver calls the stream for windows, the core for gradients and updates, and
the checkpoint code between updates; a checkpoint embeds the model, the run state and the
tokenizer, so a resumed process needs nothing else but the corpus. The decode loop owns a cache
and calls the cache's forward step and the sampler, and calls back into the application once per
token. The API wraps the same cache. The GPU dispatch keeps device copies of weights that the
optimizer invalidates after each update.

## 2. Modules

| Module | Models | Uses |
|---|---|---|
| `Trajectory` | abstract: the updates a model receives are a prefix of one fixed sequence; saves may restore a prefix | |
| `TrainingRun` | `mode_train`, the accumulator, `checkpoint.c`; refines `Trajectory` | `Trajectory` |
| `TrainingStep` | what happens inside one update: losses, the backward pass and its scratch buffers, zeroing, averaging, the optimizer's failures | extends `Sums` |
| `WindowWalk` | one epoch's token stream, `process_training_token_range` | |
| `SlidingWindow` | abstract: the newest tokens that fit, at absolute positions | |
| `KVCache` | `model_kv_cache_t` and `model_forward_token`; refines `SlidingWindow` | `SlidingWindow` |
| `Generation` | `generation_decode_with_options`, composed with the cache it primes and feeds | extends `KVCache` |
| `Ownership` | abstract: an object lives exactly as long as some handle holds it | |
| `ApiHandles` | handles and reference counts of `api/dranzer.c`, updated by several threads; refines `Ownership` | `Ownership` |
| `ApiGeneration` | a generation session: reset, priming, `next_greedy`, composed with the cache it feeds | extends `KVCache` |
| `ModelLayout` | the four descriptions of the parameter buffer, overflow checks, which tensors a quantization policy covers | |
| `BundleFormat` | what the two bundle writers write and what each of the two loaders checks, in its order | extends `ModelLayout` |
| `BundleStore` | processes that save, load, map, train and free models over one path, with crashes, power loss and damage | extends `BundleFormat` |
| `QuantBlocks` | grouping, scales, rounding, packing and unpacking of quantized tensors | |
| `Parameters` | a stored shape or tensor, looked at by itself | extends `ModelLayout`, `QuantBlocks` |
| `Sums` | the sum of a function over `1..n` | |
| `CpuFeatures` | detection of instruction sets by several threads at once | |
| `MatmulKernels` | kernel selection, chunks, tiles, vectors and tails of every CPU product | extends `CpuFeatures` |
| `GpuWeights` | device copies of weights in `gpu_matmul.c`, the dispatch of products and its fallback | |
| `HashMap` | `hashmap.c`: buckets, chains, insertion and lookup | |
| `BytePairs` | the tokenizer: training on chunks, encoding, decoding, the tokenizer file | extends `HashMap` |
| `CommandLine` | parsing, coherence checks, the four modes with every error path, and what each leaves for the next run | |
| `Arithmetic` | lemmas about least elements, induction up to a number, recursive functions, remainders and sums | extends `Sums` |
| `KVCacheProofs`, `ApiProofs`, `TrainingRunProofs`, `BundleProofs`, `ComputeProofs`, `TextProofs`, `CommandLineProofs` | theorems; `ApiProofs` is about `ApiHandles` and `ApiGeneration`, `BundleProofs` about `ModelLayout`, `QuantBlocks`, `Parameters`, `BundleFormat` and `BundleStore`, `ComputeProofs` about `GpuWeights`, `MatmulKernels` and `TrainingStep`, `TextProofs` about `HashMap`, `BytePairs`, `WindowWalk` and `Generation` | `Arithmetic`, and `KVCacheProofs` where the module they are about extends `KVCache` |
| `MC*` | TLC instances; `MCText`, `MCApi` and `MCCompute` each check several components in one run, one component per behaviour; they extend the modules the theorems are about, so that a run and a theorem name the same definition | |

### TrainingRun

Variables mirror the program: `acc` is `training_accumulator_t`, `state` is
`checkpoint_run_state_t` (with the settings the process uses), `model` is `neural_model_t`,
`files` the checkpoint directory, `bundle` the file at `--model`. Data is abstracted to what the
properties distinguish: the parameters are the sequence of updates they received; the gradient
buffer is the sequence of examples summed into it; the dropout RNG is a counter of draws; an
example is (seed, epoch, window, minibatch index, RNG position), which determines its shuffle and
its dropout mask. Bit-for-bit equality of two training states is then equality of these.

One action is one handler: `BeginEpoch`, `ReplayWindow` and `TrainWindow` (the two branches of
`submit_training_prediction`, the latter with `process_training_microbatch` and
`commit_accumulated_training` inside it), `FinishStream`, `EndEpoch`, `FinalCheckpoint`,
`Publish`. `checkpoint_save` is one action per file-system operation (`CreateTemp`, `WriteTemp`,
`RenameTemp`, `PruneFile`, `EndSave`, `FailSave`), because the process may die between them
(`Crash`). `Start`, `ResumeLatest` and `ResumeFile` launch the next process. `pc` says which
handler runs next and `ret` where `checkpoint_save` returns to.

Settings fixed by a checkpoint (corpus, batch size, accumulation, shuffle, seed) are constants
or travel in `state`; those a resume may change (`--epochs`, `--checkpoint-interval`,
`--keep-checkpoints`) are chosen at each launch.

### WindowWalk

A token is its position in the epoch's stream. `AddChunk` adds any number of the tokens left
(how many tokens a chunk of 64 KiB encodes to is arbitrary), and starts a walk when the flush
threshold is reached; `EmitWindow` is one turn of the loop in `process_training_token_range`;
`EndWalk` keeps the tail; `EndOfFile` adds EOS and walks with partial windows allowed.

### KVCache and Generation

A row is the token it was computed for and the position encoded into it; rows never written hold
`Garbage`. `fed` and `attended` are history variables: the tokens consumed since the reset and
the rows the last forward pass read. In `Generation` sampling is a free choice among unmasked
tokens, each turn of `emit_until` is one step whose callback may cancel, and `Forward` is the
cache's own `ForwardToken`.

### ApiHandles and ApiGeneration

`references` are the two structures' counts and `holds` says whose count includes a handle. A call
that creates or frees is under way from `Begin` to `Return`; each update of a count is two steps,
`ReadCount` and the store, since `references++` on a plain `size_t` is no more atomic than that.
Applications keep to the documented contract (a handle is in one call at a time and is not used
after it was freed). `Exclusive` says whether they also keep the calls that reach one model or
tokenizer apart, which the documentation does not ask for.

In `ApiGeneration` logits are the token that wins after masking and the sequence they were computed
for. `Prime` is one turn of the priming loop; `TooSmall`, `ReturnEos` and `ReturnToken` are the
three ways through `next_greedy`, for any size of the caller's buffer. `begun` and `taken` are
history: the prompt as it was fed and the tokens returned since.

### GpuWeights

A model is the set of its weights, each an address and a size; what memory holds is the number of
the write that produced it. `cache` is `g_weight_cache` with each entry's device contents,
`generation` is `g_weight_generation`, `scratch` the three buffers that grow on demand.
`NewModel`, `ReadParameters`, `Update` and `FreeModel` are what the host does to weights;
`Multiply`, `BackwardInput` and `BackwardWeight` are the three dispatched products, each with every
way the device calls in it can fail; `Shutdown` ends the device context. A copy that fails leaves
`Unknown` in its buffer. `gradient` counts the contributions a gradient has received, and `due`,
a history variable, those it should have. The result of an accumulating product is downloaded over
the gradient in host memory: a download that fails leaves it as it was, or `Unknown`, and the CPU adds
to that; `torn`, history too, says that this has happened since the gradient was zeroed. A failed
download of a forward product needs no such case, since the CPU clears the output first. `Reloads`
says whether `model_load` may be given a model that products have already used; the programs of the
repository never do.

### HashMap and BytePairs

A key is a sequence of bytes, a map a function from buckets to chains of entries. `encoder` is
`bpe_encoder_t`: the learned tokens in order, whether control tokens follow the bytes, the
largest size, and `token_to_id`; `id_to_token` is written and never read, so it is left out.
`Merge` (`merge_pair`), `Segmented` and `Encode` (`bpe_encode`) and `Decode` are operators.
`ReadChunk` is one turn of `scan_corpus`, `Learn` one turn of `bpe_train` (the order in which
`qsort` leaves pairs of one frequency is any), `FailTraining` every error on the way. `Save` writes
any prefix of the file, over whatever was there, and `Load` is a later process. The file is a
sequence of units (the header, each token); a unit that is partly written counts as missing, as
`read_exact` treats it. `chunk` and `original` are history: what is trained on now, and the
encoder that was frozen.

### ModelLayout and QuantBlocks

A shape is the six dimensions with its set of architecture flags. `ModelAccepts`, `Views`,
the enumerated tensors and `BundleShapeValid` are the four places in which the source describes
one buffer. `layout_layer` and `layout_globals` carve it by advancing one cursor, so the views are
the named pieces with their sizes in the order they are carved, and each has to be the piece the
inventory lists at that place. Overflow checks compare with `SizeMax`, scaled down as the shapes are. In `QuantBlocks` values
are integers, a scale is the peak it comes from, a quantized value is a code with its peak, and a packed
buffer is the set of its one bits: exact fractions instead of floats. `Parameters` has one variable that
never changes, a shape with the count claimed for it or a tensor with a way to quantize it, so that
TLC looks at every member of `Samples` and the theorems speak of any.

### BundleFormat and BundleStore

A file is its header fields, the checksum stored over them, two payloads, a footer and a size. A
checksum is the data it was computed from. `CopyError` and `MapSucceeds` with the checks they
run are the two loaders, each in the order of its code, which decides the error a caller
gets. In `BundleStore` a save is one step per file operation (create the temporary file, each
section, sync, rename), since a process may be killed, a write may fail or the power may go
between any two. `OldModels` with `OldPolicies` and `LegacyModels` are what may lie at the path at the
start: a bundle an earlier release saved, or a file older than bundles, which
`model_write_state` only wrote for models without architecture flags. `Edits` are the damaged and
the edited forms of a file that may take its place. Power loss keeps of each file what was synced and lets the path name any file
it named since the last loss. A mapped model keeps using the file it
mapped; `mapped` counts the mappings a process holds.

### CpuFeatures and MatmulKernels

Detection is one step per write to a shared variable, run by every thread that finds nothing
published. A product is cut as the code cuts it: `Blocked`, `BackwardInputTiles` and
`BackwardWeightTiles` give the chunks, `Shares` the static schedule that gives them to threads,
`BlockAvx2` and its siblings the register tiles, vectors and tails of a chunk. An output element is
the sequence of terms added to it, so a term that is lost, repeated or out of order shows; stale
memory is a term of its own, so an element that is accumulated into but never cleared shows too.
The encoded products ask which instruction set there is at each pass over the inner dimension; the
model asks once for a chunk (`Start`), which is coarser: an answer that changes between two passes
of one chunk changes neither the elements nor the terms.
`MatmulKernelsAssumption` says what the code relies on without a check: except in the quantized
product, no dimension is within a tile of `SIZE_MAX` (the sums of `Limit` and `CeilDiv` wrap, and wrap
in the model); a quantized product has an inner dimension; and a processor with 512-bit vectors of any
length has their byte and word instructions, which the detection does not ask for.

### TrainingStep

Rows, not columns: a row of an activation or a gradient is one number modulo `Modulo`, what a
parameter or a cache holds is any number that depends on its name, its place and the pass or the
update that wrote it (`Content`), and each stage of the backward pass is the map the code applies to
it. `Tangent` is the same network differentiated forward, parameter by parameter. It has none of the
backward pass's stages, order, buffers or transposes; the two share what a place multiplies by
(`NormSlope`, `SlopeByInput`, `SlopeByGate`, `Probs`, `Dropout`, `Rotation`), which is therefore not
itself in question. For one modulus and one `Content`, as in the run, agreement could be an
accident; the theorem of section 5 is for all of them, so the two are equal as polynomials: no stage
is missing, doubled, out of order or fed from a stale buffer. `ws` are the workspace buffers, which
hold anything at first (`Heap`) and which no step clears but those that do in the code; a window
shorter than the last leaves rows of it behind. `Most` bounds the indices of `Content`.

### CommandLine

A word is a record of its text and the number it reads as. `args` and `explicit_options` are
`cli_args_t` after parsing, `effective` what a run uses after a checkpoint replaced it, `files` and
`checkpoints` what is on disk and which run wrote it, `held` what the process has allocated, down to
the buffers that live for a few lines: the reader and the tokens of a chunk, the context of a single
inference, the sequence, the prompt's text and the stop sequences of a generation. Each
step of a mode is an action with a branch for every failure, which says what is freed and with
which code the process ends. Reading, allocating and writing may fail anywhere; a run may be
killed between any two steps, and the corpus may be edited between runs.

A directory holds a set of checkpoints, of any runs. `Store` is `checkpoint_save`: it replaces the
one of the same epoch and step, keeps those that fewer than `--keep-checkpoints` others outrank
(more steps, then more epochs, whichever run wrote them: `Outranks`, `Kept`), the one just written
or not, and leaves any of the others whose removal fails. `Newest` is what `--resume latest` may
select. That a save is one step here, and may be cut anywhere, is the difference to `TrainingRun`.
An epoch opens the corpus, encodes and trains chunks, closes it and trains what is left; `Commit` is
one optimizer step with its periodic checkpoint. How many there are in an epoch, `Updates`, is a
constant for each training window: it depends on the corpus, which does not change within a chain,
and otherwise only on options that do not change either. `Content` is what the fingerprint and the
size tell of a corpus, whatever its path: another path with the same bytes (`Copies`) is accepted on
resume.

`CommandLineAssumption` says what an instance must be: each word is a text or a number, and no run
has written the files found at the start. The properties read the command line themselves (`Places`,
`Asked`) and not what the parser recorded of it. They speak of lines no value of which is named like
an option (`Unambiguous`), since on the others, `--prompt --seed`, a name on the line is not an
option. `ExitCodeIsHonest` asks that results in place are reported as such only where the user gives
the bundle, the tokenizer and the configuration names that differ (`PathsDiffer`). What an exit code
of 0 means is exactly this (`ResultsAreInPlace`): all epochs were done, the bundle and the
configuration at their paths are this run's, and, with checkpoints on, its terminal checkpoint is in
the directory or (`TerminalIsKept`) only so many are kept and one of another run outranks it. The
second case is real, and the run reaches it: finding 1 of section 4 says what it means for the user.

## 3. What is checked

| Run | Question | Bounds |
|---|---|---|
| `training` | killed at any point and resumed: are the updates those of the uninterrupted run, is no checkpoint rejected, is the latest file whole and the newest step kept? does a process that is not killed exit? | 5 windows, minibatches of 2, groups of 2 minibatches (the last minibatch and group are short), 1 or 2 epochs, checkpoints after every update or never, two fresh runs with different seeds and a resume in one directory, keep 1 |
| `text` | does chunking of a corpus leave a trace, in the vocabulary or in the windows? is every text encoded as training cut it up, decoded to itself and encoded alike by a process that read the file? is a reply's stream exactly its content, and does decoding end? | bytes 0 and 1, every corpus of one chunk of 8 bytes or two of 4, room for 0 or 3 tokens, every text of up to 5 bytes; epochs of 0 to 9 tokens, threshold 4, windows 1 to 5, strides 0 to 7, every chunking; replies of up to 4 tokens over 5 ids, overlapping stop lists, minimum 0 or 2, limits of 0 and 4, rings of 1, 2, 4 rows, counter limit 5, cancellation anywhere |
| `api` | do objects die with their last handle? does every token of a session continue the whole sequence, whatever calls failed, and does the ring behave as a sliding window? | 2 threads, 2 bundles, 3 sessions, one tokenizer fitting two models, `Exclusive`; rings of 1 and 3 rows, prompts of 0, 1, 3 tokens, counter limit 6, buffers of 0 to 2 bytes |
| `bundle` | is the path always nothing or a whole bundle? is damage refused, do the loaders agree, are mapped weights stable? | 2 processes, one model with tied embeddings, RMSNorm and SwiGLU, an older float, quantized or legacy file, each header field with several other values under an old and a recomputed checksum, 2 new files, 2 changes of weights |
| `compute` | does every product use the weights the host has and every gradient get each contribution once? is every product exact and executable? do the layouts agree? does quantized storage keep every tensor? is the gradient the derivative? | a device cache of 2 entries and two models competing for them; 2 threads, processors with and without AVX2 and AVX-512, products whose sizes straddle vectors, tiles and chunks; every architecture flag, windows of 1 to 3 rows padded and masked, 2 layers, 2 passes and an update; shapes of small dimensions; small tensors at 2, 3 and 5 bits |
| `cli` | does every explicit option take effect or is it refused, does a resumed chain keep its trajectory, is a run's own command line accepted, is the exit code honest and everything freed? | chains of up to three command lines out of 4 fresh, 9 resumed, 3 reading and 14 refused ones, legacy and broken files present or not, one edit of the corpus, every step failing; 1 or 2 optimizer steps an epoch, intervals 0, 1 and 10, 1, 2 or 3 checkpoints kept, a copy of the corpus at another path |
| `retention` | *violated*: is the checkpoint just saved on disk when the save succeeds? | two fresh runs, keep 1 |
| `first_token` | *violated*: is every corpus token supervised once? | 5 tokens, default stride |
| `threads` | *violated*: `HeldIsLive` without `Exclusive` | 2 threads, 1 bundle, 2 sessions |
| `reload` | *violated*: `ProductsUseCurrentWeights` with `Reloads` | as in `compute` |
| `toolong` | *violated*: can every model that can be created be written as a bundle? | as in `compute` |
| `stride` | *violated*: is a stride of 0 a whole window, also on a resumed run? | as in `cli` |

Why the bounds are enough. Every branch of the code is reached, and every definition whose
boundary matters meets it from both sides. 5 windows in minibatches of 2 and groups of 2 make full
and short minibatches and groups, and cursors in the middle and at the end of an epoch; a
ring of three rows filled six times evicts every row once and returns to its first; a threshold of
4 with windows up to 5 makes walks that emit nothing, one and several windows; stop lists contain
one sequence inside another, in both registration orders, one overlapping itself, and a long one
whose end begins a short one; three sessions over two bundles share a model, share a tokenizer and
share nothing; three weights compete for two places of the device cache, and two of them have one
address with different sizes; vocabularies share three buckets, repeat tokens when the second
chunk has the pairs of the first, and meet the length limit; two files that are saved over a
third are enough for a crash or power loss in either writer and a mapping that outlives its path;
products end inside and past a vector, a group of rows and a tile; a third
command line finds what a run and its resumption left.

The properties, and the hazard each is aimed at:

- `RefinesTrajectory` (exact resume): every crash, resume, replay and prune maps to a step of
  `Trajectory`. Wrong replay counts, minibatch indices, stale gradients or RNG positions show as
  an update that is not the next one.
- `CursorMatchesModel`: what a checkpoint records about its place is where its parameters
  really are.
- `NeverRejectsOwnCheckpoint`, `LatestIsLoadable`, `NewestSurvives`, `BundleIsWholeRun`: a
  process killed anywhere leaves a directory from which training can go on.
- `GradientMatchesTangent`: after every window the gradient of every parameter is the derivative,
  whatever the scratch buffers held.
- `ChunkingIsInvisible`, `TailIsSupervised`: example numbers mean the same in every process.
- `AttentionSeesNewestTokens`, `RefinesSlidingWindow`, `SampleSeesWholeSequence`: no stale,
  evicted or reordered row is read, and every token is sampled from the whole sequence.
- `StreamIsContent`, `HoldsOnlyStopPrefix`, `ResultIsConsistent`: what the reader sees, when, and
  what the result says about it.
- `HeldIsLive`, `NothingLeaks`, `RefinesOwnership`: counts and lifetimes agree in every order of
  creating and freeing.
- `SessionSeesWholeSequence`, `RetryReturnsThePiece`: failed calls consume nothing and a reset
  leaves nothing behind.
- `PathIsWhole`: the path names a file that loads as the model it was saved from, after any
  crash, failure or power loss. `DamageIsRefused`: neither loader takes a file one of whose
  parts was changed. `LoadersAgree`: the mapping loader takes exactly the float bundles that the copying
  one takes, also when a checksum was recomputed over an edited header. `MappedModelIsStable`: weights
  of a mapped model do not change, and the mapping is released once.
- `ShapesAreConsistent`: the count, the views and the enumeration of every shape cover the
  buffer exactly, and a bundle is held to that count. `TensorsSurvive`: storing and loading a quantized
  tensor is the simulated quantizer, within half a step of the original, and no other
  buffer passes for it.
- `ProductIsExact`, `ExecutableHere`: no tail is lost or done twice, forked and serial results are
  the same, and no thread runs an instruction the processor lacks.
- `ProductsUseCurrentWeights`, `CurrentCopiesAgree`: a device copy found by address is never one
  from before an update, of a freed model, or of a copy that failed halfway. `GradientIsComplete`: a
  product that fails on the device and is computed again adds once, unless the failure was the download
  over the gradient itself.
- `DecodeInvertsEncode`: later chunks learn tokens the vocabulary already has, and ids, map and
  bytes still agree. `EncodingFollowsTraining`: replaying the merges cuts a chunk up as training
  did, also where occurrences overlap. `ReloadKeepsTokens`: a vocabulary read from a file gives
  the same ids, and no incomplete file is read.
- `ExplicitOptionsTakeEffect`, `TrajectoryIsInherited`, `OwnOptionsAreAccepted`: the overrides of
  a resumed run. `ExitsCleanly`: an exit code of 0 means that the bundle and the configuration are in
  place and the terminal checkpoint too, unless those of another run push it out; and each of
  the error paths frees what it holds, except the two places named in the module.
- `RunEnds`, `ReplyEnds`: the loops terminate.

For each checked property the modules hold a deliberately wrong variant of one definition
(commented `Mutant`), under which TLC finds the property violated.

**Fairness.** `TrainingRun!FairSpec` has weak fairness on the process's own steps: it is one
thread that never waits for another, so it keeps running unless it is killed. Nothing is assumed
about launches or crashes. `Generation!FairSpec` has weak fairness on the loop, which calls only
functions that return; the callback is assumed to return. `MCText` takes that fairness over for the
behaviours that decode a reply (`WF_textVars(ReplyNext)`), whose other variables stand still.

**Deadlock** is checked in the `reload` run, whose device loop never stops. Elsewhere stopping is no error:
a training process, a walk, a decode loop, a product, a gradient and a command end, and an application stops when
it has freed everything, so those configurations say `CHECK_DEADLOCK FALSE`.

## 4. What the code does differently from its documentation

1. *Retention* (`retention`). `docs/usage.md` says `--keep-checkpoints` retains the newest N
   files. `checkpoint_prune` sorts by training step only. A fresh run in a directory that holds a
   longer run's checkpoints deletes each file it has just written, the terminal one included, and
   `checkpoint_save` still returns success with that file's path: the run exits with 0 and leaves no checkpoint
   (the second case of `TerminalIsKept`).
2. *The first token* (`first_token`). `docs/usage.md` and the comment at the stride say every
   corpus token is supervised exactly once per epoch. Each epoch starts at `token_buffer[1]`,
   so the first corpus token after BOS is context and never a target.
3. *Threads* (`threads`). `docs/public-api.md` lets separate handles be used by separate threads
   while the model is not mutated, and says objects live until their last dependent handle is
   freed. Creating and freeing a session updates its model's count with a plain increment; two
   threads doing so with separate sessions can lose an update and destroy the model under a session
   that is still open. With calls that reach one model kept apart (`Exclusive`) the promise holds,
   which is proved.
4. *Reloading* (`reload`). `gpu_matmul.h` says the device copies must be invalidated after anything
   changes any weight. `model_load` into a model of the same dimensions reads the new weights over
   the old and does not: if products ran on the device before, they go on using the former file's
   weights. Loading only into new models, as the command line does, is proved safe.
5. *Long contexts* (`toolong`). `docs/model-bundle.md` says DRANZER writes a bundle at the path
   `--model` names. `bundle_shape_valid` refuses a shape whose heads times squared context exceeds 64
   times the parameter count, a limit that neither the command line nor `model_new` has: with the
   default sizes, a `--max-seq-len` above 693 trains to the end and then fails to be saved.
6. *A stride of 0 on resume* (`stride`). `docs/usage.md` says that a stride of 0 means a whole window,
   and that overrides which change the trajectory are rejected. `reject_resume_override` resolves a
   requested 0 with the window this command line gives, or the default of 16, and not with the
   checkpoint's, which is the one in force. A run with `--train-window 32 --train-stride 16` resumed
   with `--train-stride 0` is accepted and goes on with half a window; a run whose stride is the whole
   window of 32 is refused with the same option. `ExplicitOptionsTakeEffect` names this exception.

Two more differences have no run of their own. `matmul_dispatch.h` says that a failed device call
falls through to the CPU, as if there were no device. The accumulating products download their
result straight into the gradient in host memory (`gpu_matmul.c:625`, `:654`); a copy that fails
after it has written part or all of it returns -1, and the CPU then adds the contribution to what is
there (`matmul_dispatch.c:45`, `:56`). In `AddContribution` the gradient is `Unknown` from then on
and `torn`, and TLC finds such a state two steps after the start. Nothing else that fails on the
device can spoil it, which is what `GradientIsComplete` says and is proved.

Detection of the processor (`cpu_features.c:121`) also differs from its header, which says that it
happens once: two threads whose first queries coincide both detect, the second over what the first
published. No thread ever runs an instruction the processor lacks for that (`ExecutableHere`), and the
command line detects before it starts threads.

## 5. What is proved

From the named assumptions on the constants only (`KVCacheAssumption`, `GenerationAssumption`,
`ApiHandlesAssumption`, `ApiGenerationAssumption`, `TrainingRunAssumption`, `ModelLayoutAssumption`, `ParametersAssumption`,
`BundleStoreAssumption`, `GpuWeightsAssumption`, `MatmulKernelsAssumption`, `TrainingStepAssumption`, `HashMapAssumption`, `BytePairsAssumption`,
`WindowWalkAssumption`, `CommandLineAssumption`), each of which TLC evaluates in a run of the module; further hypotheses are named below.

- `KVCacheProofs`: `CacheTypeCorrect`, `AttentionIsNewest`, `RingRefinesWindow`. The invariant
  says that physical row `(start + j) % capacity` holds the token fed `length - j` ago at its
  absolute position, for every `j` below `length`. The property alone is not inductive because it
  speaks of the last pass, not of the rows. The step for a full ring rests on `Arithmetic`: the slot
  written is the one that becomes last after `start` moves.

- `TrainingRunProofs`, first part: `TypeCorrect`, `ReplayNeverRejects`, `LatestIsWhole`. The invariant
  says every cursor in memory or on disk is *aligned* (a multiple of the batch size, or the end of the
  epoch), that while replaying `replay_slots` is the cursor modulo the batch size, and past the
  replay the minibatch holds exactly the cursor modulo the batch size. `NeverRejects` alone says
  nothing about the files a later process will read, hence the aligned cursors; `LatestIsLoadable`
  needs that a file under a final name is complete, which needs that a running process's id is
  not 0, the mark of a final name.

- `TrainingRunProofs`, second part (exact resume): `ExactResume`, `PublishesWholeRuns`,
  `CheckpointsAreConsistent`, `TrainingRefinesTrajectory`, `NewestIsKept`. The invariant
  `TrajectoryInv` has three parts. `RecordedInv`: the model of every file under a final name is that
  of a run never interrupted, at the place recorded beside it, and the place ends a group of
  minibatches. `BundleIsWholeRun`: what was published received every update. `PlaceInv`: for each place
  in `mode_train`, the model, the gradients and the minibatch are those of the uninterrupted run
  there; inside a stream there is a number of complete groups `q` such that the model has received
  `q` updates of the epoch, the gradient buffer the examples of the pending minibatches of the next
  group, and the minibatch the windows after those (`InGroup`). None of the parts stands alone: a
  checkpoint is right because the place in memory is when it is written, and memory is right because
  the checkpoint was when it was read. The refinement maps each step to one of `Trajectory`: only
  the update that closes a group, or the short last one, extends the sequence, by its next member.
  `NewestIsKept` is an action property: whatever a step replaces or removes, a file at least as new as
  the latest remains, also between the removals of one prune.

- `TextProofs`, decoding: `DeliversContent`, `HoldsStopPrefix`, `ResultDescribes`, `SamplesSeeSequence`. What
  reached the stream is a prefix of what was generated (`StreamInv`). `pending_stop_prefix` looks only at
  the tokens that are not yet delivered, and that this loses nothing is the heart of the proof: if an
  end of the text can grow into a stop sequence, then without its last token it could
  already before (`GrewBefore`), so it was held back. The invariant therefore records that what is held is
  the longest such end of everything generated (`LongestAfter`), and that no earlier token ended the loop
  (`Clean`). The rest are the counts and flags of the result, for each place of the loop.

- `ApiProofs`, handles (from `ApiHandlesAssumption` and `Exclusive`): `HandlesAreSafe`,
  `EverythingIsDestroyed`, `CountingIsOwnership`. The invariant says that a count is the number of
  handles that hold the object, that an object is live exactly when that is not zero, that the
  value read by a call under way is still the count when it is stored, and which handles a call
  holds back from `open`. The first of these alone is not inductive: between the read and the store
  only the exclusion keeps the count from moving.

- `ApiProofs`, sessions: `SessionsSeeSequence`, `RetryGivesThePiece`, `PrimingIsNeverRefused`. While a
  session primes, what it fed followed by what is pending is the prompt; afterwards it has fed the
  prompt and every token returned, and a piece that was refused for its size is still the next
  (`SessionInv`). Together with the cache's invariant this gives the property for any interleaving of
  failed resets, failed passes and buffers that are too small. `PrimingIsNeverRefused` says that the
  cache always has room for the rest of a prepared prompt.

- `BundleProofs`, layout: `ShapesAgree`, `CountsAgree`, `ShapesStayConsistent`, for every shape. The views and the inventory
  name the same pieces in the same order and their sizes sum to `model_param_count`;
  `bundle_shape_valid` accepts no other count for a shape. A sum over the layers is a recursive
  function; its two laws (`SumContinues`, and the sum over equal layers) are proved with the least
  number at which they would fail. `ShapesStayConsistent` is the whole of `ShapesAreConsistent`, with
  the overflow limits of the three places that check them.

- `BundleProofs`, quantized tensors: `TensorsAlwaysSurvive`, for every tensor, 2 to 16 bits and each
  grouping. The lowest `n` bits of a code are the code modulo `2^n` (`LowerBits`), so a code is read back
  from the bits it wrote (`CodeReadBack`); the bits of two values are apart (`BitsApart`), so it is read
  back from the whole buffer (`PackedReadsBack`). The groups the simulated quantizer walks are the values
  that share a scale index (`GroupsAreScales`), and rounding an element not larger than its peak stays on
  the grid and within half a step (`RoundedLevel`), so the code never is the unused one. A bit that is
  flipped changes exactly the code it belongs to (`FlipShows`), by less than the grid can hide.

- `BundleProofs`, files: `SavesAreWhole`, `DamageNeverLoads`, `TheLoadersAgree`, `MappingsAreStable`. Each
  loader is first shown to accept exactly the conjunction of its checks (`CopyAccepts`, `MapAccepts`), so
  that the order in which they run decides the error but not the answer, and what any save wrote
  satisfies both (`SavedLoads`). The invariant `StoreInv` says that every file neither edited nor
  legacy is what a save wrote for its source; that everything the path may name after a power loss is
  whole and synced; and that a mapped model has the weights of its file. `PathIsWhole` by itself says
  nothing of temporary files, which a rename makes current, or of the names a power loss brings back.
  `MappingsAreStable` has the hypothesis `NoneIsNoHandle`: the value that stands for "no model" is not a
  record; the others do not need it.

- `ComputeProofs`, device copies (from `GpuWeightsAssumption` and, except the last, not `Reloads`):
  `TypeCorrect`, `WeightsAreCurrent`, `CopiesAgree`, `NoContributionLost`. That trusted copies agree
  with the host is not inductive: reading parameters writes host memory without a new generation.
  The invariant adds that no trusted copy has an address of a model no product has used
  (`FreshUncached`), which every product keeps because the models that exist share no address
  (`Apart`), and that no entry is of a later generation (`NotAhead`), so that an invalidation leaves
  nothing trusted. `NoContributionLost` needs none of this: what is downloaded is what was uploaded
  and one contribution more, a gradient is `Unknown` only once it is `torn` (`GradientSound`), and
  until then it is complete.

- `ComputeProofs`, products: `ProductsAreExact`, `KernelsAreExecutable`, for every call, kernel, tile,
  vector width, team and processor. Strips, groups of rows and tails partition a range
  (`PartitionStrips`, `PartitionMasked`), so every block tiles its part of the output (`BlocksTile`,
  `QuantizedBlockTiles`); the tiles cut the output as `div` and `mod` number them (`CutAt`,
  `GridNumber`), so a chunk's tiles hold the elements it owns once and no other (`ChunkServes`, and
  `RemainderServes` for the rows left after the parallel loop); and the passes of a chunk add to such an
  element every inner index once, in order (`ChunkAccumulates`, `DotTermsCover`). The invariant
  `ProductInv` names, for each thread at work, the chunk it has in flight, says that no chunk is given to
  two threads, and that an element is blank while the chunk that owns it is not done and complete from
  then on. `ProductIsExact` alone says nothing of the elements before the call returns. Accumulation
  is a recursive function; what it computes is proved with the least index at which two such functions
  would differ. For `KernelsAreExecutable`, `ExecInv` says that the shared table never names a set the
  processor lacks, also while two detections write it, and so neither does what was chosen from it.

- `ComputeProofs`, the gradient: `GradientAlwaysMatches`, for every architecture, number of layers,
  window, mask, modulus and `Content`, and any group of windows. Halfway through a backward pass the
  gradients are no derivative of anything, so the property alone is not inductive. The invariant
  `StepInv` says what is still missing (`Balanced`): the gradient of a parameter, plus what the rows in
  the scratch buffers *owe* it (`Owed`), is what the windows before should have left plus the tangent
  of this one. What is owed is the sum over the rows of what came back times the tangent of what
  went in, at the place the pass has reached; with two buffers in use, the residual's and the
  branch's, it is the sum for both. Each stage then moves as much from what is owed to the gradients as
  it adds there (`Moved`, and `FfnNormStage` to `AttnInStage`), which is the duality of that stage, row by
  row: a product with a weight and its transpose (`LinearMoves`), the two norms, dropout, the activation,
  and softmax, where the sums over queries and keys are exchanged (`SumSwap`). The head starts with
  all that is owed (`HeadStage`), and the scatter into the embeddings leaves nothing
  (`FirstLayerStage`). `CleanPadding` says which buffers are zero on padded rows, without which a bias
  would be owed more than it should get; after the scatter that need not hold.

- `TextProofs`, windows: `ChunksLeaveNoTrace`, `TailTokensSupervised`, `WalkTypes`. In every state the
  next window starts where the window of that number starts in the whole stream, and the buffer ends
  where the stream read so far ends (`WindowsInv`): no chunk boundary appears in either. That the
  windows of the whole stream are numbered without a gap, which the property's definition counts, is
  proved with the least number that is not among them.

- `TextProofs`, the token map: `InsertedIsFound`, `OthersAreKept`, for any keys,
  values and number of buckets. Both rest on `FirstExists` (a walk that stops nowhere has seen every
  entry), proved with the least entry that has the key, and on `BucketExists` (a hash selects a bucket
  that exists).

- `TextProofs`, the tokenizer: `TextsSurvive`, `TrainingIsEncoding`, `VocabulariesSurvive`. Merging a
  pair leaves what the tokens spell (`MergeKeeps`), so whatever was learned a text is cut into
  known tokens that spell it (`SegmentedKeeps`). The map gives each known token an id
  that decodes to it (`KnowsItsTokens`): kept when a token is learned (`AddTokenKnows`), also one that
  was learned before, which then has two ids. `VocabularyInv` says so of every encoder there is
  and adds that an encoder is what adding its tokens to a new one gives, which the properties do not
  say and without which nothing is known of the encoder a file is read into; a file is some
  part of what its encoder writes, and one with as many tokens as its header says is all of it
  (`CompleteIsWhole`). The hash, merging, encoding, the bytes' ids and reading are recursive functions on
  `0..n`. The library's induction takes an operator, which the provers cannot instantiate; `UpTo` takes a
  set instead. `RecursionExists` builds a function with given steps, so that the function a
  definition chooses has them, and `RecursionAgrees` compares two.

- `CommandLineProofs`, resuming: `ChainsKeepTheirTrajectory`, `OwnOptionsPass`. A checkpoint is *good* if
  the values it holds are those its chain was born with, and those are what shortening makes of the
  options asked for (`Good`); the invariant says that every checkpoint on disk and the one resumed
  are good (`Chains`), and at every step of a run which values are in force (`Course`). That a
  resumed run stores a good checkpoint needs that what was shortened once is not shortened again
  (`SettledStays`); that the run's own options pass needs that a window and a stride that fit are
  kept (`WindowedIsSound`). Neither property alone says anything of the files a later run finds.

- `CommandLineProofs`, the line: `GivenOptionsAreInForce`. While the line is read, each option already
  passed is recorded as given and has the value of its last place (`ReadOK`): an invariant of the
  parser that speaks of the words, from which what is in force follows with `Course`.

- `CommandLineProofs`, exits: `RunsExitCleanly`. What is allocated at each step (`HeldOK`) and which
  files of the current run there are (`FilesOK`): before the bundle is written only the tokenizer's,
  so that a bundle found in place afterwards is the one just saved. This is where paths that differ
  are needed. For the terminal checkpoint, `RankOK` says that a directory with any checkpoint has a
  newest one and that no checkpoint of the current run outranks where the run is. A save never
  removes what nothing outranks (`NewestIsKept`), so after the last save the newest is the terminal
  one or outranks it, and then it is another run's (`TerminalIsStored`); with `--keep-checkpoints 0`
  nothing is removed.

Only model-checked: liveness (`RunEnds`, `ReplyEnds`), which TLAPS does not reach. Every invariant
and action property of the passing runs is stated by a theorem.

## 6. Not modelled, and why

- Floating-point arithmetic (activations, norms, AdamW, schedules, clipping, sampling
  probabilities, metrics, rounding of kernels) has no counterpart in TLC. What is modelled of these parts is
  which values enter which operation, in which order.
- Evaluation is one pass that sums losses; its window walk is the training walk's. Benchmarks,
  statistics, examples and scripts measure or demonstrate. GPU probing reads what drivers report.
- Checksums are taken to detect every change of what they cover.
- Text formats (configuration, manifest, help) are formatting; when they are written and what
  their failure does is in `CommandLine`.
- Two processes training into one checkpoint directory at once, loss of synced directory entries
  of checkpoints, and a read error that `stream_read_chunk` takes for the end of the file are
  outside the model.
- Known hazards without a property, beside those: `model_quantize_weights` does not invalidate device copies (its only caller computes on
  the CPU); `adam_t` is advanced before weight decay can fail (no caller retries);
  `model_write_state` ignores the results of `fwrite` (no command uses it); a checkpoint records
  the clamped window, so repeating the command line that wrote it with `--resume` is refused
  (`OwnOptionsAreAccepted` excepts it).

## 7. What could come next

Evaluation's walk, the readers of the tokenizer's older formats, and the schedule's phases.
