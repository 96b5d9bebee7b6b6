# A formal model of polyvoice

polyvoice is a speaker diarization library: audio goes in, "who spoke when"
comes out. Three things in it are hard to test. Threads share memory in
hand-written protocols: a worker pool with one job slot, caches of weights that
outlive the weights, fan-outs that must put every result in its own place. Calls
depend on what earlier calls left: the streaming pipeline, the speaker cache, the
model cache on disk, buffers that kernels recycle. And long chains of small
algorithms, from convolution tiles to word attribution, hand each other indices
that no single unit test sees together. This directory models these parts in
TLA+, checks them with TLC, and proves what matters most about the threads, the
caches, the download and the stream with TLAPS.

All paths below are relative to the root of the repository.

    cd tla
    tlc -workers 2 -config IntraPool.cfg IntraPoolProofs   # any run of PROJECT.json
    tlapm IntraPoolProofs.tla                              # any *Proofs module

`PROJECT.json` lists the components, the runs, the hazards, the findings and the
theorems, gives for every definition of a model the source lines it stands for,
and, for every property, plausible bugs (the definitions marked "mutant" or "a
plausible bug" in the modules) that make the property fail.

## 1. The system

| component | state | operations | talks to |
|---|---|---|---|
| intra-op pool, `polyvoice-kernels/src/intra.rs` | one job slot of atomics, two condvars, the `RUN` mutex | `run(n, f)`; `worker_loop` | every INT8 convolution of every thread |
| packed-weight caches, `rten_matmul.rs` | three thread-local lists keyed by address and shape, a process-wide generation | `gemm_*`; `Drop` of a model bumps the generation | `ResNet34`, `Powerset` |
| BNNS filter pool (Apple), `bnns.rs` | a locked map from address and size to filters | `try_conv2d` | `conv.rs`, `ResNet34` |
| integer convolution, `conv_i8/*` | per call: a ring of input rows, tiles, the output; per thread: the quantized input and its seed | one kernel per layer shape, cut over the pool | intra-op pool, embedder network |
| embedder network, `resnet34.rs` | the seed left by the last layer | `embed_fbank`, `embed_fbank_batch` | convolution, float kernels |
| segmentation network, `powerset.rs`, `lstm.rs`, `seq1d.rs`, `qlinear.rs` | a process-wide pool of buffers | `forward` | float kernels |
| float kernels and loader, `gemm.rs`, `conv.rs`, `onnx_init.rs` | thread-local scratch | products, im2col, weights from a file | networks |
| embedding pool, `src/embedder/native.rs` | a stack of jobs, scoped threads, the process-wide width `INTRA_THREADS` | `embed_batch` | intra-op pool, pipeline v2 |
| segmentation fan-out, `src/segmentation/native.rs` | a queue of packs, scoped threads | `infer_windows` | pipeline v2 |
| session pool, `src/utils/mod.rs` | a locked stack of ONNX sessions | `checkout`, drop of the guard | ONNX segmenter and embedder |
| file queue, `src/bin/polyvoice-bench.rs` | a queue of files, the first error, rows | `run_all_files` | pipelines, embedding pool |
| model download, `src/models/download.rs` | the destination, its `.partial`, one process-wide lock | `download_with_checksum_signature_and_cap` | registry, network, file system |
| model registry, `src/models/*` | the manifest, the cache directory, the adapter table | `ensure`, `ensure_for_profile`, `register`, `resolve`, ... | download, builder |
| streaming, `src/streaming/mod.rs`, `src/window/mod.rs` | the VAD buffer, the region tracker, the window buffer, the turns | `feed`, `flush` | detector, encoder, speaker cache |
| speaker cache, `src/streaming/cache.rs` | resident speakers, the current one, the next id | `assign`, `evict_weakest` | streaming |
| speech regions, `src/vad/*`, detectors | one region tracker; a detector's memory | `advance`, `flush`, `segment_speech`, `process` | streaming, legacy pipeline |
| audio in, `src/wav/*`, `src/window/mod.rs` | a decoder's error streak, a window buffer | `load_audio`, `push`, `try_pop` | every front door |
| pipeline v2, `src/pipeline_v2/*`, `src/segmentation/*`, `src/resegmentation` | none across calls | `run` | segmenter, embedder, clusterer |
| legacy pipeline, `src/pipeline/mod.rs` | the detector's memory | `run` | detector, embedder, clusterer |
| clustering and assignment, `src/ahc`, `src/kmeans`, `src/spectral`, `src/clusterer`, `src/hungarian.rs` | per call: clusters being merged | `cluster`, `solve` | pipelines |
| words, `src/attribution`, `src/labeling`, `polyvoice-asr` | per call: cursors and seams | `attribute_words`, `speaker_at`, `transcribe` | command line, bindings |
| scoring and RTTM, `src/der/*`, `src/rttm` | per call | error rates, parse and write | bench |
| front doors: CLI, MCP server, C interface | handles | flags to a configuration to a run | builder, registry |

Sharing is of four kinds. Threads share *memory*: the job slot, the filter pool,
the job stacks, the width, the recycled buffers. They share *addresses*: both
weight caches recognise a matrix by where it is, so the allocator is a party to
the protocol. Processes share *files*: the model cache. And calls of one object
share *what the last call left*: the stream, the speaker cache, a detector's
memory, the seed one layer leaves for the next.

What makes each part correct, and what is hard about it:

* **fan-outs**: every result in its own slot, no session lost, the first error
  returned and everybody back, though jobs fail and threads panic in any order;
* **pool**: `run` executes each index exactly once before it returns, over one
  slot for all threads, with `left` decremented outside the mutex the caller
  sleeps under;
* **caches and buffers**: a product uses the operand it was given, a convolution
  the rows it should, though addresses outlive weights and rings, seeds and
  buffers hold what earlier rows, layers and calls put there;
* **kernels**: each output is written once, from its own taps, on every tiling,
  tail and split; each instruction set rounds alike;
* **download and registry**: success means verified files, a good file is never
  lost, whatever crashes, other threads and edits in between do;
* **streaming**: the turns do not depend on how the audio was cut into chunks,
  labels settle, numbers are never given out twice, errors in the middle of a
  `feed` leave nothing behind;
* **the offline chain**: a scene cut into windows, renamed in each, stitched,
  clustered, assigned, resegmented and reconstructed is that scene again; words
  go to the turn they were said in, once; rates fit each other;
* **front doors**: flags, environment, domain profiles and defaults take
  precedence in one order at every door.

## 2. The modules

| module | models | checked by |
|---|---|---|
| `ParallelFor` | what `run(n, f)` promises: the abstract specification of the pool | `IntraPoolProofs` (refinement) |
| `IntraPool`, `IntraPoolProofs` | `polyvoice-kernels/src/intra.rs` | `IntraPoolProofs`, `MCCalls` (panics) |
| `PackCache` | the caches of `rten_matmul.rs` | `MCKernels` (proved in `MCKernelsProofs`) |
| `FilterPool` | the pool of `bnns.rs` | `MCKernels` (proved in `MCKernelsProofs`), `FilterPool` itself (a finding) |
| `ConvI8` | the scans of `conv_i8/{s1,s2,pointwise,conv,dispatch}.rs` with their cut over the pool | `MCKernels` (proved in `MCKernelsProofs`) |
| `ConvPanel` | the interleaved panels and dot kernels of `conv_i8/gemm.rs`; every quantizer of the kernels | `MCKernels` |
| `FloatConv` | `gemm.rs`, `conv.rs`, the virtual im2col of `rten_matmul.rs`, unrolled loops | `MCKernels` |
| `ResNetForward` | the blocks of `resnet34.rs` and the seeds of `conv_i8/dispatch.rs` | `MCKernels` |
| `PowersetForward` | `powerset.rs`, `seq1d.rs`, `lstm.rs`, `qlinear.rs`, `scratch.rs` | `MCKernels` |
| `OnnxInit` | `onnx_init.rs` | `MCKernels` |
| `EmbedBatch` | `embed_batch` of `src/embedder/native.rs` and the two widths | `MCCalls` (proved in `MCCallsProofs`) |
| `WindowFanOut`, `WindowFanOutProofs` | `infer_windows` of `src/segmentation/native.rs` | `MCCalls` |
| `SessionPool`, `SessionPoolProofs` | the pool of `src/utils/mod.rs` and the two ONNX fan-outs over it | `MCCalls` |
| `FileQueue` | the file loop of `src/bin/polyvoice-bench.rs` | `MCCalls` (proved in `MCCallsProofs`) |
| `ModelDownload`, `ModelDownloadProofs` | `src/models/download.rs` | `MCCalls`, `ModelDownload` itself (a finding) |
| `Hysteresis` | gate and tracker of `src/vad/hysteresis.rs`; regions defined on the whole track | through the next four |
| `SpeechRegions`, `Binarize` | `segment_speech`; `binarize_frames` | `MCStreaming` (proved in `MCStreamingProofs`) |
| `SpeakerCache`, `SpeakerCacheProofs` | `src/streaming/cache.rs`, `stability.rs` | `MCStreaming` |
| `Streaming` | `src/streaming/mod.rs`, `src/window/mod.rs`; composes the previous two | `MCStreaming` |
| `Registry` | `src/models/{mod,manifest,verify}.rs`; the adapters of `adapter.rs`, a machine of its own; `metadata.rs` and the segmenter's geometry | `MCCalls` (proved in `MCCallsProofs`); the geometry `MCOffline` |
| `Ahc` | the agglomerative loop of `src/ahc/mod.rs` | `MCOffline` |
| `Partition` | `src/kmeans/mod.rs`, `src/spectral/mod.rs` and their clusterers; the reassignments of `clusterer/{vbx,short_filter}.rs` | `MCOffline` |
| `Clusters` | numbering, pruning, short segments, VBx labels; `src/hungarian.rs` and the matching of local to global speakers | `MCOffline` |
| `Stitch` | from windows to a time line, both ways: `src/segmentation/{aggregator,decoder}.rs` and `src/pipeline_v2/reconstruct.rs` | `MCOffline` |
| `Diarize` | `src/pipeline_v2/mod.rs`, `src/resegmentation`, `src/overlap` | `MCOffline` |
| `LegacyPipeline` | `src/pipeline/mod.rs` and the three detectors; composes `Hysteresis`, `Clusters`, `Audio` and `Diarize` | `MCOffline` |
| `Words` | `src/attribution`, `src/labeling`, the exclusive timeline of `src/types/result.rs`, `polyvoice-asr`, the tokens of `polyvoice-asr-sherpa` | `MCOffline` |
| `Scoring` | `src/der/*`, `src/rttm`, the aggregates of the bench | `MCOffline` |
| `Audio` | `src/wav/*`, `src/window/mod.rs` | `MCOffline` |
| `FrontDoors` | builder, clusterer factory, CLI, MCP server and C interface | `MCOffline` |

A run composes modules: each `MC` module holds several machines as *parts* (the
variable `part` says which one a behaviour is of, the others stay idle) or, for
pure algorithms, as *cases* (an input chosen in the first step, a property of
the algorithm's answer). Its properties conjoin those of the modules and are
named after what they say together; the comment over each names its conjuncts,
the inductive invariant of the part among them where it is proved. `MCCallsProofs`
and `MCStreamingProofs` hold the theorems about the compositions, and with them the
proofs of `EmbedBatch` and of `Streaming`, which their `MC` modules extend.

### IntraPool and ParallelFor

One step is one access to shared state. `Enter` is the entry of `run` with its two
early cases; `TryLock` is `RUN.try_lock()`, which a busy and a poisoned mutex both
fail, so the caller goes to `Serial`; `StoreJob` writes the slot, `Publish` bumps
`batch` and wakes the workers under `mu`; `Claim` and `Call` are the loop callers
and workers share; `LockDone`, `CheckLeft` and `BlockDone` are the wait for
`left`, split where the mutex does not protect: a worker's `Finish` decrements
`left` without it. The stores to the slot are one step because nobody reads the
slot before the new batch is visible, and the atomics are sequentially consistent
in the model: the code orders them with release and acquire on `batch` under the
mutex, and with read-modify-writes on `next` and `left`. A closure is named by its
caller and the number of the call, and is alive while that caller is inside
`dispatch`; a call through a dead one does nothing, and `NoUseAfterReturn` forbids
it. A panic kills a worker where it stands and unwinds a caller out of `run`;
unwinding out of `dispatch` poisons `RUN`.

### PackCache and FilterPool

A model instance is loaded once, at addresses nobody holds, and dropped at most
once, when nobody is inside a call on it, which is what Rust's ownership
guarantees. In `PackCache` the drop is the code's two parts: `Drop` bumps the
generation, then the fields are freed one at a time. A multiplication is three
steps, because other threads run between them: load the generation, clear the
caches if it moved, look up. `FilterPool` has the same world and no such
generation: its `invalidate_packed_weights` is empty in the Apple build.
Matrices are their names; a product is the name of the operand it was computed
with. The shape of a layer names the cache and the dimensions.

### The kernels

Arithmetic is left out where it is exact or the repository's numeric tests cover
it; addresses are not. In `ConvI8` the value of an output is the weight row it was
computed with and the *patch*, a function from taps to input pixels; `Patch` is
the definition, and the kernels go through the ring of rows (`RowSlot`), tiles,
overlapping tiles, single columns and channel groups as the code does, one input
row per step, by several workers over one output when the layer is split. A row
that an earlier step left in the ring is a row of another place and shows in the
patch. `ConvPanel` names every byte of a panel and gives each lane of each
instruction the set of products it adds. `FloatConv` does this for the float
side; the quantizers of `ConvPanel` put a float on the int8 lattice the way each of the
scalar, NEON and AVX-512 paths does. A float is a multiple of the distance of floats of its
size, with `P` bits of significand, and a sum is rounded to the nearest of them, so the addition
that AVX-512 rounds by is not exact. `ResNetForward` is one thread embedding
again and again: a layer may leave its successor's quantized input in the thread,
and whoever finds a seed of its lattice and length takes it. `PowersetForward` takes
buffers from a pool of recycled ones, zeroed only where they grow. `OnnxInit` is
the mapping from initializers to matrices in either layout, and from there to the
weight and scale of every term of a recurrent or linear product.

### The fan-outs and the download

`EmbedBatch`: `Start` groups the clips by frame count and cuts the groups into
packs; the groups come out of a hash map, so `TakeJob` takes any. `FinishJob`
chooses which clips the fbank refuses and whether the packed forward fails, and
pairs the rows with the remaining slots as the code does. `Join` goes through the
workers in order; the first that panicked ends the scope with an error, and a
second one makes `thread::scope` itself panic (`Unwind`). `WindowFanOut` has the
two ways to cut windows into packs: a static split whose rows are appended in
join order, and a queue whose rows are put back by offset. `SessionPool` has two
recordings that share one stack of sessions; a checkout polls, and a guard
puts its session back on every way out. `FileQueue` has the serial and the
parallel loop over a dataset, with the outcome of a recording from what its
files are; a sort puts each element in the place that the number of elements before it
gives. In all of them a result is the number of its input.

`ModelDownload`: the seven stages of the function, each with its failures, over a
file system of names, inodes and open files: a rename moves a name under a writer
that still has the inode open, and `File::create` truncates an inode another
process is writing. A file is a sequence of chunks, "good" where the manifest's
hash expects that chunk. The initial state ranges over what an earlier life may
have left: no file, the model, a torn file; no partial file, an honest one, a full
one of garbage. A crash takes the memory and the locks of a process; a power loss
may also cut any named file short, for the code never syncs.

### Hysteresis, SpeechRegions, Binarize, SpeakerCache, Streaming

`Hysteresis` has the code's gate and tracker as operators on records, and next to
them the definition they are checked against: two active frames are in one region
when no long enough pause and no cut lies between them (`Together`). Regions are
in frames; the duration test subtracts modulo the width of `usize`. A NaN
score is a value of its own, because the state machine treats it as speech inside
a region and silence outside. The three local speakers of `binarize_frames` share
nothing, so one stands for all.

Centroids matter only through their similarity to an embedding, so an embedding is
the list of its similarities to the residents, and any list may come. The keep
score of `evict_weakest` is a real number, so any resident may be the victim.
`Streaming` runs the loops of `feed` and `flush` one iteration at a time. A sample
is the position it has in the stream, so the buffers show which audio they hold;
a detector frame's decision is a free choice, an encoder or detector error may
come at every iteration, and a `flush` between any two calls.

### The offline chain

`Ahc` is a machine: one merge per step, where the score of a moved centroid is any
score, so that sizes, durations, dominant members and the sorted candidates must
hold for all. `Registry`, run in `MCCalls` next to the download, is a machine because
the files of a profile are checked one after the other while others edit the cache;
its adapters are one because aliases and factories come in any order. The rest are pure: an
operator per function of the source, on small records. `Stitch` knows the *scene*, who really
speaks in each frame; the windows hear parts of it under names of their own, and
the property asks for the scene back. `Diarize` does so for the whole file, with
the embedder and the clusterer as any answers. `Partition` has embeddings of equal
length in a plane, so that cosines are fractions; the draws of K-means are any
draws, and the spectrum is any spectrum a graph with these components can have (`Connected` and
`Spectra` stand for the eigendecomposition); its soft centroids are sums weighted by
responsibilities that leave every speaker a share of every embedding. `Words`, `Scoring` and
`Audio` state each algorithm next to the definition it is measured against: the
scan for the sweep, renamed speakers for the rates, the whole tape for the seams.
`FrontDoors` takes flags, environment, compiled features and files on disk to a
configuration, a build and an answer, at each of three doors.

## 3. The runs

| run | question | distinct states |
|---|---|---|
| `intra_pool` | is every index executed exactly once, by threads that still may, and does the pool implement `ParallelFor`? | 1.9 M |
| `calls` | does every call that waits for other threads end, with its results in place, though items fail, threads panic, processes crash, and is a model that is handed out the right one? | 0.29 M |
| `streaming` | are the turns independent of the chunks, what holds after a failure, do ids and regions keep their word? | 1.2 M |
| `kernels` | is each output computed from its own inputs and weights, once, whatever rings, seeds, buffers and caches hold? | 0.34 M |
| `offline` | does each stage of the offline path answer what its definition asks? | 0.32 M |
| `intra_no_workers` | the pool on a machine with one core (a finding) | |
| `download_two_processes` | two processes, one cache directory (a finding) | |
| `filters_reload` | a model dropped and another loaded at its address (a finding) | |
| `bench_report` | the order of the parallel report (a finding) | |
| `conv_leftovers` | a split layer whose channels are no multiple of four (a finding) | |
| `stitch_permutation` | windows that agree on fewer speakers than they hold (a finding) | |
| `as_norm_flags` | `--as-norm` without a threshold (a finding) | |

What the properties of the passing runs say, in short:

* `intra_pool`: `ExactlyOnce`, `NoUseAfterReturn`, `OneDispatcher`, `LeftIsExact`, the
  proof's `IInv`, and the refinement `ImplementsParallelFor`.
* `calls`: `ClipsKeepTheirSlots`, `RowsAreTheWindows`, `SessionsAreConserved` and
  `FilesAsSerial` for the fan-outs; `PanicsAreContained` for the pool whose closures
  panic; `OkMeansVerified` and, as an action property, `CacheOnlyBecomesGood` for the
  download; `ModelsAreSound` for the registry and the adapters; `EmbedRestoresWidth`;
  and the liveness property `AllCallsEnd`. All the
  invariants include the `IInv` of their module (section 5).
* `streaming`: `StreamTurnsAreRight` (without failures the turns are the windows of the
  regions the batch detector would find), `NoAudioIsCarriedOver` (between regions the
  window buffer is empty, in one it is consecutive audio that ends at the last frame,
  and the turns come in order before it), `LatencyIsBounded`, `StreamLabelsSettle`,
  `SpeakersFollowHysteresis`, `SpeakersNeverRenumbered`, `BatchRegionsAreKept`. Six
  of them include parts of the inductive invariants of section 5.
* `kernels`: `ConvolvesEveryOutput`, `WritesAreDisjoint`, `ProductsAreExact`,
  `SeedsAreOwn`, `RecycledIsZero`, `SegmentationIsExact`, `FiltersAreOwn`, and for the
  packed weights the proof's `IInv` and `MultipliesOwnWeights`. `FiltersAreOwn`,
  `WritesAreDisjoint`, `SeedsAreOwn` and `RecycledIsZero` include `FilterIInv`,
  `ConvIInv`, `SeedIInv` and `PowersetIInv` (section 5).
* `offline`: `ClustersAreSound`, `AssignmentsAreBest`, `ScenesAreRecovered`,
  `FilesComeOut` (turns, units and overlap regions), `WordsAreTold` (each word in its place with its text,
  given to a turn, in the text of that turn; told once at a seam that no copy crosses), `RatesAreFair`,
  `AudioIsWhole`, `DoorsKeepTheirWord` (three doors, one pipeline, one code; the segmenter's geometry).

**Bounds, and why they are enough.**

* `intra_pool`: two callers and two workers. The code never has more than two
  workers, and two callers are what it takes to contend for the slot and to meet
  a stale batch; two calls each let a caller publish over its own last batch; `MaxN`
  of three is more indices than workers, so every thread can claim twice or
  never; one spurious wake-up may hit anyone.
* `calls`, pool: both callers and one worker may panic, one call each and `n` up to
  two: enough for a panic in the batch, in the serial loop and on the path
  without workers. Embedding: four clips with two frame counts and packs of two
  give one to three jobs of one or two clips, two workers, one or two files.
  Windows: 0, 1, 5 and 7 over one to three threads with a static share of at most
  two, so both ways to cut them, with uneven ends. Sessions: two recordings of
  three items over two threads each and one session, so threads starve
  each other. Files: three recordings, one or two jobs, every mixture of six
  kinds of recording. Download: two threads of one process, one call each, one
  crash, a model of two chunks and a cap of three: two chunks distinguish a prefix
  from the whole, one chunk above lets a hostile endpoint be cut off. Registry: a
  profile of two models signed in every way, files good, absent or of other bytes, strict or not,
  with the network and without, one edit by others. The registry of adapters: two stages, three names,
  three registrations in any order.
* `streaming`: frames of two samples in chunks of three and four, so that chunks
  cut frames and also coincide with them; a window of three frames with a hop of
  two, so that windows overlap, or of three, so that a region can end with an empty
  buffer; a cap of fourteen samples, so seven frames; two residents and two
  similarities; one flush and one failure anywhere. The window is no shorter
  than the minimum region: see the differences below. The cache alone has room for
  three, similarities on both sides of the threshold and of the margin, and six
  assignments with evictions between them: it fills, empties and fills again. The
  batch detectors run on every track of up to seven frames with a pause of two and
  a minimum of three, so two whole regions with a bridged and an unbridged pause fit.
* `kernels`: the widths of tiles, waves and channel groups are scaled down together
  (wide tile 8, narrow 4, pixel pairs 2, two channels a group, waves of two tiles, two
  tiles a row for the pointwise kernel), and rows go up to two and a half wide tiles,
  so every tail and overlap occurs; one to three workers; images of three to seven
  rows, so that the ring of three wraps; two calls. `ResNetForward` has the shipping
  table of 36 convolutions as it is, thirteen networks and two calls, the second
  possibly with another network. `PowersetForward` has four layers, two forwards and a pool of one
  buffer. Pack caches: two models of two layers of one shape over three addresses
  and two threads, room for one pack, so that each load reuses an address and the
  second layer meets a full cache. Filters: two models, sizes, addresses and threads and
  two keys: the code evicts as soon as the limit is reached. Quantizers: every quarter
  step far beyond saturation and the floats on either side of every half, with a significand of
  12 bits and six zero points: the smallest floats told apart are those about one half, which is
  where a rounded sum reaches the next step.
* `offline`: cost matrices up to three by three (the pipeline has three local
  speakers); scenes of five to seven frames with three speakers and two or three
  windows, under any naming of a second and third window; up to three turns and three
  words, including empty, nested, inverted and equal ones; merges of four
  embeddings with three scores; K-means and spectral clustering of two to five
  embeddings in four directions; soft and hard reassignment of four, two or three of
  them kept, to three speakers; streams of up to three tokens of six kinds, with
  and without times, in and out of order; recordings of six samples at two a second;
  transcripts of six words in chunks of four and eight with overlaps of none, two,
  three and four; every combination of the flags, environments and features listed at the
  head of `MCOffline`. Sizes that the code compares with are scaled: a speaker's
  embedding needs one or two samples, a segment two frames, 18 samples are too
  long a file, three undecodable packets a streak.

No guard of the code hides behind the constants that bound counters (`MaxRuns`,
`MaxCalls`, `MaxFetches`, `MaxSteps`, `CacheSteps`, `MaxAudio`, `MaxFrames`,
`MaxFlushes`, `MaxFailures`, `MaxCrashes`, `MaxSpurious`, `MaxEdits`,
`MaxRegistrations`). `CHECK_DEADLOCK FALSE` is in every configuration because all
of these systems may rest: nobody is obliged to call, a bounded number of calls
ends, and a case is one step.

**Fairness.** Only `calls` has a liveness property, and only `MCSpec` of `MCCalls`
states fairness: weak fairness of each thread's own steps (`ThreadStep`). The
operating system runs every thread that is not blocked, and closures and neural networks
return. A thread of the download that waits for the endpoint (`AtEndpoint`) is not fair:
`https_agent` (`src/models/download.rs:100-110`) sets no timeout, so nothing in the code ends a
request that is never answered. That no endpoint stays silent for ever is a hypothesis of
`AllCallsEnd` itself (`EndpointAnswers`), not of the specification; an endpoint that sends
for ever is allowed, and the cap ends it. Starting a call, panicking, crashing and waking spuriously are not fair. The polling checkout
and the process-wide download lock need no strong fairness, for a bounded number of calls
contends for them. `AllCallsEnd` excepts callers of a kernel pool that lost a
worker to a panic (section 4). `IntraPool`'s own `FairSpec` has the same fairness.

## 4. What the checks found

Seven runs are expected to fail, each against a sentence of the code.

* `intra_no_workers`: with no workers, `run(n, f)` executes `f(0)` only
  (`polyvoice-kernels/src/intra.rs:89`), whatever `n`, where line 82 says it runs
  `f(0..n)`. On a machine with one core `embed_batch` still asks for a width of
  three, and the other slices of the output channels are never computed.
* `filters_reload`: on Apple a filter holds a copy of the weights under their
  address and survives the model (`polyvoice-kernels/src/bnns.rs:178`), so a model
  loaded at that address convolves with the weights of its predecessor.
* `download_two_processes`: `DOWNLOAD_LOCK` is of one process, the `.partial` is of
  the directory (`src/models/download.rs:96`); a second process truncates what the
  first has verified and is about to rename, and the first reports success for a
  torn file.
* `bench_report`: the parallel bench sorts rows by stem, the serial one takes files
  by path (`src/bin/polyvoice-bench.rs:482`); `a-2.wav` and `a.wav` change places,
  where line 481 says the reports are identical.
* `conv_leftovers`: output channels that fill no group of four are gathered again after
  the shared gather, from a ring that holds the last three rows only
  (`polyvoice-kernels/src/conv_i8/s1.rs:501`). No shipping layer has such a count;
  the passing run leaves these shapes out.
* `stitch_permutation`: a window's "permutation" gives an unmatched local its own
  index though another local was mapped there (`src/segmentation/aggregator.rs:259`).
  `StitchRecovers` speaks of windows that hear each of their speakers in the
  overlap with their predecessor (`CanBeAligned`).
* `as_norm_flags`: `--as-norm` alone resolves to a z-score threshold of 4.0
  (`src/cli_common.rs:62`) that the builder refuses for every cosine clusterer.

Differences met while modelling that have no run of their own, because a
configuration avoids them or a property is stated around them.

Threads and calls:

* A worker that panics never decrements `left` (`intra.rs:75`), and its caller waits
  for ever with `RUN` held; all others go serial. A caller whose own `f` panics
  unwinds while workers may still hold the pointer to its closure (`intra.rs:130`),
  against "dispatch waits for every worker before env drops"; `NoUseAfterReturn` and
  the refinement of `ParallelFor` are therefore proved for pools in which only workers panic.
* Two callers that embed single files at once set and restore one process-wide width
  (`src/embedder/native.rs:179`): the first to finish narrows the other. When two
  workers panic, `thread::scope` panics past the restore, and the width stays three
  (`:258`). `EmbedRestoresWidth` is about one caller and calls that return.
* An endpoint that accepts a request and stays silent holds `DOWNLOAD_LOCK` for ever, for the agent
  has no timeout (`src/models/download.rs:100-110`): that call and every other that wants a model of
  this process never end, cache hits included, since the lock is taken before the cache is
  looked at. `AllCallsEnd` has the opposite as its hypothesis `EndpointAnswers`.
* The branches for a poisoned job lock and for a dropped pack are unreachable: no thread
  can panic with the lock held, and every slot is filled unless an error returned before.

Streaming:

* A window shorter than `min_speech_secs`, which no constructor forbids, emits turns of
  a region that is suppressed afterwards (`src/streaming/mod.rs:402`, against
  `src/vad/mod.rs:324`). The run and the theorem keep the window no shorter.
* An encoder error loses the turns the failed `feed` had already assigned, although
  the speaker cache has counted them (`:402`); a detector error consumes a frame
  it never counts, so every later timestamp is a frame early (`:358`). Hence
  `TurnsAreTheWindows` speaks of pipelines that met no failure, and the properties
  about order, isolation and latency of all.
* The promised latency (`src/streaming/mod.rs:16`, `src/latency.rs:7`) needs a hop no
  shorter than a detector frame, and the constructor asks only for a positive one
  (`:262-290`): with a shorter hop an encoder error leaves a full window behind, and a
  later `feed` too short for a frame returns `Ok` with it still waiting. The hops of the run
  and of the theorem cover a frame.
* `segment_speech` flushes at the number of frames, not of probabilities
  (`src/vad/mod.rs:397`): a detector that returns several per frame makes a region end
  before it starts. The run has one probability per frame.
* The prefer-current hysteresis keeps a current speaker that is below the match
  threshold and so hides a better one that matches (`src/streaming/cache.rs:175`);
  `SplitsOnlyWithinMargin` says exactly how far this goes.

Kernels:

* Rows of 1x1 layers longer than the tiles the zip kernel gathers (256 tiles of 32
  and one of 16 pixels) leave columns unwritten (`conv_i8/pointwise.rs`, `conv1x1_row_zip`). No shipping layer
  is near it; the passing run leaves these shapes out.
* A network that quantizes only some layers, with equal lattices in different places,
  would take a seed that is not its own: seeds are found by lattice and length only.
  The networks of the run have one lattice throughout or one per input.
* `take_conv` leaves `out_q` empty for every layer (`resnet34.rs:1019`), where `conv.rs:33-35` says that
  the second and the downsampling convolutions of a block carry it.
* AVX-512 code rounds by `trunc(x + copysign(0.5, x))` (`polyvoice-kernels/src/conv_i8/gemm.rs:481`), and
  for the float just below 0.5 that sum is 1.0 once rounded: it lands on step 1, with the scalar and
  NEON code on step 0, where line 476 says "Exact for |x| < 2^31" and `tensor.rs:164` "Bit-matches the
  scalar loop". `LatticesAgree` says so, and that no other float of those up to 275 steps differs.
  From 2^23 to 2^24 every odd whole number has a tie of its own, but saturates on the lattice.
* A square `linear.1` leaves the axis of a vector of scales ambiguous, for int32 weights only; of
  initializers with one name the last wins.

Offline:

* `AscStop::MinSecs` documents overlap-merged speech, the clustering loop sums durations (`src/ahc/mod.rs:91`).
* The soft reassignment of VBx (`clusterer/vbx.rs:350`) may empty a cluster and leave a
  gap in the labels. `enforce_cannot_link` with two pairs that share a local may put two
  that it separated together again; the run has one pair. The matching may give a local a cluster it shares no
  time with. Ties of sums over a `HashMap` are any ties.
* A pair of speakers of whom neither was heard alone is told by its secondary only
  (`src/resegmentation/mod.rs:280`, against `pipeline_v2/mod.rs:638`); a change
  from one pair straight to another loses an overlap; overlaps of a speaker with itself
  are miscounted by `detect_overlaps`; `merge_segments` sets the end to that of the next
  segment even if it ends earlier; an embedding window under 0.05 s leaves gaps. `Plain` scenes,
  and the inputs of `OverlapsAreFound`, are free of these.
* Touching overlap regions are merged when their *lists* of speakers are equal
  (`src/overlap/mod.rs:98`), and a list is in the order of coming in. With speaker 0 on [0,5]
  and [5,9] and speaker 1 on [3,6] the regions [3,5] and [5,6] stay apart, where line 70 says
  "with the same speaker set". `OverlapsAreFound` asks for regions that are maximal in the code's sense.
* Each copy of a word is judged by its own midpoint (`polyvoice-asr/src/lib.rs:165`), so a word that
  two chunks time differently may be told twice or not at all, where lines 163-164 say "exactly
  once". `EachWordIsToldOnce` says exactly when.
* Words that end before they start make sweep and scan
  differ. A token that is only the mark of a boundary is dropped with its mark
  (`polyvoice-asr-sherpa/src/lib.rs:171-177`), so the next token joins the word before. A word given to a turn that does not contain its middle is in no turn's text.
* The contract `ret.der <= 1.0` (`src/der/frame.rs:38`) fails with enough false alarms;
  a reference without scored frames scores zero. RTTM rounds start and duration each, so
  an end may move by a unit.
* The legacy pipeline's `num_speakers <= segments.len()` holds when a window is at least the
  minimum of speech and the detector's rate is the configured one; the tail of a region
  shorter than a hop after the last full window is never embedded.
* `read_onnx_metadata_props` always returns an empty map, so a model's own metadata never
  overrides the manifest's; a NaN makes the "has it changed" test true. `ensure` of an ad-hoc id is lenient about a missing signature
  online, `ensure_local` is not.
* The MCP server and the bench fetch a profile's models before the builder looks at the settings;
  the MCP server reports every failed build as a failed model load (`src/bin/polyvoice-mcp.rs:497-498`), the C
  interface tells them apart (`src/ffi/mod.rs:158-175`): without VBx compiled in the default build ends in code
  10 at the one and in 30 at the other. `DoorsAgree` asks for one code except there.
* `Partition` is exact where `f32` rounds: a draw of the code may also pick a duplicate whose
  distance came out as 1e-8 instead of 0.

## 5. What is proved

**The worker pool.** `IntraPoolProofs` proves, for every number of callers and workers and every value of
the bounds, from `IntraPoolAssumption` (the declarations of the constants) and `Workers # {}`,
whichever threads panic: type correctness, `ExactlyOnce`, `OneDispatcher`, `LeftIsExact` and that no
worker ever skips a batch; and where only workers panic (`PanicThreads \subseteq Workers`),
`NoUseAfterReturn` and that the pool implements `ParallelFor` (`Refinement`, also with
`MaxN > 0`). The hypotheses are needed: without workers `ExactlyOnce` is false of the code, and when
a caller panics `NoUseAfterReturn` is, as section 4 says. `MCCallsProofs` carries the invariant over to the
composition as `PanicsAreContained`.

The invariant `IInv` has one conjunct per idea. `IOwner`: the thread inside `dispatch`
is the one that holds `RUN`. `ISlot`: from the store on the slot holds the owner's
job. `IWorker`: a worker is at most one batch behind, and inside the batch it holds a
copy of the slot. `ILeft`: in a published batch `left` is the number of *busy*
workers, those that have yet to see the batch or are inside it, and outside one nobody
is busy; this is what makes a zero countdown safe, and neither it nor `ISlot` is
inductive alone: `ILeft` needs to know that a worker inside a batch is in the current
one, which needs that no batch is published while somebody is busy. `IClaim`:
claimed indices are below `next` and distinct. `IExec`: an index below `next` has been
executed once unless some thread is executing it now. When the caller finds
`left = 0` nobody is busy, so nobody runs an index, all below `n` were claimed, and
`IExec` gives `ExactlyOnce`.

Panics add two ideas. A dead worker stays *busy* and keeps its index for ever, so `left` never
reaches zero again, its caller never returns, and its index counts as being executed. A caller that
unwinds out of a batch leaves `RUN` poisoned: `ILeft` then says that `left` still counts the
abandoned batch, and since `try_lock` of a poisoned mutex goes serial, no call enters the slot while
workers finish with a call that is gone. `IOwner` keeps the slot without an owner from there on.

`Refinement` maps every `Call`, `Serial` and `Single` to
`Execute`, the three ways out to `End`, the rest to stuttering.

**The packed weights.** `MCKernelsProofs` proves `NoDeadPacks` and `MultipliesOwnWeights` for every number of
threads, models, layers and addresses and every cap, from `PackAssumption` alone. A
packed copy may be stale as long as its thread is going to notice: the invariant says
that a thread that has seen the latest generation holds packs of live models at their
own addresses (`NoDeadPacks`), and a thread past its check finds nothing but its
own operand at its operand's address (`OwnAtAddress`), even though the generation may
have moved since the check. The second is inductive because the model in use cannot be
dropped (`CallHoldsModel`) and live matrices do not share addresses (`Disjoint`).

**The filter pool.** `FiltersAreOwn`, for every number of threads, models, kinds and
addresses while a model stays where it was loaded: a filter is keyed by the address of its
weights, so that a pooled one applies the weights it is asked for follows from
live models lying apart and calls holding their model (`FilterIInv`). The size of the
pool is a count (`EvictedHaveRoom`): its keys, with the calls that will put a filter back
under a key evicted meanwhile, stay below the cap plus the number of threads.

**The integer convolution.** `WritesAreDisjoint`, for every shape of the layers and every
cut of the rows over threads: the tiles of two tasks never write one output, nothing
is written past it, and the tasks of one thread reach all of its share. `ConvIInv` ties the
place of a task in its share to the outputs it has written. An address determines
output channel, row and column, and the groups of four channels, the tiles of a row and
the waves of tiles are recursive functions whose bounds follow from the least index that
would break them.

**The seeds of the embedder.** `SeedsAreOwn`, for any networks, inputs and number of calls on
a thread: a convolution only takes the quantized input that was left for it. A seed says on
which lattice and how long the activations are, not whose they are, and the code relies on
this being enough. It is, for the networks of `SeedsTellApart`: the stem is computed in
floats, and where the first convolution of a block leaves its seed untouched (no int8
weights), the second one has none either, or another lattice. A network with int8 weights
for a second convolution but not for the first, on one lattice and of one length, would
compute with the wrong activations, so the hypothesis is needed; the shipping network has
int8 weights everywhere but in the stem. `SeedIInv` says that the seed of a block's first
convolution is there when the block begins (`SeedIsFresh`), whatever earlier blocks, calls and
networks left, and what channels and height the block gets (`ActivationsFit`), from which
the table of thirty-six convolutions is shown to fit the sixteen blocks it is dealt into.

**The shared buffers of the segmentation network.** `RecycledIsZero`, for every number of
threads, layers and slots of the pool: a buffer is cleared when it goes back
(`PoolIsCleared`) and grows with zeros, so a recurrence starts from zero whoever held
its state before. `PowersetIInv` follows a forward by its place in the script of 7 steps a
direction and 14 a layer: which buffers it holds, which of them are zero
(`DirectionStartsClean`), and that after each direction the rows hold exactly the layers
before (`LayersAreWhole`), which alternate between two buffers.

**The regions of a track.** `BatchRegionsAreKept`: `segment_speech` and `binarize_frames`
return the regions defined on the whole track, those that last long enough, in order. The
tracker sees one frame at a time, so the invariant says what it knows of the frames before:
it is in a region exactly when that region is open (`OpenAt`), and outside one when no
active frame before is within reach of the next (`NoReach`); what was collected are the
regions `Closed` so far. A NaN is speech exactly while a speech frame is in reach
(`NanFollowsSpeech`), so that with NaN the track itself depends on the tracker. For
`segment_speech` the theorem assumes a detector that gives one score per frame
(`OneProbPerFrame`, section 4).

**The fan-outs.** The theorems speak of the compositions in `MCCalls`, whose constants
are free, so of any number of callers, threads, items, packs and sessions.

`ClipsKeepTheirSlots` (`EmbedBatch`): a slot holds its own clip's embedding or error, a
call that succeeds has filled every slot, and "native embed dropped a clip" is
unreachable. `SlotsOwnClips` alone is not inductive: that a worker's rows land in the
right slots rests on `ResultsAreOwn`, and that none is missing on `NothingIsLost`, by
which each clip of a running call is in its slot, in a job on the stack, in the hands of a worker
not yet joined, or among its results. `JoinedAreDone` and `WorkersInOrder` turn "all are
joined" into "the stack is empty and nobody holds anything". The heart of a
step is a counting lemma, `InOrderIsOnto`: pairing the rows of the packed forward with the
clips of the job that are left, in order, reaches each of them once.
`EmbedRestoresWidth` is the action property, from `WidthIsOwn`.

`RowsAreTheWindows` (`WindowFanOut`): the rows of a call that returns are those of its
windows, in order, whichever way the windows are cut, and "dropped a pack" is never
returned. `CeilBounds` and `ChunksPartition` say of the two ways to cut that the packs
cover 1 to n without overlap; `SplitIsInOrder` that what has been appended so far ends where
the next thread's pack begins; `QueueDropsNone` that a window whose slot is empty is
underway, in the queue, in a thread's hands, or among the rows of one not yet joined.

`SessionsAreConserved` (`SessionPool`): each session is in the stack or with one thread,
whatever item fails, panics or is cut off, and a call's results are of its own items, in
order. `HeldWhileUsed` and `OnePlace` are about all calls at once, `ChunksFollow`,
`ResultsAreOwn` and `OutInOrder` about each.

`FilesAsSerial` (`FileQueue`): for any recordings, facts about them and number of jobs, a
parallel run that succeeds scores the files a serial run scores, each once and with the same
scorer, counts the others, fails exactly when one of them fails, and begins at most one more file
per other worker after an error. `OnePlace` says that a recording is in the queue, in one
worker's hands or past; `PastIsRecorded` that a past one is a row, counted or the error;
`WorkersEnd` that a worker ends by itself only if the queue is empty or there is an
error, and that the files begun late leave room for the workers about to take one. The two
sorts are shown to be permutations from the order itself: `Ranks` says that in a strict order of a
finite set the numbers of members before each are 0 to its size less one, and
`BeforeIrreflexive`, `BeforeTransitive` and `BeforeTotal` that byte strings are so ordered. The order of the
rows is not claimed: that the reports differ in it is a finding.

**The download.** `OkMeansVerified` and the action property `CacheOnlyBecomesGood` hold for
any number of threads, chunks, cap and failures, through crashes and power losses, under
one hypothesis, `SameProcess`: the threads share a process. For two processes the run
`download_two_processes` shows both false. `LockIsHeld` says that a thread past
the lock is alone, `PartialIsHashed` that what it has hashed is what the staging
file holds, `NamesDiffer` that writing there does not touch the destination's inode, and
`WithinCap` that the file on disk is no longer than the cap.

**The registry and the adapters.** `ModelsAreSound`, for any manifests, PLDA set, lengths and edits by
others: a request that succeeds has seen every file it names, in order, each of the manifest's hash and
with a signature accepted, and signed where the registry is strict and the request a profile
or without the network. `RegistryIInv` says of a request under way that what it has seen and what is left
spell out what was asked (`SeenOrToDo`), that the two models of an accepted profile are
signed if they must be (`Asked`), and that what was seen was verified at that moment
(`SeenWasVerified`): others may replace the file afterwards, and the code does not look again. A
profile's models are known to the manifest because `from_toml_str` refuses dangling ones. For
the adapters `AliasesLead` is enough: names are replaced and never taken away. The only
assumption is that the PLDA set is a sequence (`RegistryAssumption`).

**The speaker cache.** `SpeakersFollowHysteresis` and `SpeakersNeverRenumbered`, for any cap,
similarities, threshold and margin. The invariant `CacheIInv` remembers of the last
assignment only that it chose within the margin or found nobody (`LastIsSound`). What the code
computes with `max_by` over the residents is a maximum of a finite set of integers; that
one exists is proved by the least-element argument, not by induction over the list.

**The stream.** For any frame size, windows, hops, chunk sizes, caps and any sequence of
decisions and failures, in `MCStreaming`:

* `NoAudioIsCarriedOver`. `AudioIInv`: `LoopFollowsRegion` ties the program counter to the
  tracker, `BufferEndsAtFrame` the window buffer to the frames counted,
  `TurnsBeforeBuffer` the turns to the buffer; from these `TurnsInOrder` and, between regions, an
  empty buffer follow, after failures as well. `AudioInPlace` says of a stream without
  failures that every sample is the one its position names, and so that every turn was
  embedded from its own audio. The lemmas `AdvanceCases` and `FlushCases` reduce the
  tracker to the events it can raise.
* `StreamLabelsSettle`. `LabelsFollowHits` relates two components: a speaker has at least as
  many hits in the cache as turns in the history, with more hits than turns when a failed `feed`
  lost some. Each turn that is added needs the cardinality of that speaker's turns to grow
  by one, and the cache's answer (`AssignAnswers`).
* `LatencyIsBounded`, assuming `HopsCoverAFrame` (section 4).
* `StreamTurnsAreRight`, assuming `WindowsCoverMinSpeech` (section 4): the two facts of a
  session that relate all its turns to all its decisions. `TurnsSoFar` states what was told at
  every step: the windows of the regions before the one in hand, and those cut from it,
  one for each hop between its start and the buffer's. That this is inductive
  rests on `FollowsTheTrack` (the tracker is in the region of the track that is open, as in
  `BatchRegionsAreKept`, with flushes as cuts), on `BufferMovesByHops` and on `ClosingIsKept`:
  when a region ends, the windows cut and the rest of the buffer are
  `WindowsOf` that region. The other regions must not change: a region that is closed
  stays so, with its end and length, however the track grows, and the frames of a new
  one are never joined to an earlier. A short region has told nothing, because with windows no
  shorter than `min_speech` none was full before it closed. Each window is told
  once because the starts of the turns rise strictly (`TurnsInOrder`), so the number of turns is
  that of the spans.

`IInv` of every module, `CacheIInv`, `AudioIInv`, `LabelIInv` and `TurnIInv` are also checked by TLC, in
the properties of the runs. The constants carry the assumptions their code justifies, each
named in its module (`WindowFanOutAssumption`, `SessionPoolAssumption`, `FileQueueAssumption`,
`ModelDownloadAssumption`, `SpeakerCacheAssumption`, `StreamingAssumption`, `ResNetAssumption`, ...): counts are natural
numbers, packs and hops are positive, a hop is no longer than its window, the model is no
longer than the cap of its download, similarities are integers, the audio of a session is shorter
than `usize` counts, a file stem is a byte string that is not empty.

Only model-checked:

* liveness (`AllCallsEnd`, under its hypothesis): fairness and `ENABLED` are out of the prover's reach;
* two processes in one cache directory, of which the properties are false;
* what a recursive definition computes for every input: a matching on every matrix, a fold over every list of
  turns, a convolution over every image. These are inductions over data, which the installed provers
  cannot instantiate, and the offline modules reach the matching of `Clusters`, whose search is `RECURSIVE`;
* `ConvolvesEveryOutput`, `ProductsAreExact` and `SegmentationIsExact` of `MCKernels`: results of
  recursive sums over data;
* the eight invariants of `MCOffline`, from `ClustersAreSound` to `DoorsKeepTheirWord`: they speak of what
  algorithms compute for every input.

## 6. What is not modelled

* Real arithmetic: filter banks and Fourier transforms, PLDA and VBx iterations,
  AS-norm statistics, the statistics pool and last layer of the embedder, layer
  normalisation and the approximations of exp and tanh, resampled samples, the
  eigenvectors of a spectrum beyond eigenvalue 0. It has no state and no order.
* Text: formats other than RTTM, the MCP protocol, help and log output, the bytes of
  ONNX files below a field (varints, the memory map).
* The BNNS graph (one context of an external framework behind one lock per process),
  the tract runtime, the recognizers behind `polyvoice-asr`, Python conversions.
* Weak memory: the atomics of `intra.rs` are sequentially consistent in the model.
* The lifetime of a C handle, which is the caller's; the metric `label_flip_rate`;
  session construction; the mapping of active speakers to classes in `binarize.rs`.

## 7. Plan

The modelling follows the code's own layers and is complete up to section 6. What could
still be proved is `ConvolvesEveryOutput` of `ConvI8` beyond `WritesAreDisjoint`: that every output is also reached,
for which the ring of gathered rows would have to be followed through a scan.
