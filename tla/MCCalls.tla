------------------------------ MODULE MCCalls ------------------------------
(* The calls that wait for other threads, one at a time: the fan-outs over the *)
(* clips of a recording (EmbedBatch), its windows, the sessions two files      *)
(* share and the files of a dataset; the kernels' pool whose closures panic;   *)
(* and the download of a model.  And what hands a model out: the registry over *)
(* its directory and the names of the adapters.  A behaviour is of one part;  *)
(* the others stay idle.                                                      *)
EXTENDS EmbedBatch, TLC

CONSTANTS
  WindowCounts, ThreadCounts, StaticMax, QueuePack, MaxThreads,
  Files, PoolThreads, Sessions, ItemCounts, BatchSizes,
  Stems, Facts, Jobs, MaxJobs,
  PanicCallers, PanicWorkers, PanicThreads, MaxN, MaxRuns, MaxSpurious, NoThread,
  Processes, Fetchers, ProcessOf, Signatures, Size, Cap, MaxFetches, MaxCrashes, NoFile,
  Manifests, PldaIds, DefaultMaxBytes, Lengths, MaxEdits,
  Stages, AdapterNames, MaxRegistrations,
  t1, t2, p1

VARIABLES
  part,
  wPacks, wWorker, wHeld, wLocal, wNext, wSlots, wCall,
  sFree, sCall, sWorker, sNext,
  fFacts, fQueue, fWorker, fHeld, fCollected, fSkipped, fErr, fLate, fIntra, fRet,
  pBatch, pJob, pNext, pLeft, pMu, pRunLock, pPc, pLim, pEnv, pIdx, pSeen, pGen, pExec, pSpurious,
  dSignature, dLock, dPc, dName, dInode, dFd, dGot, dCalls, dCrashes,
  rManifest, rStrict, rOnline, rFiles, rCall, rEdits,
  aFactories, aAliases, aRegistrations

windowVars == <<wPacks, wWorker, wHeld, wLocal, wNext, wSlots, wCall>>
sessionVars == <<sFree, sCall, sWorker, sNext>>
fileVars == <<fFacts, fQueue, fWorker, fHeld, fCollected, fSkipped, fErr, fLate, fIntra, fRet>>
poolVars == <<pBatch, pJob, pNext, pLeft, pMu, pRunLock, pPc, pLim, pEnv, pIdx, pSeen, pGen, pExec, pSpurious>>
fetchVars == <<dSignature, dLock, dPc, dName, dInode, dFd, dGot, dCalls, dCrashes>>
registryVars == <<rManifest, rStrict, rOnline, rFiles, rCall, rEdits>>
adapterVars == <<aFactories, aAliases, aRegistrations>>
modelVars == <<registryVars, adapterVars>>
allVars == <<part, vars, windowVars, sessionVars, fileVars, poolVars, fetchVars, modelVars>>

\* The instances of a module with proofs bring its theorems, for MCCallsProofs.
Window == INSTANCE WindowFanOutProofs WITH
  packs <- wPacks, worker <- wWorker, held <- wHeld, local <- wLocal,
  next <- wNext, slots <- wSlots, call <- wCall
Session == INSTANCE SessionPoolProofs WITH
  free <- sFree, call <- sCall, worker <- sWorker, next <- sNext
File == INSTANCE FileQueue WITH
  facts <- fFacts, queue <- fQueue, worker <- fWorker, held <- fHeld,
  collected <- fCollected, skipped <- fSkipped, err <- fErr, late <- fLate,
  intra <- fIntra, ret <- fRet
Pool == INSTANCE IntraPoolProofs WITH
  Callers <- PanicCallers, Workers <- PanicWorkers,
  batch <- pBatch, job <- pJob, next <- pNext, left <- pLeft, mu <- pMu, runLock <- pRunLock,
  pc <- pPc, lim <- pLim, env <- pEnv, idx <- pIdx, seen <- pSeen, gen <- pGen, exec <- pExec,
  spurious <- pSpurious
Fetch == INSTANCE ModelDownloadProofs WITH
  Threads <- Fetchers, MaxCalls <- MaxFetches,
  signature <- dSignature, lock <- dLock, pc <- dPc, name <- dName, inode <- dInode, fd <- dFd,
  got <- dGot, calls <- dCalls, crashes <- dCrashes
Model == INSTANCE Registry WITH
  Rates <- {}, Quarters <- {},
  manifest <- rManifest, strict <- rStrict, online <- rOnline, files <- rFiles, call <- rCall, edits <- rEdits,
  factories <- aFactories, adapterAliases <- aAliases, registrations <- aRegistrations

\* The constants of the parts are what they take them to be.
ASSUME FetchAssumption == Fetch!ModelDownloadAssumption
ASSUME WindowAssumption == Window!WindowFanOutAssumption
ASSUME SessionAssumption == Session!SessionPoolAssumption
ASSUME FilesAssumption == File!FileQueueAssumption
ASSUME PoolAssumption == Pool!IntraPoolAssumption
ASSUME ModelAssumption == Model!RegistryAssumption

-----------------------------------------------------------------------------
\* Clips are numbered from 1.
FourClips == 1 .. 4

\* Three recordings: a.wav, a-2.wav, and b.x.wav, whose prefix is b.
ThreeStems == {<<97>>, <<97, 45, 50>>, <<98, 46, 120>>}
OtherStems == {<<97>>, <<99, 50>>, <<98, 46, 120>>}

Scored == [rttm |-> TRUE, ids |-> ThreeStems \cup OtherStems, uem |-> <<"none">>, skipOverlap |-> FALSE, runs |-> TRUE]
UnderUem(f) == [f EXCEPT !.uem = <<"map", {<<97>>, <<98>>}>>]
SomeFacts ==
  {Scored, [Scored EXCEPT !.rttm = FALSE], [Scored EXCEPT !.runs = FALSE], [Scored EXCEPT !.skipOverlap = TRUE],
   UnderUem(Scored), UnderUem([Scored EXCEPT !.ids = {<<97>>, <<98>>}])}

OneProcess == t1 :> p1 @@ t2 :> p1

\* Manifests, each model signed in every way; and one whose profile dangles.
Entry(signature, length) == [sha |-> "hex64", size |-> length, signature |-> signature]
MobileOf(embedder) == "mobile" :> [segmenter |-> "seg", embedder |-> embedder]
MCManifests ==
  {[schema |-> "v2", profiles |-> MobileOf("emb"), aliases |-> "seg" :> ("latest" :> "seg"),
    models |-> ("seg" :> Entry(a, 1)) @@ ("emb" :> Entry(b, 0))] : a, b \in {"none", "valid", "bad"}}
  \cup {[schema |-> "v2", profiles |-> MobileOf("gone"), aliases |-> <<>>, models |-> "seg" :> Entry("none", 1)]}
MCPldaIds == <<"seg", "emb">>

-----------------------------------------------------------------------------
Idle == <<"idle">>

EmbedIdle ==
  /\ files = Idle /\ intra = Idle /\ pc = Idle /\ calls = Idle /\ jobs = Idle /\ worker = Idle
  /\ held = Idle /\ local = Idle /\ next = Idle /\ out = Idle /\ ret = Idle
WindowIdle ==
  /\ wPacks = Idle /\ wWorker = Idle /\ wHeld = Idle /\ wLocal = Idle /\ wNext = Idle
  /\ wSlots = Idle /\ wCall = Idle
SessionIdle == sFree = Idle /\ sCall = Idle /\ sWorker = Idle /\ sNext = Idle
FileIdle ==
  /\ fFacts = Idle /\ fQueue = Idle /\ fWorker = Idle /\ fHeld = Idle /\ fCollected = Idle
  /\ fSkipped = Idle /\ fErr = Idle /\ fLate = Idle /\ fIntra = Idle /\ fRet = Idle

PoolIdle ==
  /\ pBatch = Idle /\ pJob = Idle /\ pNext = Idle /\ pLeft = Idle /\ pMu = Idle /\ pRunLock = Idle
  /\ pPc = Idle /\ pLim = Idle /\ pEnv = Idle /\ pIdx = Idle /\ pSeen = Idle /\ pGen = Idle
  /\ pExec = Idle /\ pSpurious = Idle
FetchIdle ==
  /\ dSignature = Idle /\ dLock = Idle /\ dPc = Idle /\ dName = Idle /\ dInode = Idle
  /\ dFd = Idle /\ dGot = Idle /\ dCalls = Idle /\ dCrashes = Idle
RegistryIdle ==
  /\ rManifest = Idle /\ rStrict = Idle /\ rOnline = Idle /\ rFiles = Idle /\ rCall = Idle /\ rEdits = Idle
AdaptersIdle == aFactories = Idle /\ aAliases = Idle /\ aRegistrations = Idle
ModelsIdle == RegistryIdle /\ AdaptersIdle

MCInit ==
  \/ part = "embed" /\ Init /\ WindowIdle /\ SessionIdle /\ FileIdle /\ PoolIdle /\ FetchIdle /\ ModelsIdle
  \/ part = "windows" /\ EmbedIdle /\ Window!Init /\ SessionIdle /\ FileIdle /\ PoolIdle /\ FetchIdle /\ ModelsIdle
  \/ part = "sessions" /\ EmbedIdle /\ WindowIdle /\ Session!Init /\ FileIdle /\ PoolIdle /\ FetchIdle /\ ModelsIdle
  \/ part = "files" /\ EmbedIdle /\ WindowIdle /\ SessionIdle /\ File!Init /\ PoolIdle /\ FetchIdle /\ ModelsIdle
  \/ part = "pool" /\ EmbedIdle /\ WindowIdle /\ SessionIdle /\ FileIdle /\ Pool!Init /\ FetchIdle /\ ModelsIdle
  \/ part = "fetch" /\ EmbedIdle /\ WindowIdle /\ SessionIdle /\ FileIdle /\ PoolIdle /\ Fetch!Init /\ ModelsIdle
  \/ part = "registry" /\ EmbedIdle /\ WindowIdle /\ SessionIdle /\ FileIdle /\ PoolIdle /\ FetchIdle
     /\ Model!Init /\ AdaptersIdle
  \/ part = "adapters" /\ EmbedIdle /\ WindowIdle /\ SessionIdle /\ FileIdle /\ PoolIdle /\ FetchIdle
     /\ RegistryIdle /\ Model!AdaptersInit

InEmbed(A) == part = "embed" /\ A /\ UNCHANGED <<part, windowVars, sessionVars, fileVars, poolVars, fetchVars, modelVars>>
InWindows(A) == part = "windows" /\ A /\ UNCHANGED <<part, vars, sessionVars, fileVars, poolVars, fetchVars, modelVars>>
InSessions(A) == part = "sessions" /\ A /\ UNCHANGED <<part, vars, windowVars, fileVars, poolVars, fetchVars, modelVars>>
InFiles(A) == part = "files" /\ A /\ UNCHANGED <<part, vars, windowVars, sessionVars, poolVars, fetchVars, modelVars>>
InPool(A) == part = "pool" /\ A /\ UNCHANGED <<part, vars, windowVars, sessionVars, fileVars, fetchVars, modelVars>>
InFetch(A) == part = "fetch" /\ A /\ UNCHANGED <<part, vars, windowVars, sessionVars, fileVars, poolVars, modelVars>>
InRegistry(A) ==
  part = "registry" /\ A /\ UNCHANGED <<part, vars, windowVars, sessionVars, fileVars, poolVars, fetchVars, adapterVars>>
InAdapters(A) ==
  part = "adapters" /\ A /\ UNCHANGED <<part, vars, windowVars, sessionVars, fileVars, poolVars, fetchVars, registryVars>>

MCNext ==
  \/ InEmbed(Next)
  \/ InWindows(Window!Next)
  \/ InSessions(Session!Next)
  \/ InFiles(File!Next)
  \/ InPool(Pool!Next)
  \/ InFetch(Fetch!Next)
  \/ InRegistry(Model!Next)
  \/ InAdapters(Model!AdaptersNext)

\* The threads of a part, numbered; the embed part has one caller.
FileSeq == SetToSeq(Files)
FetcherSeq == SetToSeq(Fetchers)
PoolSeq == SetToSeq(PanicCallers) \o SetToSeq(PanicWorkers)
NumThreads == 6

PoolStep(t) ==
  \/ t \in PanicCallers /\ Pool!RunStep(t)
  \/ t \in PanicWorkers /\ Pool!WorkerStep(t)
  \/ Pool!LoopStep(t)

ThreadStep(k) ==
  \/ InEmbed(k = 1 /\ \E c \in Callers : Caller(c))
  \/ InEmbed(k - 1 \in Workers /\ \E c \in Callers : Work(c, k - 1))
  \/ InWindows(k = 1 /\ Window!Caller)
  \/ InWindows(k - 1 \in 1 .. MaxThreads /\ Window!Work(k - 1))
  \/ InSessions(k <= Len(FileSeq) /\ Session!Caller(FileSeq[k]))
  \/ InSessions(\E f \in 1 .. Len(FileSeq), w \in 1 .. PoolThreads :
                  k = Len(FileSeq) + (f - 1) * PoolThreads + w /\ Session!Work(FileSeq[f], w))
  \/ InFiles(k = 1 /\ File!Return)
  \/ InFiles(k - 1 \in 1 .. MaxJobs /\ File!Work(k - 1))
  \/ InPool(k <= Len(PoolSeq) /\ PoolStep(PoolSeq[k]))
  \/ InFetch(k <= Len(FetcherSeq) /\ ~Fetch!AtEndpoint(FetcherSeq[k]) /\ Fetch!Step(FetcherSeq[k]))

\* A thread that can run is scheduled; nothing makes a caller start a call, or
\* the endpoint of a download answer.
MCFairness == \A k \in 1 .. NumThreads : WF_allVars(ThreadStep(k))

MCSpec == MCInit /\ [][MCNext]_allVars /\ MCFairness

-----------------------------------------------------------------------------
\* EmbedBatch!SlotsOwnClips and NeverDropsAClip, with the rest of their inductive
\* invariant: a slot holds its own clip, and a clip without a result always
\* comes from a panic (embedder/native.rs).
ClipsKeepTheirSlots == part = "embed" => IInv

\* WindowFanOut!RowsAreTheWindows, with its inductive invariant: the rows of a
\* recording come back in window order and none is dropped (segmentation/native.rs).
RowsAreTheWindows == part = "windows" => Window!RowsAreTheWindows /\ Window!IInv

\* SessionPool!SessionsAreConserved and ResultsInOrder, with their inductive
\* invariant: a session has one holder and is never lost, and results keep their order (utils/mod.rs).
SessionsAreConserved ==
  part = "sessions" => Session!SessionsAreConserved /\ Session!ResultsInOrder /\ Session!IInv

\* FileQueue!SameFilesAsSerial and StopsAfterError, with their inductive invariant: the
\* parallel bench scores what the serial one scores and stops at an error (polyvoice-bench.rs).
FilesAsSerial == part = "files" => File!SameFilesAsSerial /\ File!StopsAfterError /\ File!IInv

\* FileQueue!SameReportAsSerial: "so the report is identical to the serial run".
SameReportAsSerial == part = "files" => File!SameReportAsSerial

\* "Single-file runs set intra-op width to 3 for this scope and restore 1.
\* Multi-file runs leave the process-wide count alone": a call of embed_batch
\* that returns, with Ok or with Err, leaves the width it found.
EmbedRestoresWidth ==
  [][part = "embed" => \A c \in Callers :
       pc'[c] = "returned" /\ pc[c] # "returned" => intra' = InitialIntra]_allVars

\* IntraPool!ExactlyOnce and OneDispatcher where closures panic, with their
\* inductive invariant: calls that return have run every index once, and no call
\* enters a slot that workers of an unwound call may still use (intra.rs).
PanicsAreContained == part = "pool" => Pool!ExactlyOnce /\ Pool!OneDispatcher /\ Pool!IInv

\* ModelDownload!OkMeansVerified and PartialWithinCap, with their inductive
\* invariant: a download that succeeds left a complete file with an accepted
\* signature, and the staging file never outgrows the cap (models/download.rs).
OkMeansVerified == part = "fetch" => Fetch!OkMeansVerified /\ Fetch!PartialWithinCap /\ Fetch!IInv

\* ModelDownload!CacheOnlyBecomesGood: short of a power loss the cached file
\* only ever changes into the complete model (models/download.rs).
CacheOnlyBecomesGood == [][part = "fetch" => Fetch!BecomesGood]_allVars

\* Registry!OkFilesWereVerified, NothingIsFetchedInVain and
\* ResolvedCanBeCreated, with their inductive invariants: a model that is handed out is
\* the manifest's and signed where that is asked for, and a name that resolves
\* can be created (models/mod.rs, adapter.rs).
ModelsAreSound ==
  /\ part = "registry" => Model!RegistryIInv /\ Model!OkFilesWereVerified /\ Model!NothingIsFetchedInVain
  /\ part = "adapters" => Model!AdaptersIInv /\ Model!ResolvedCanBeCreated

\* The calls of a part, numbered: the k-th one waits for other threads; nobody
\* waits in the registry and the adapters.
Waits(k) ==
  CASE part = "embed" -> k = 1 /\ \E c \in Callers : pc[c] = "join"
    [] part = "windows" -> k = 1 /\ wCall.ret = "joining"
    [] part = "sessions" -> sCall[FileSeq[k]].ret = "joining"
    [] part = "files" -> k = 1 /\ fRet.state = "running"
    [] part = "pool" -> pPc[PoolSeq[k]] = "tryLock"
    [] part = "fetch" -> dPc[FetcherSeq[k]] = "lock"
    [] part \in {"registry", "adapters"} -> FALSE

\* And it has ended; a worker that died of a panic keeps its pool's callers.
Ended(k) ==
  CASE part = "embed" -> \A c \in Callers : pc[c] \in Resting
    [] part = "windows" -> wCall.ret \in {"ok", "failed", "panicked", "unwound"}
    [] part = "sessions" -> sCall[FileSeq[k]].ret \in {"ok", "failed", "panicked"}
    [] part = "files" -> fRet.state \in {"ok", "error", "unwound"}
    [] part = "pool" -> pPc[PoolSeq[k]] \in {"returned", "unwound"} \/ \E w \in PanicWorkers : pPc[w] = "dead"
    [] part = "fetch" -> dPc[FetcherSeq[k]] = "idle"
    [] part \in {"registry", "adapters"} -> TRUE

\* ModelDownload!EndpointAnswers: no endpoint stays silent for ever.
EndpointAnswers ==
  \A k \in 1 .. 2 : WF_allVars(InFetch(Fetch!AtEndpoint(FetcherSeq[k]) /\ Fetch!Step(FetcherSeq[k])))

\* Every call ends, though threads fail, panic or poll for a session (a checkout
\* has no queue), and though closures panic, unless the pool lost a worker to
\* one; and a download, though an endpoint never stops sending, unless one
\* stays silent for ever: no timeout ends that call, or those behind its lock.
AllCallsEnd == EndpointAnswers => \A k \in 1 .. 2 : Waits(k) ~> Ended(k)
=============================================================================
