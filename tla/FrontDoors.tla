------------------------------ MODULE FrontDoors ------------------------------
(***************************************************************************)
(* From what a caller asks for to a pipeline that runs: the settings and   *)
(* the builder of pipeline_v2, the factory of clusterers, and the three    *)
(* front doors - the command line (cli_common.rs, bin/polyvoice.rs), the   *)
(* MCP server (bin/polyvoice-mcp.rs) and the C interface (ffi/mod.rs).     *)
(*                                                                         *)
(* An optional value is a set of at most one.  Thresholds are hundredths,  *)
(* z-scores too.  A world is what the process finds: `online`, whether the *)
(* registry may fetch; `cached` and `served`, the models on disk and in    *)
(* reach; `env`, the environment variables that are set; `files`, which    *)
(* files are good; `features`, what was compiled in.                       *)
(***************************************************************************)
EXTENDS Integers, Sequences, FiniteSets, FiniteSetsExt, SequencesExt

Or(optional, default) == IF optional = {} THEN default ELSE CHOOSE x \in optional : TRUE

\* The first check of a list of <<failed, error>> that failed.
FirstError(checks) ==
  LET bad == {i \in DOMAIN checks : checks[i][1]} IN IF bad = {} THEN "ok" ELSE checks[Min(bad)][2]

-----------------------------------------------------------------------------
(* Settings.                                                               *)

DefaultAhc == 45
DefaultTopN == 100
DomainProfiles == [voxconverse |-> [raw |-> 45, z |-> {400}, topN |-> 100],
                   ami |-> [raw |-> 55, z |-> {500}, topN |-> 100],
                   callhome |-> [raw |-> 50, z |-> {}, topN |-> 100]]

DefaultConfig(features) ==
  [profile |-> "balanced", rate |-> 16, clusterer |-> IF "vbx" \in features THEN "vbx" ELSE "ahc",
   threshold |-> DefaultAhc, maxSpeakers |-> 20, minCluster |-> 1, minSpeech |-> 25, maxGap |-> 50,
   pool |-> 1, plda |-> {}, window |-> {}, provider |-> "cpu", asNorm |-> {}, domain |-> {},
   binarization |-> {}, embedder |-> {}, reconstruct |-> FALSE]

\* A value that is not finite is outside its range too.
ValidateSettings(c) ==
  LET Bad(S, OK(_)) == \E x \in S : ~OK(x)
      Unit(x) == x \in 0 .. 100
  IN FirstError(<<
       <<c.profile # "custom" /\ c.rate # 16, "sample_rate">>,
       <<c.maxSpeakers = 0, "max_speakers">>,
       <<c.minCluster = 0, "min_cluster_size">>,
       <<c.minSpeech < 0, "min_speech_secs">>,
       <<c.maxGap < 0, "max_gap_secs">>,
       <<c.pool = 0, "embedder_pool_size">>,
       <<Bad(c.window, LAMBDA w : w > 0), "embed_window_secs">>,
       <<c.clusterer = "ahc" /\ c.threshold \notin -100 .. 100, "clusterer.threshold">>,
       <<c.provider # "cpu", "execution_provider">>,
       <<Bad(c.binarization, LAMBDA b : Unit(b.onset)), "binarization.onset">>,
       <<Bad(c.binarization, LAMBDA b : Unit(b.offset)), "binarization.offset">>,
       <<Bad(c.binarization, LAMBDA b : b.minOn >= 0), "binarization.min_duration_on">>,
       <<Bad(c.binarization, LAMBDA b : b.minOff >= 0), "binarization.min_duration_off">>,
       <<Bad(c.asNorm, LAMBDA n : n.topN >= 2), "as_norm.top_n">>>>)

\* PipelineBuilder::validate; custom has the components that were injected.
Validate(b) ==
  LET settings == ValidateSettings(b.config)
      Parts == {"segmenter", "embedder", "clusterer"}
  IN IF settings # "ok" THEN "InvalidSetting"
     ELSE IF b.config.profile = "custom"
     THEN FirstError(<< <<b.registry, "RegistryInCustomProfile">>, <<Parts \ b.custom # {}, "MissingCustomComponent">> >>)
     ELSE FirstError(<< <<Parts \cap b.custom # {}, "CustomComponentInProfile">>, <<~b.registry, "MissingRegistry">> >>)

\* resolve_clusterer_kind: the threshold a domain profile puts in the place of
\* the configured one.
ResolveThreshold(c) ==
  IF c.clusterer # "ahc" \/ c.domain = {} THEN c.threshold
  ELSE LET domain == DomainProfiles[Or(c.domain, "")]
       IN IF c.asNorm # {} THEN Or(domain.z, c.threshold) ELSE domain.raw

-----------------------------------------------------------------------------
(* Building.  What has to be read is a list of [id, error, fetch]: a model  *)
(* to ensure or a file to open, and the error it is if that fails.          *)

Model(id, error) == [id |-> id, error |-> error, fetch |-> TRUE]
File(id, error) == [id |-> id, error |-> error, fetch |-> FALSE]
Fails(error) == [id |-> "nothing", error |-> error, fetch |-> FALSE]

\* build_native_stages and load_native_embedder_override
StageReads(c, features) ==
  <<Model("powerset_int8", "Load")>> \o
  (IF c.embedder = {} THEN <<Model("resnet34_int8", "Load")>>
   ELSE IF c.embedder \cap {"cam_pp_int8", "cam_pp_fp32"} = {} THEN <<Fails("UnknownModel")>>
   ELSE IF "tract" \in features THEN <<Model(Or(c.embedder, ""), "Load")>>
   ELSE <<Fails("Load")>>)

\* load_as_norm_cohort, and the order in which VBx looks for its PLDA.
CohortRead(n, env) ==
  IF n.cohort # {} THEN File(Or(n.cohort, ""), "Load")
  ELSE IF "cohort" \in env THEN File("env cohort", "Load") ELSE Model("asnorm_cohort", "Registry")

PldaRead(c, world) ==
  IF c.plda # {} THEN File(Or(c.plda, ""), "Load")
  ELSE IF "plda" \in world.env THEN File("env plda", "Load")
  ELSE IF "download" \in world.features /\ world.online THEN Model("vbx_plda", "Load") ELSE Fails("Load")

\* build_profile_clusterer
ClustererReads(c, world) ==
  CASE c.clusterer = "ahc" -> IF c.asNorm = {} THEN <<>> ELSE <<CohortRead(Or(c.asNorm, ""), world.env)>>
    [] c.clusterer = "nme-sc" -> IF "spectral" \in world.features THEN <<>> ELSE <<Fails("UnknownModel")>>
    [] c.clusterer = "vbx" -> IF "vbx" \in world.features THEN <<PldaRead(c, world)>> ELSE <<Fails("UnknownModel")>>

ClustererIgnoresWindow(c, world) ==  \* mutant of Clusterer: dense windows under the HMM
  [kind |-> c.clusterer, threshold |-> ResolveThreshold(c), max |-> c.maxSpeakers,
   normalized |-> c.clusterer = "ahc" /\ c.asNorm # {},
   pruned |-> c.minCluster > 1, gmm |-> FALSE, minEmbedding |-> "1.6 s"]

Clusterer(c, world) ==
  [kind |-> c.clusterer, threshold |-> ResolveThreshold(c), max |-> c.maxSpeakers,
   normalized |-> c.clusterer = "ahc" /\ c.asNorm # {},
   pruned |-> c.clusterer # "vbx" /\ c.minCluster > 1,
   gmm |-> c.clusterer = "vbx" /\ c.window # {},
   minEmbedding |-> IF "vbx_from_env" \in world.env THEN "env"
                    ELSE IF c.reconstruct THEN "5 s" ELSE "1.6 s"]

Good(read, world) == read.id \in world.files \/ (read.fetch /\ (read.id \in world.cached \/ (world.online /\ read.id \in world.served)))

\* The reads in order up to the first that fails.
ReadAll(reads, world) ==
  LET bad == {i \in DOMAIN reads : ~Good(reads[i], world)}
      done == IF bad = {} THEN DOMAIN reads ELSE 1 .. (Min(bad) - 1)
  IN [error |-> IF bad = {} THEN "ok" ELSE reads[Min(bad)].error,
      fetched |-> {reads[i].id : i \in {j \in done : reads[j].fetch}} \ world.cached]

NoClusterer == [kind |-> "injected"]

\* PipelineBuilder::build
Build(b, world) ==
  LET verdict == Validate(b)
      read == ReadAll(StageReads(b.config, world.features) \o ClustererReads(b.config, world), world)
  IN IF verdict # "ok" THEN [error |-> verdict, fetched |-> {}, config |-> b.config, clusterer |-> NoClusterer]
     ELSE IF b.config.profile = "custom"
     THEN [error |-> "ok", fetched |-> {}, config |-> b.config, clusterer |-> NoClusterer]
     ELSE [error |-> read.error, fetched |-> read.fetched,
           config |-> [b.config EXCEPT !.threshold = ResolveThreshold(b.config)],
           clusterer |-> Clusterer(b.config, world)]

\* scoring_chain_mask_env: whether a raw chunk may stand in for its mask, and
\* whether the clusterer hears clean durations.
MaskEnv(env) == [fallback |-> {"vbx_from_env", "clean_mask"} \subseteq env,
                 clean |-> {"vbx_from_env", "filter_clean"} \subseteq env]

-----------------------------------------------------------------------------
(* The command line.                                                       *)

ResolveAhcThreshold(explicit, asNorm) ==
  Or(explicit, IF asNorm THEN Or(DomainProfiles["voxconverse"].z, 400) ELSE DefaultAhc)

ResolveFlagsDomainKept(f, files) ==  \* mutant: the profile outlives an explicit threshold
  [error |-> "ok", clusterer |-> f.clusterer, threshold |-> ResolveAhcThreshold(f.threshold, f.asNorm),
   asNorm |-> {}, domain |-> f.domain]

\* resolve_clusterer_flags
ResolveFlags(f, files) ==
  LET error == FirstError(<<
        <<f.clusterer \notin {"ahc", "vbx"}, "clusterer">>,
        <<f.asNorm /\ f.clusterer # "ahc", "as-norm">>,
        <<f.domain \cap DOMAIN DomainProfiles # f.domain, "domain-profile">>,
        <<f.domain # {} /\ f.clusterer # "ahc", "domain-profile">>,
        <<f.asNorm /\ ~(f.cohort \subseteq files), "cohort">> >>)
      topN == IF f.domain = {} THEN DefaultTopN ELSE DomainProfiles[Or(f.domain, "")].topN
  IN IF error # "ok" THEN [error |-> error, clusterer |-> "", threshold |-> 0, asNorm |-> {}, domain |-> {}]
     ELSE [error |-> "ok", clusterer |-> f.clusterer, threshold |-> ResolveAhcThreshold(f.threshold, f.asNorm),
           asNorm |-> IF f.asNorm THEN {[topN |-> topN, cohort |-> f.cohort]} ELSE {},
           domain |-> IF f.threshold # {} THEN {} ELSE f.domain]

InU8(n) == n \in 1 .. 255

\* product_pipeline_config
ProductConfig(parts, features) ==
  [DefaultConfig(features) EXCEPT
     !.profile = parts.profile, !.clusterer = parts.clusterer, !.threshold = parts.threshold, !.plda = parts.plda,
     !.provider = parts.provider, !.asNorm = parts.asNorm, !.domain = parts.domain,
     !.maxSpeakers = Or(parts.maxSpeakers, @), !.window = IF parts.window # {} THEN parts.window ELSE @]

Profiles == {"mobile", "balanced", "fast", "custom"}
Presets == [realtime |-> 100, balanced |-> 150, accurate |-> 200]
Providers == {"auto", "cpu", "coreml", "nnapi", "cuda", "xnnpack"}

\* cmd_diarize and run_v2_pipeline up to the pipeline: the checks in their
\* order, the configuration, the build.
CliDiarize(f, world) ==
  LET flags == ResolveFlags(f, world.files)
      cap == IF f.speakers # {} THEN f.speakers ELSE f.maxSpeakers
      error == FirstError(<<
        <<f.legacy, "legacy">>, <<f.wav = {}, "no input">>, <<f.profile \notin Profiles, "profile">>,
        <<~(f.wav \subseteq world.files), "no such file">>, <<"parent dir" \in f.paths, "path traversal">>,
        <<"bad cache" \in world.env, "models cache">>,
        <<~(f.latency \subseteq DOMAIN Presets), "latency-preset">>,
        <<flags.error # "ok", flags.error>>, <<f.provider \notin Providers, "execution-provider">>,
        <<\E n \in cap : ~InU8(n), "max_speakers">> >>)
      config == ProductConfig(
        [profile |-> f.profile, clusterer |-> flags.clusterer, threshold |-> flags.threshold, plda |-> f.plda,
         maxSpeakers |-> cap, window |-> IF f.window # {} THEN f.window ELSE {Presets[p] : p \in f.latency},
         provider |-> IF f.provider = "auto" THEN "cpu" ELSE f.provider,
         asNorm |-> flags.asNorm, domain |-> flags.domain], world.features)
  IN IF error # "ok"
     THEN [error |-> error, fetched |-> {}, config |-> DefaultConfig(world.features), clusterer |-> NoClusterer]
     ELSE Build([config |-> config, registry |-> TRUE, custom |-> {}], world)

-----------------------------------------------------------------------------
(* The MCP server and the C interface, with one set of codes that each      *)
(* gives in its own way.                                                    *)

InvalidArg == "invalid argument"
AudioTooLong == "audio too long"
ModelLoad == "model load"
Inference == "inference"
RegistryError == "registry"
Internal == "internal"

\* run_diarize up to the pipeline; the models of the profile come first.
McpDiarize(in, world) ==
  LET profile == Or(in.profile, "balanced")
      kind == Or(in.clusterer, "vbx")
      error == FirstError(<<
        <<"bad root" \in world.env, InvalidArg>>,
        <<in.path \cap {"parent dir", "outside"} # {} \/ ~(in.path \subseteq world.files), InvalidArg>>,
        <<profile \notin Profiles, InvalidArg>>, <<kind \notin {"ahc", "vbx"}, InvalidArg>>,
        <<\E n \in in.maxSpeakers : ~InU8(n), InvalidArg>>, <<"bad cache" \in world.env, RegistryError>>,
        <<profile = "custom" \/ \E id \in {"powerset_int8", "resnet34_int8"} : ~Good(Model(id, "Load"), world), ModelLoad>>,
        <<in.plda \cap {"parent dir", "outside"} # {} \/ ~(in.plda \subseteq world.files), InvalidArg>> >>)
      config == ProductConfig(
        [profile |-> profile, clusterer |-> kind, threshold |-> Or(in.threshold, DefaultAhc), plda |-> in.plda,
         maxSpeakers |-> in.maxSpeakers, window |-> {}, provider |-> "cpu", asNorm |-> {}, domain |-> {}],
        world.features)
      Built(built) == [code |-> IF built.error = "ok" THEN "ok" ELSE ModelLoad, config |-> {built.config}]
  IN IF error # "ok" THEN [code |-> error, config |-> {}]
     ELSE Built(Build([config |-> config, registry |-> TRUE, custom |-> {}], world))

\* map_pipeline_run_error, and the same in run_impl
RunErrorCode(error) ==
  CASE error = "UnsupportedSampleRate" -> InvalidArg
    [] error = "AudioTooLong" -> AudioTooLong
    [] error = "Registry" -> RegistryError
    [] OTHER -> Inference

FfiConfigDefault(code, features) ==  \* mutant: the clusterer of PipelineConfig::default
  [DefaultConfig(features) EXCEPT !.profile = IF code = 0 THEN "mobile" ELSE "balanced"]

\* ffi_pipeline_config
FfiConfig(code, features) ==
  [DefaultConfig(features) EXCEPT !.profile = IF code = 0 THEN "mobile" ELSE "balanced", !.clusterer = "vbx"]

\* What polyvoice_pipeline_create makes of an error of the builder.
ConfigErrorCode(error) ==
  CASE error = "ok" -> "ok"
    [] error \in {"Registry", "UnknownModel"} -> RegistryError
    [] error = "Load" -> ModelLoad
    [] OTHER -> InvalidArg

ConfigErrorCodeUnseen(error) ==  \* mutant of ConfigErrorCode: a model that does not load is not told
  IF error \in {"ok", "Load"} THEN "ok" ELSE IF error \in {"Registry", "UnknownModel"} THEN RegistryError ELSE InvalidArg

\* polyvoice_pipeline_create: its code, and the handle it writes.  A panic is
\* one of the build, behind the checks of the arguments.
FfiCreate(args, world) ==
  LET refused == FirstError(<<
        <<args.out = "null", InvalidArg>>, <<args.profile \notin {0, 1}, InvalidArg>>,
        <<args.cacheDir \in {"not utf8", "parent dir"}, InvalidArg>>, <<"bad cache" \in world.env, RegistryError>>,
        <<args.panics, Internal>> >>)
      Answer(code, config) == [code |-> code, handle |-> IF code = "ok" THEN {config} ELSE {}]
      Created(built) == Answer(IF refused # "ok" THEN refused ELSE ConfigErrorCode(built.error), built.config)
  IN Created(Build([config |-> FfiConfig(args.profile, world.features), registry |-> TRUE, custom |-> {}], world))

Formats == 0 .. 4
MaxSamples == 3600

\* polyvoice_pipeline_run and _run_format: outcome is what the pipeline says of
\* the samples, rendered whether its text can be handed to C.
FfiRun(args, outcome, rendered) ==
  LET code == FirstError(<<
        <<args.out = "null", InvalidArg>>, <<args.handle = {} \/ args.samples = "null", InvalidArg>>,
        <<args.format \notin Formats, InvalidArg>>, <<args.n > MaxSamples, AudioTooLong>>,
        <<args.rate \notin 8 .. 192, InvalidArg>>, <<args.panics, Internal>>,
        <<outcome # "ok", RunErrorCode(outcome)>>, <<~rendered, Internal>> >>)
  IN [code |-> code, text |-> IF code = "ok" THEN {args.format} ELSE {}]

-----------------------------------------------------------------------------
(* What it is for.                                                         *)

\* On the command line "an explicit --threshold always wins", else the domain's
\* calibrated value for the scorer that runs, else that scorer's default;
\* library users "get the opposite precedence".  Whichever holds, config()
\* "reports the threshold the clusterer was actually built with".
ThresholdsHaveTheirPrecedence(f, world) ==
  LET library == [DefaultConfig(world.features) EXCEPT !.clusterer = "ahc", !.threshold = Or(f.threshold, DefaultAhc),
                                                       !.domain = f.domain]
      Calibrated(d) == IF f.asNorm THEN Or(DomainProfiles[d].z, 400) ELSE DomainProfiles[d].raw
      OnCommandLine(out) ==
        out.error = "ok" /\ f.clusterer = "ahc" =>
          /\ out.clusterer.threshold = Or(f.threshold, Or({Calibrated(d) : d \in f.domain}, ResolveAhcThreshold({}, f.asNorm)))
          /\ out.config.threshold = out.clusterer.threshold
          /\ out.clusterer.normalized = f.asNorm
      InLibrary(lib) ==
        f.domain \subseteq DOMAIN DomainProfiles /\ lib.error = "ok" =>
          lib.clusterer.threshold = Or({DomainProfiles[d].raw : d \in f.domain}, Or(f.threshold, DefaultAhc))
  IN OnCommandLine(CliDiarize(f, world)) /\ InLibrary(Build([config |-> library, registry |-> TRUE, custom |-> {}], world))

\* "Before any model download": what does not validate fetches nothing, and a
\* registry that may not fetch never does; windows always run under the GMM,
\* VBx is never pruned, and stray variables move nothing unless asked to.
BuildsKeepTheirWord(b, world) ==
  LET Kept(out, stray) ==
        /\ out.fetched # {} => Validate(b) = "ok" /\ world.online
        /\ out.error = "ok" /\ b.config.profile # "custom" =>
             /\ out.clusterer.kind = "vbx" => (out.clusterer.gmm <=> b.config.window # {}) /\ ~out.clusterer.pruned
             /\ out.clusterer.minEmbedding = "5 s" => b.config.reconstruct
             /\ out.clusterer = stray.clusterer
  IN /\ Kept(Build(b, world), Build(b, [world EXCEPT !.env = @ \ {"clean_mask", "filter_clean"}]))
     /\ "vbx_from_env" \notin world.env => MaskEnv(world.env) = MaskEnv({})

\* "Same production default as the CLI/MCP front doors": asked for a profile
\* and nothing else the three build the same pipeline or none of them builds
\* one, and the two doors with codes refuse with the same one, except where the
\* VBx of the default is not compiled in: a C caller is told of the registry,
\* the MCP server's of the model.  A C caller has a handle or a text if and only
\* if it is told so, whatever its arguments and wherever the call panics.
DoorsAgree(profile, run, world) ==
  LET bare == [legacy |-> FALSE, wav |-> {"audio"}, profile |-> profile, paths |-> {}, latency |-> {},
               clusterer |-> "vbx", threshold |-> {}, asNorm |-> FALSE, cohort |-> {}, domain |-> {}, provider |-> "auto",
               speakers |-> {}, maxSpeakers |-> {}, plda |-> {}, window |-> {}]
      asked == [path |-> {"audio"}, profile |-> {profile}, clusterer |-> {}, threshold |-> {}, maxSpeakers |-> {}, plda |-> {}]
      called == [out |-> run.out, profile |-> IF profile = "mobile" THEN 0 ELSE 1, cacheDir |-> "null", panics |-> run.panics]
      Told(ran) == ran.text # {} <=> ran.code = "ok"
      SameCode(mcp, ffi) ==
        ffi.code = mcp.code \/ (<<ffi.code, mcp.code>> = <<RegistryError, ModelLoad>> /\ "vbx" \notin world.features)
      Agree(cli, mcp, ffi) ==
        /\ ffi.handle # {} <=> ffi.code = "ok"
        /\ cli.error = "ok" <=> mcp.code = "ok"
        /\ ffi.code = "ok" => ffi.handle = {cli.config} /\ mcp.config = {cli.config}
        /\ run.out # "null" /\ ~run.panics => SameCode(mcp, ffi)
  IN /\ Told(FfiRun(run, run.outcome, run.rendered))
     /\ Agree(CliDiarize(bare, world), McpDiarize(asked, world), FfiCreate(called, world))

\* "AS-norm falls back to the calibrated VoxConverse z-threshold": a command
\* line whose flags are in order gets its pipeline when every file is there.
AsNormBuilds(f, world) ==
  LET flags == ResolveFlags(f, world.files)
  IN f.asNorm /\ f.threshold = {} /\ flags.error = "ok" /\ world.online => CliDiarize(f, world).error = "ok"
=============================================================================
