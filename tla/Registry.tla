------------------------------- MODULE Registry -------------------------------
(***************************************************************************)
(* ModelRegistry of src/models/mod.rs over the manifest of                 *)
(* src/models/manifest.rs: resolving a model id, a profile or the VBx PLDA *)
(* set to files of the model directory, with or without the network, while *)
(* others replace files of that directory.                                 *)
(*                                                                         *)
(* A file is what its hash says ("good" is the manifest's), its length and *)
(* the length the file system reports for it.  A fetch is one step, the    *)
(* promise module ModelDownload is about: it ends with the verified file   *)
(* in place or with an error and the file it found.                        *)
(*                                                                         *)
(* And where the segmenter's geometry comes from: load_model_config of     *)
(* src/models/metadata.rs takes each field from the file's own properties, *)
(* else from the manifest entry, else from the defaults, and               *)
(* PowersetConfig::with_model_meta of src/segmentation/powerset.rs lays    *)
(* the result over the built-in configuration.                             *)
(*                                                                         *)
(* And AdapterRegistry of src/models/adapter.rs, a machine of its own:     *)
(* names of implementations per stage and the version aliases pinned to    *)
(* them, under any sequence of registrations.                              *)
(***************************************************************************)
EXTENDS Integers, Sequences, FiniteSets, FiniteSetsExt

CONSTANTS
  Manifests,       \* what the manifest text may parse to
  PldaIds,         \* VBX_PLDA_MODEL_IDS, in order
  DefaultMaxBytes, \* DEFAULT_MAX_MODEL_BYTES
  Lengths,         \* bound: lengths of files that turn up
  MaxEdits,        \* bound: files others replace during a call
  Rates, Quarters, \* values that a model's metadata may state
  Stages, AdapterNames,
  MaxRegistrations \* bound: adapters registered by callers

VARIABLES
  manifest,
  strict,    \* require_signatures
  online,    \* allow_download
  files,     \* of each model id
  call,      \* the request under way
  edits,
  factories,      \* of adapters: the (stage, name) pairs with a factory -> who registered it
  adapterAliases, \* (stage, alias) -> name
  registrations

registryVars == <<manifest, strict, online, files, call, edits>>
adapterVars == <<factories, adapterAliases, registrations>>

\* A manifest: [schema, profiles, models, aliases] with
\*   profiles : name -> [segmenter, embedder], models : id -> entry,
\*   aliases : stage -> [alias -> id]; entry: [sha, size, signature], size 0 when absent.
EveryId == UNION {DOMAIN m.models : m \in Manifests}
Absent == [hash |-> "none", len |-> 0, reported |-> 0]
Good == [hash |-> "good", len |-> 1, reported |-> 1]
FilesAround == {Absent, Good}
  \cup [hash : {"other"}, len : Lengths, reported : Lengths]

-----------------------------------------------------------------------------
(* The manifest.                                                           *)

DanglingProfile(m) == \E p \in DOMAIN m.profiles :
  {m.profiles[p].segmenter, m.profiles[p].embedder} \ DOMAIN m.models # {}

DanglingAlias(m) == \E s \in DOMAIN m.aliases : \E a \in DOMAIN m.aliases[s] :
  m.aliases[s][a] \notin DOMAIN m.models

InvalidSha(m) == \E id \in DOMAIN m.models : m.models[id].sha # "hex64"

\* Manifest::from_toml_str: the first complaint, or "ok".
FromToml(m) ==
  CASE m.schema \notin {"v1", "v2"} -> "UnsupportedSchema"
    [] m.schema \in {"v1", "v2"} /\ DanglingProfile(m) -> "DanglingModelRef"
    [] m.schema \in {"v1", "v2"} /\ ~DanglingProfile(m) /\ DanglingAlias(m) -> "DanglingAliasRef"
    [] m.schema \in {"v1", "v2"} /\ ~DanglingProfile(m) /\ ~DanglingAlias(m) ->
         IF InvalidSha(m) THEN "InvalidSha256" ELSE "ok"

\* An id of the manifest shadows an alias of the same name.
ResolveModelRef(m, stage, name) ==
  IF name \in DOMAIN m.models THEN {name}
  ELSE IF stage \in DOMAIN m.aliases /\ name \in DOMAIN m.aliases[stage]
       THEN {m.aliases[stage][name]}
       ELSE {}

-----------------------------------------------------------------------------
(* Verifying a file on disk.                                               *)

MaxDownloadBytes(size) ==
  IF size > 0 THEN Min({2 * size, DefaultMaxBytes}) ELSE DefaultMaxBytes

\* sha256_file: refused by the reported length, or by what the read finds.
Sha256File(file, cap) ==
  IF file.reported > cap \/ file.len > cap THEN "exceeds the cap" ELSE file.hash

VerifyMinisign(file, signature) == signature = "valid" /\ file.hash = "good"

\* The complaint about m as it lies on disk, or "ok".
EnsureLocal(m) ==
  LET entry == manifest.models[m]
      actual == Sha256File(files[m], MaxDownloadBytes(entry.size))
  IN CASE files[m] = Absent -> "OfflineMissing"
       [] files[m] # Absent /\ actual = "exceeds the cap" -> "Io"
       [] files[m] # Absent /\ actual = "other" -> "ChecksumMismatch"
       [] files[m] # Absent /\ actual = "good" ->
            IF entry.signature # "none"
            THEN IF VerifyMinisign(files[m], entry.signature) THEN "ok" ELSE "SignatureRejected"
            ELSE IF strict THEN "UnsignedModel" ELSE "ok"

-----------------------------------------------------------------------------
(* Requests.                                                               *)

\* result is "busy" while models are left; seen holds the models found good
\* with the file that was looked at; fetched the models asked of the network.
Idle == [op |-> "none", todo |-> <<>>, seen |-> <<>>, fetched |-> {}, result |-> "idle"]
Ask(op, ids) == [Idle EXCEPT !.op = op, !.todo = ids,
                             !.result = IF ids = <<>> THEN "ok" ELSE "busy"]
Refuse(op, why) == [Idle EXCEPT !.op = op, !.result = why]

Init ==
  /\ manifest \in {m \in Manifests : FromToml(m) = "ok"}
  /\ strict \in BOOLEAN /\ online \in BOOLEAN
  /\ files \in [EveryId -> FilesAround]
  /\ call = Idle /\ edits = 0

AskModel(id) ==
  /\ call.result = "idle"
  /\ call' = Ask("model", <<id>>)
  /\ UNCHANGED <<manifest, strict, online, files, edits>>

AskPlda ==
  /\ call.result = "idle"
  /\ call' = Ask("plda", PldaIds)
  /\ UNCHANGED <<manifest, strict, online, files, edits>>

\* require_signature_for
Unsigned(id) == strict /\ manifest.models[id].signature = "none"

AskProfileSegmenterOnly(p) ==  \* mutant: the embedder's signature is not required
  /\ call.result = "idle"
  /\ call' =
       IF p = "custom" THEN Refuse("profile", "CustomProfileUnresolvable")
       ELSE IF p \notin DOMAIN manifest.profiles THEN Refuse("profile", "ProfileNotFound")
       ELSE LET prof == manifest.profiles[p]
            IN IF Unsigned(prof.segmenter) THEN Refuse("profile", "UnsignedModel")
               ELSE Ask("profile", <<prof.segmenter, prof.embedder>>)
  /\ UNCHANGED <<manifest, strict, online, files, edits>>

\* ensure_for_profile: both signatures are required before either is ensured.
AskProfile(p) ==
  /\ call.result = "idle"
  /\ call' =
       IF p = "custom" THEN Refuse("profile", "CustomProfileUnresolvable")
       ELSE IF p \notin DOMAIN manifest.profiles THEN Refuse("profile", "ProfileNotFound")
       ELSE LET prof == manifest.profiles[p]
            IN IF Unsigned(prof.segmenter) \/ Unsigned(prof.embedder)
               THEN Refuse("profile", "UnsignedModel")
               ELSE Ask("profile", <<prof.segmenter, prof.embedder>>)
  /\ UNCHANGED <<manifest, strict, online, files, edits>>

\* The next model of the request turned out as `why` says, with this file.
Answer(id, why, file, fetched) ==
  call' = [call EXCEPT
    !.fetched = @ \cup fetched,
    !.todo = IF why = "ok" THEN Tail(@) ELSE <<>>,
    !.seen = IF why = "ok" THEN Append(@, [id |-> id, file |-> file]) ELSE @,
    !.result = IF why # "ok" THEN why ELSE IF Len(call.todo) = 1 THEN "ok" ELSE "busy"]

EnsureUnknown ==
  /\ call.result = "busy" /\ Head(call.todo) \notin DOMAIN manifest.models
  /\ Answer(Head(call.todo), "ModelNotFound", Absent, {})
  /\ UNCHANGED <<manifest, strict, online, files, edits>>

EnsureOffline ==
  /\ call.result = "busy" /\ Head(call.todo) \in DOMAIN manifest.models /\ ~online
  /\ Answer(Head(call.todo), EnsureLocal(Head(call.todo)), files[Head(call.todo)], {})
  /\ UNCHANGED <<manifest, strict, online, files, edits>>

\* A cached file of the right hash is served or refused by its signature;
\* any other is fetched anew, which may fail.
EnsureDownload ==
  /\ call.result = "busy" /\ Head(call.todo) \in DOMAIN manifest.models /\ online
  /\ LET id == Head(call.todo)
         entry == manifest.models[id]
         accepted == entry.signature = "none" \/ VerifyMinisign(Good, entry.signature)
     IN \/ /\ files[id].hash = "good"
           /\ Answer(id, IF accepted THEN "ok" ELSE "Download", files[id], {})
           /\ UNCHANGED files
        \/ /\ files[id].hash # "good" /\ accepted
           /\ Good.len <= MaxDownloadBytes(entry.size)
           /\ files' = [files EXCEPT ![id] = Good]
           /\ Answer(id, "ok", Good, {id})
        \/ /\ files[id].hash # "good"
           /\ Answer(id, "Download", files[id], {id})
           /\ UNCHANGED files
  /\ UNCHANGED <<manifest, strict, online, edits>>

\* Another process replaces or removes a file between two checks.
Replace(id, file) ==
  /\ call.result = "busy" /\ edits < MaxEdits /\ edits' = edits + 1
  /\ files' = [files EXCEPT ![id] = file]
  /\ UNCHANGED <<manifest, strict, online, call>>

Next ==
  \/ \E id \in EveryId \cup {"unheard-of"} : AskModel(id)
  \/ AskPlda
  \/ \E p \in {"custom", "mobile", "balanced"} : AskProfile(p)
  \/ EnsureUnknown \/ EnsureOffline \/ EnsureDownload
  \/ \E id \in EveryId, file \in FilesAround : Replace(id, file)

RegistrySpec == Init /\ [][Next]_registryVars

-----------------------------------------------------------------------------
(* Properties.                                                             *)

\* A request that succeeds has looked at every file it names, each of the
\* manifest's hash, within the byte cap when it was already there offline and
\* accepted by its signature; a profile of a strict registry, and anything a
\* strict registry serves without the network, is signed
\* (ensure, ensure_for_profile_with, ensure_vbx_plda_dir).
OkFilesWereVerified ==
  call.result = "ok" =>
    /\ call.op = "plda" => [i \in DOMAIN call.seen |-> call.seen[i].id] = PldaIds
    /\ call.op = "profile" => \E p \in DOMAIN manifest.profiles :
         {call.seen[i].id : i \in DOMAIN call.seen} =
           {manifest.profiles[p].segmenter, manifest.profiles[p].embedder}
    /\ \A i \in DOMAIN call.seen :
         LET entry == manifest.models[call.seen[i].id]
         IN /\ call.seen[i].file.hash = "good"
            /\ entry.signature \in {"none", "valid"}
            /\ strict /\ (call.op = "profile" \/ ~online) => entry.signature = "valid"

\* The inductive invariant RegistryIInv: what was seen was verified when it was,
\* and with what is left to do it spells out what was Asked, a model, the PLDA set
\* or the pair of a profile that is signed if it must be.
Names == EveryId \cup {"unheard-of"} \cup {PldaIds[i] : i \in DOMAIN PldaIds}
RegistryAssumption == PldaIds \in Seq(Names)
Complaints ==
  {"CustomProfileUnresolvable", "ProfileNotFound", "ModelNotFound", "OfflineMissing", "Io",
   "ChecksumMismatch", "SignatureRejected", "UnsignedModel", "Download"}
Pair(p) == <<manifest.profiles[p].segmenter, manifest.profiles[p].embedder>>
Asked ==
  CASE call.op = "plda" -> {PldaIds}
    [] call.op = "profile" ->
         {Pair(p) : p \in {q \in DOMAIN manifest.profiles : ~Unsigned(Pair(q)[1]) /\ ~Unsigned(Pair(q)[2])}}
    [] call.op = "model" -> {<<id>> : id \in EveryId \cup {"unheard-of"}}
    [] call.op = "none" -> {}
SeenOrToDo(asked) ==
  /\ Len(asked) = Len(call.seen) + Len(call.todo)
  /\ \A i \in DOMAIN call.seen : asked[i] = call.seen[i].id
  /\ \A i \in DOMAIN call.todo : asked[Len(call.seen) + i] = call.todo[i]

RegistryTypeOK ==
  /\ manifest \in {m \in Manifests : FromToml(m) = "ok"}
  /\ strict \in BOOLEAN /\ online \in BOOLEAN
  /\ files \in [EveryId -> FilesAround]
  /\ call \in [op : {"none", "model", "plda", "profile"}, todo : Seq(Names),
               seen : Seq([id : Names, file : FilesAround]), fetched : SUBSET Names,
               result : {"idle", "busy", "ok"} \cup Complaints]

SeenWasVerified ==
  \A i \in DOMAIN call.seen :
    LET entry == manifest.models[call.seen[i].id]
    IN /\ call.seen[i].file.hash = "good"
       /\ entry.signature \in {"none", "valid"}
       /\ strict /\ ~online => entry.signature = "valid"

RegistryIInv ==
  /\ RegistryTypeOK /\ SeenWasVerified
  /\ call.result \in {"busy", "ok"} => \E asked \in Asked : SeenOrToDo(asked)
  /\ call.result = "busy" => call.todo # <<>>
  /\ call.result = "ok" => call.todo = <<>>

\* A registry without the network asks nothing of it, and a profile refused
\* for a missing signature has fetched neither of its models.
NothingIsFetchedInVain ==
  /\ ~online => call.fetched = {}
  /\ call.result = "UnsignedModel" => call.fetched = {}

-----------------------------------------------------------------------------
(* The configuration a model's metadata gives.  Seconds are counted in      *)
(* quarters; a value below 1 stands for every value that is not finite and  *)
(* positive.                                                               *)

Unset == -9
FieldNames == {"adapter_type", "sample_rate", "window_secs", "hop_secs"}
FieldValues(f) == CASE f = "adapter_type" -> {1}
                    [] f = "sample_rate" -> Rates
                    [] OTHER -> Quarters

Metas == {m \in [FieldNames -> {Unset, 1} \cup Rates \cup Quarters] :
            \A f \in FieldNames : m[f] \in FieldValues(f) \cup {Unset}}
IsEmpty(m) == \A f \in FieldNames : m[f] = Unset
Nothing == [f \in FieldNames |-> Unset]

Missing == -8   \* a key that is not there

\* from_props: the first spelling of a key that is present is taken, and
\* leaves the field unset when it is blank or no number.
FromProps(spellings) ==
  [f \in FieldNames |->
     LET present == SelectSeq(spellings[f], LAMBDA v : v # Missing)
     IN IF present = <<>> THEN Unset ELSE Head(present)]

FillFrom(m, other) ==
  [f \in FieldNames |-> IF m[f] = Unset THEN other[f] ELSE m[f]]

\* load_model_config: the fields and the label of their source.
LoadModelConfig(onnx, entry, defaults) ==
  LET second == FillFrom(onnx, entry)
      third == FillFrom(second, defaults)
      used == <<~IsEmpty(onnx), second # onnx, third # second>>
  IN [fields |-> third,
      source |-> CASE used = <<TRUE, FALSE, FALSE>> -> "OnnxProps"
                   [] used = <<FALSE, TRUE, FALSE>> -> "Manifest"
                   [] ~used[1] /\ ~used[2] -> "Defaults"
                   [] OTHER -> "Mixed"]

-----------------------------------------------------------------------------
(* The segmenter's configuration.                                          *)

Samples(quarters, rate) == (quarters * rate) \div 4

ValidateGeometry(c) ==
  /\ c.sample_rate > 0
  /\ c.window_secs > 0 /\ c.hop_secs > 0
  /\ c.hop_secs <= c.window_secs
  /\ Samples(c.window_secs, c.sample_rate) > 0
  /\ Samples(c.hop_secs, c.sample_rate) > 0

\* The sampling rate is taken alone, window and hop only as a valid pair.
WithModelMetaEach(c, meta) ==  \* mutant: each of the pair on its own merits
  LET rated == [c EXCEPT !.sample_rate = IF meta.sample_rate > 0 THEN meta.sample_rate ELSE @]
      Or(f) == IF meta[f] > 0 THEN meta[f] ELSE rated[f]
  IN [rated EXCEPT !.window_secs = Or("window_secs"), !.hop_secs = Or("hop_secs")]

WithModelMeta(c, meta) ==
  LET rated == [c EXCEPT !.sample_rate = IF meta.sample_rate > 0 THEN meta.sample_rate ELSE @]
      Or(f) == IF meta[f] = Unset THEN rated[f] ELSE meta[f]
      candidate == [rated EXCEPT !.window_secs = Or("window_secs"), !.hop_secs = Or("hop_secs")]
  IN IF ValidateGeometry(candidate) THEN candidate ELSE rated

-----------------------------------------------------------------------------
\* resolve_powerset_path_for_backend: tract takes its rewrite of the graph when
\* one lies beside the model or above its int8/ directory.
\* A path is [dir, powerset, rewrite] (its name starts with powerset; is a rewrite).
ResolvePowersetPath(path, tract, rewrites) ==
  IF ~tract \/ ~path.powerset \/ path.rewrite THEN path
  ELSE IF path.dir \in rewrites THEN [path EXCEPT !.rewrite = TRUE]
  ELSE IF path.dir = "int8" /\ "root" \in rewrites
       THEN [path EXCEPT !.rewrite = TRUE, !.dir = "root"]
       ELSE path
-----------------------------------------------------------------------------
\* "With the documented preference order": a field is what the first tier that
\* states it says, and the label names the only tier that spoke.  Laid over a
\* valid configuration the result is valid, with window and hop either both
\* the model's or both built in; and the path stays what it was unless a
\* rewrite lies where it now points.
GeometryIsSound(spellings, entry, defaults, builtin, path, tract, rewrites) ==
  LET onnx == FromProps(spellings)
      loaded == LoadModelConfig(onnx, entry, defaults)
      c == WithModelMeta(builtin, loaded.fields)
      tiers == <<onnx, entry, defaults>>
      resolved == ResolvePowersetPath(path, tract, rewrites)
  IN /\ \A f \in FieldNames : \E i \in 1 .. 3 :
          /\ loaded.fields[f] = tiers[i][f]
          /\ \A j \in 1 .. i - 1 : tiers[j][f] = Unset
          /\ tiers[i][f] # Unset \/ i = 3
     /\ loaded.source = "OnnxProps" => loaded.fields = onnx
     /\ loaded.source = "Manifest" => loaded.fields = entry
     /\ loaded.source = "Defaults" => loaded.fields = defaults
     /\ ValidateGeometry(builtin) =>
          /\ ValidateGeometry(c) \/ ~ValidateGeometry([builtin EXCEPT !.sample_rate = c.sample_rate])
          /\ \/ c.window_secs = builtin.window_secs /\ c.hop_secs = builtin.hop_secs
             \/ \A f \in {"window_secs", "hop_secs"} : loaded.fields[f] \in {Unset, c[f]}
     /\ resolved = path \/ (tract /\ resolved.rewrite /\ resolved.dir \in rewrites)

-----------------------------------------------------------------------------
(* The registry of adapters.                                               *)

Keys == Stages \X AdapterNames

\* with_builtins, one stage with an adapter and its pinned aliases.
BuiltinFactories == [k \in Stages \X {"powerset-v1"} |-> 0]
BuiltinAliases == [k \in Stages \X {"latest", "v1"} |-> "powerset-v1"]

AdaptersInit ==
  /\ \/ factories = <<>> /\ adapterAliases = <<>>                     \* new
     \/ factories = BuiltinFactories /\ adapterAliases = BuiltinAliases
  /\ registrations = 0

\* f with k mapped to v.
Put(f, k, v) == [x \in DOMAIN f \cup {k} |-> IF x = k THEN v ELSE f[x]]

Register(k) ==
  /\ registrations < MaxRegistrations /\ registrations' = registrations + 1
  /\ k \notin DOMAIN factories              \* else AlreadyRegistered
  /\ factories' = Put(factories, k, registrations')
  /\ UNCHANGED adapterAliases

RegisterOrReplace(k) ==
  /\ registrations < MaxRegistrations /\ registrations' = registrations + 1
  /\ factories' = Put(factories, k, registrations')
  /\ UNCHANGED adapterAliases

RegisterAliasUnchecked(k, target) ==  \* mutant: the target may come later
  /\ registrations < MaxRegistrations /\ registrations' = registrations + 1
  /\ adapterAliases' = Put(adapterAliases, k, target)
  /\ UNCHANGED factories

RegisterAlias(k, target) ==
  /\ registrations < MaxRegistrations /\ registrations' = registrations + 1
  /\ <<k[1], target>> \in DOMAIN factories  \* else AliasTargetMissing
  /\ adapterAliases' = Put(adapterAliases, k, target)
  /\ UNCHANGED factories

\* resolve: a registered name before an alias; {} is UnknownAdapter.
Resolve(k) ==
  IF k \in DOMAIN factories THEN {k[2]}
  ELSE IF k \in DOMAIN adapterAliases THEN {adapterAliases[k]}
  ELSE {}

\* create: the factory that resolve's answer leads to; {} is UnknownAdapter.
Create(k) ==
  {factories[<<k[1], id>>] : id \in {n \in Resolve(k) : <<k[1], n>> \in DOMAIN factories}}

AdaptersNext ==
  \E k \in Keys :
    \/ Register(k) \/ RegisterOrReplace(k)
    \/ \E target \in AdapterNames : RegisterAlias(k, target)

AdaptersSpec == AdaptersInit /\ [][AdaptersNext]_adapterVars

\* A name that resolves can be created, whatever was registered, replaced and
\* aliased in whatever order: no alias dangles and none leads to an alias
\* (resolve, create).
ResolvedCanBeCreated ==
  \A k \in Keys : Resolve(k) # {} => Create(k) # {}

\* The inductive invariant: an alias leads to a registered name of its stage.
AliasesLead ==
  \A k \in DOMAIN adapterAliases : <<k[1], adapterAliases[k]>> \in DOMAIN factories
AdaptersIInv ==
  /\ DOMAIN factories \subseteq Stages \X (AdapterNames \cup {"powerset-v1"})
  /\ DOMAIN adapterAliases \subseteq Stages \X (AdapterNames \cup {"latest", "v1"})
  /\ AliasesLead
===============================================================================
