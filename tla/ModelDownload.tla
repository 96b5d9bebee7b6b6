---------------------------- MODULE ModelDownload ----------------------------
(***************************************************************************)
(* Fetching one model file into the cache: the function                    *)
(* download_with_checksum_signature_and_cap of src/models/download.rs, run *)
(* by the threads of one or more processes that share a cache directory.   *)
(*                                                                         *)
(* A file is a sequence of chunks, each "good" (the chunk the manifest's   *)
(* hash expects there), "bad" (anything else) or "hole" (never written).   *)
(* A name, the destination or its sibling ".partial", points to an inode;  *)
(* a thread that streams holds an open inode and its own offset, so a      *)
(* rename moves the name under another writer exactly as it does on disk.  *)
(***************************************************************************)
EXTENDS Naturals, FiniteSets, Sequences

CONSTANTS
  Processes,
  Threads,       \* of all processes
  ProcessOf,     \* the process of each thread
  Signatures,    \* what the manifest may carry for the model's hash: "none",
                 \* "valid", "wrong", "malformed"
  Size,          \* chunks of the model
  Cap,           \* max_bytes, in chunks
  MaxCalls,      \* bound: calls per thread
  MaxCrashes,    \* bound: process crashes and power losses in a behaviour
  NoThread, NoFile

ModelDownloadAssumption ==
  /\ IsFiniteSet(Threads) /\ ProcessOf \in [Threads -> Processes]
  /\ NoThread \notin Threads /\ NoFile \notin Nat
  /\ Signatures \subseteq {"none", "valid", "wrong", "malformed"}
  /\ Size \in Nat \ {0} /\ Cap \in Nat /\ Size <= Cap
  /\ MaxCalls \in Nat /\ MaxCrashes \in Nat

Chunks == {"good", "bad"}
Expected == [i \in 1..Size |-> "good"]
Names == {"dest", "partial"}

\* For a run: processes of one thread each, named alike.
OwnProcess == [t \in Threads |-> t]

VARIABLES
  signature,  \* of the manifest entry
  lock,     \* DOWNLOAD_LOCK of each process: its holder
  pc,       \* where each thread is
  name,     \* the inode of each name, or NoFile
  inode,    \* the contents of each inode
  fd,       \* the inode each thread has open
  got,      \* the chunks each thread has streamed, which it hashes
  calls,    \* calls each thread has begun
  crashes   \* crashes so far

vars == <<signature, lock, pc, name, inode, fd, got, calls, crashes>>

\* More inodes are never in use at once.
Inodes == 1..(Cardinality(Names) + Cardinality(Threads))

Exists(n) == name[n] # NoFile
Content(n) == IF Exists(n) THEN inode[name[n]] ELSE NoFile

Goto(t, from, to) == pc[t] = from /\ pc' = [pc EXCEPT ![t] = to]

\* What an earlier life of the cache directory may have left.
Init ==
  /\ signature \in Signatures
  /\ lock = [p \in Processes |-> NoThread]
  /\ pc = [t \in Threads |-> "idle"]
  /\ \E d \in {NoFile, Expected, <<"bad">>},
        p \in {NoFile, <<"good">>, [i \in 1..Cap |-> "bad"]} :
       /\ name = [dest |-> IF d = NoFile THEN NoFile ELSE 1,
                   partial |-> IF p = NoFile THEN NoFile ELSE 2]
       /\ inode = [i \in Inodes |-> IF i = name["dest"] THEN d
                                    ELSE IF i = name["partial"] THEN p
                                    ELSE <<>>]
  /\ fd = [t \in Threads |-> NoFile]
  /\ got = [t \in Threads |-> <<>>]
  /\ calls = [t \in Threads |-> 0]
  /\ crashes = 0

-----------------------------------------------------------------------------
Begin(t) ==
  /\ Goto(t, "idle", "lock")
  /\ calls[t] < MaxCalls
  /\ calls' = [calls EXCEPT ![t] = @ + 1]
  /\ got' = [got EXCEPT ![t] = <<>>]
  /\ UNCHANGED <<signature, lock, name, inode, fd, crashes>>

Lock(t) ==
  /\ lock[ProcessOf[t]] = NoThread
  /\ Goto(t, "lock", "hit")
  /\ lock' = [lock EXCEPT ![ProcessOf[t]] = t]
  /\ UNCHANGED <<signature, name, inode, fd, got, calls, crashes>>

\* Mutant: the hash alone serves a cached file.
ServeCacheHitUnsigned(t) ==
  /\ Goto(t, "hit", IF Content("dest") = Expected THEN "ok" ELSE "prepare")
  /\ UNCHANGED <<signature, lock, name, inode, fd, got, calls, crashes>>

\* Stage 1: a cached file with the expected hash serves the call, unless the
\* manifest's signature rejects it.
ServeCacheHit(t) ==
  /\ \/ Content("dest") # Expected /\ Goto(t, "hit", "prepare")
     \/ /\ Content("dest") = Expected
        /\ Goto(t, "hit", IF signature \in {"none", "valid"} THEN "ok" ELSE "err")
  /\ UNCHANGED <<signature, lock, name, inode, fd, got, calls, crashes>>

\* Stages 2 to 4: the scheme, the cache directory, and the signature's form.
\* Any of them can fail, and a malformed signature does.
Prepare(t) ==
  /\ \/ signature # "malformed" /\ Goto(t, "prepare", "connect")
     \/ Goto(t, "prepare", "err")
  /\ UNCHANGED <<signature, lock, name, inode, fd, got, calls, crashes>>

\* The request fails, or File::create does, before anything is created.
ConnectFails(t) ==
  /\ Goto(t, "connect", "err")
  /\ UNCHANGED <<signature, lock, name, inode, fd, got, calls, crashes>>

FreeInode == CHOOSE i \in Inodes :
  i \notin {name[n] : n \in Names} \cup {fd[t] : t \in Threads}

\* Stage 5: File::create opens the partial file and truncates it, whoever
\* else has it open.
CreatePartial(t) ==
  /\ Goto(t, "connect", "stream")
  /\ LET i == IF Exists("partial") THEN name["partial"] ELSE FreeInode IN
       /\ name' = [name EXCEPT !["partial"] = i]
       /\ inode' = [inode EXCEPT ![i] = <<>>]
       /\ fd' = [fd EXCEPT ![t] = i]
  /\ UNCHANGED <<signature, lock, got, calls, crashes>>

\* A chunk written at the k-th place of a file, past its end too.
Put(s, k, c) ==
  [i \in 1..(IF k > Len(s) THEN k ELSE Len(s)) |->
     IF i = k THEN c ELSE IF i <= Len(s) THEN s[i] ELSE "hole"]

\* Mutant: the cap is tested after the write.
WriteChunkThenCap(t) ==
  /\ Goto(t, "stream", "stream")
  /\ Len(got[t]) <= Cap
  /\ \E c \in Chunks :
       /\ inode' = [inode EXCEPT ![fd[t]] = Put(@, Len(got[t]) + 1, c)]
       /\ got' = [got EXCEPT ![t] = Append(@, c)]
  /\ UNCHANGED <<signature, lock, name, fd, calls, crashes>>

\* Mutant: the cap is tested against each chunk, not against their sum.
WriteChunkCapEach(t) ==
  /\ Goto(t, "stream", "stream")
  /\ \E c \in Chunks :
       /\ inode' = [inode EXCEPT ![fd[t]] = Put(@, 1, c)]
       /\ got' = [got EXCEPT ![t] = <<c>>]
  /\ UNCHANGED <<signature, lock, name, fd, calls, crashes>>

\* A chunk arrives and fits: it is written where this thread's offset is, and
\* hashed.
WriteChunk(t) ==
  /\ Goto(t, "stream", "stream")
  /\ Len(got[t]) + 1 <= Cap
  /\ \E c \in Chunks :
       /\ inode' = [inode EXCEPT ![fd[t]] = Put(@, Len(got[t]) + 1, c)]
       /\ got' = [got EXCEPT ![t] = Append(@, c)]
  /\ UNCHANGED <<signature, lock, name, fd, calls, crashes>>

Unlink(n) == name' = [name EXCEPT ![n] = NoFile]
Close(t) == fd' = [fd EXCEPT ![t] = NoFile]

\* A chunk arrives that would pass the cap: the partial file is removed.
TooLarge(t) ==
  /\ Goto(t, "stream", "err")
  /\ Len(got[t]) = Cap
  /\ Unlink("partial") /\ Close(t)
  /\ UNCHANGED <<signature, lock, inode, got, calls, crashes>>

\* A read or a write fails: the partial file stays.
StreamFails(t) ==
  /\ Goto(t, "stream", "err")
  /\ Close(t)
  /\ UNCHANGED <<signature, lock, name, inode, got, calls, crashes>>

EndOfStream(t) ==
  /\ Goto(t, "stream", "verify")
  /\ Close(t)
  /\ UNCHANGED <<signature, lock, name, inode, got, calls, crashes>>

\* Mutant: the file is put in place without its hash.
VerifySkipped(t) ==
  /\ Goto(t, "verify", "rename")
  /\ UNCHANGED <<signature, lock, name, inode, fd, got, calls, crashes>>

\* Stage 6: the hash and the signature of what was streamed; the partial
\* file is removed when either is wrong.
Verify(t) ==
  /\ \/ /\ got[t] = Expected /\ signature \in {"none", "valid"}
        /\ Goto(t, "verify", "rename")
        /\ UNCHANGED name
     \/ /\ ~(got[t] = Expected /\ signature \in {"none", "valid"})
        /\ Goto(t, "verify", "err")
        /\ Unlink("partial")
  /\ UNCHANGED <<signature, lock, inode, fd, got, calls, crashes>>

\* Stage 7: the rename replaces the destination, and fails when the partial
\* name is gone.
Rename(t) ==
  /\ \/ /\ Exists("partial")
        /\ Goto(t, "rename", "ok")
        /\ name' = [dest |-> name["partial"], partial |-> NoFile]
     \/ /\ ~Exists("partial")
        /\ Goto(t, "rename", "err")
        /\ UNCHANGED name
  /\ UNCHANGED <<signature, lock, inode, fd, got, calls, crashes>>

\* The guard of DOWNLOAD_LOCK is dropped.
Return(t) ==
  /\ pc[t] \in {"ok", "err"}
  /\ pc' = [pc EXCEPT ![t] = "idle"]
  /\ lock' = [lock EXCEPT ![ProcessOf[t]] = NoThread]
  /\ UNCHANGED <<signature, name, inode, fd, got, calls, crashes>>

-----------------------------------------------------------------------------
\* The threads of the processes ps die; memory and open files go with them.
Die(ps) ==
  /\ crashes < MaxCrashes
  /\ crashes' = crashes + 1
  /\ lock' = [p \in Processes |-> IF p \in ps THEN NoThread ELSE lock[p]]
  /\ pc' = [t \in Threads |-> IF ProcessOf[t] \in ps THEN "idle" ELSE pc[t]]
  /\ fd' = [t \in Threads |-> IF ProcessOf[t] \in ps THEN NoFile ELSE fd[t]]
  /\ UNCHANGED <<signature, name, got, calls>>

Crash(p) == Die({p}) /\ UNCHANGED inode

\* Nothing is synced: after a power loss a file holds a prefix of what was
\* written to it.
PowerLoss ==
  /\ Die(Processes)
  /\ \E n \in Names, k \in 0..Cap :
       /\ Exists(n)
       /\ inode' = [inode EXCEPT ![name[n]] = SubSeq(@, 1, IF k < Len(@) THEN k ELSE Len(@))]

Step(t) ==
  \/ Lock(t) \/ ServeCacheHit(t) \/ Prepare(t) \/ ConnectFails(t)
  \/ CreatePartial(t) \/ WriteChunk(t) \/ TooLarge(t) \/ StreamFails(t)
  \/ EndOfStream(t) \/ Verify(t) \/ Rename(t) \/ Return(t)

Next ==
  \/ \E t \in Threads : Begin(t) \/ Step(t)
  \/ \E p \in Processes : Crash(p)
  \/ PowerLoss

Spec == Init /\ [][Next]_vars

\* A thread that waits for the endpoint: for the answer to its request, or for
\* the next bytes.  https_agent sets no timeout, so it may wait for ever.
AtEndpoint(t) == pc[t] \in {"connect", "stream"}

\* A thread that can go on by itself does; the endpoint owes nothing.
Fairness == \A t \in Threads : WF_vars(~AtEndpoint(t) /\ Step(t))

\* No endpoint stays silent for ever: it answers, sends, ends or breaks off.
EndpointAnswers == \A t \in Threads : WF_vars(AtEndpoint(t) /\ Step(t))

FairSpec == Spec /\ Fairness
-----------------------------------------------------------------------------
(* Properties *)

TypeOK ==
  /\ signature \in Signatures
  /\ lock \in [Processes -> Threads \cup {NoThread}]
  /\ pc \in [Threads -> {"idle", "lock", "hit", "prepare", "connect", "stream",
                         "verify", "rename", "ok", "err"}]
  /\ name \in [Names -> Inodes \cup {NoFile}]
  /\ inode \in [Inodes -> Seq(Chunks \cup {"hole"})]
  /\ fd \in [Threads -> Inodes \cup {NoFile}]
  /\ got \in [Threads -> Seq(Chunks)]
  /\ calls \in [Threads -> 0..MaxCalls]
  /\ crashes \in 0..MaxCrashes

\* "Stream url to dest and verify" (download.rs:66): a call that succeeds
\* leaves, or finds, the whole model in the cache and its signature accepted,
\* whatever earlier calls, crashes and endpoints did.
OkMeansVerified ==
  \A t \in Threads : pc[t] = "ok" =>
    Content("dest") = Expected /\ signature \in {"none", "valid"}

\* "A partial file is never seen as cached" (download.rs:163): short of a
\* power loss the destination changes only into the complete model, so a good
\* file is never lost to a later attempt and a torn one never appears.
BecomesGood == Content("dest")' # Content("dest") => Content("dest")' = Expected \/ PowerLoss
CacheOnlyBecomesGood == [][BecomesGood]_vars

\* "The on-disk .partial never exceeds the limit" (download.rs:345).
PartialWithinCap == Exists("partial") => Len(Content("partial")) <= Cap

\* Every call ends while no endpoint stays silent for ever, even against one
\* that never stops sending: the cap cuts it off and the lock is passed on.
\* Against a silent one neither that call nor those behind its lock end.
CallsEnd == EndpointAnswers => \A t \in Threads : pc[t] = "lock" ~> pc[t] = "idle"

-----------------------------------------------------------------------------
(* Why the first three hold when one process has the cache directory        *)

\* DOWNLOAD_LOCK is of a process: it keeps only its own threads apart.
SameProcess == \A s, t \in Threads : ProcessOf[s] = ProcessOf[t]

\* Nothing on disk outgrows the cap, and nobody streams more than it.
WithinCap ==
  /\ \A i \in Inodes : Len(inode[i]) <= Cap
  /\ \A t \in Threads : Len(got[t]) <= Cap

\* A thread past the lock holds it, and only a thread that streams has a file
\* open.
LockIsHeld ==
  \A t \in Threads :
    /\ pc[t] \notin {"idle", "lock"} => lock[ProcessOf[t]] = t
    /\ pc[t] # "stream" => fd[t] = NoFile

\* A call hashes its own chunks from the first on.
StartsEmpty ==
  \A t \in Threads : pc[t] \in {"lock", "hit", "prepare", "connect"} => got[t] = <<>>

\* The partial name and the destination never point to one inode.
NamesDiffer == Exists("dest") => name["dest"] # name["partial"]

\* The partial file is what the call that streams or verifies has hashed.
PartialIsHashed ==
  \A t \in Threads :
    /\ pc[t] = "stream" => fd[t] = name["partial"]
    /\ pc[t] \in {"stream", "verify", "rename"} => Content("partial") = got[t] /\ Exists("partial")
    /\ pc[t] = "rename" => got[t] = Expected /\ signature \in {"none", "valid"}

IInv ==
  /\ TypeOK /\ WithinCap /\ LockIsHeld /\ StartsEmpty /\ NamesDiffer /\ PartialIsHashed
  /\ OkMeansVerified
=============================================================================
