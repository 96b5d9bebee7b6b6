------------------------ MODULE ModelDownloadProofs ------------------------
(***************************************************************************)
(* Proofs about ModelDownload when one process has the cache directory,    *)
(* for every number of threads, calls, crashes and power losses, every     *)
(* size, cap and manifest entry: a call that succeeds leaves the verified  *)
(* model in the cache, and the cached file only ever becomes the model.    *)
(* With a second process this is false (run download_two_processes).       *)
(***************************************************************************)
EXTENDS ModelDownload, SequenceTheorems, FiniteSetTheorems, TLAPS

Stored == Chunks \cup {"hole"}

(* There are inodes for both names and one more per thread.                *)
LEMMA SomeInodes ==
  ASSUME ModelDownloadAssumption
  PROVE  /\ Inodes \subseteq Nat /\ NoFile \notin Inodes
         /\ {1, 2} \subseteq Inodes
<1>1. Cardinality(Threads) \in Nat
  BY FS_CardinalityType DEF ModelDownloadAssumption
<1>2. Cardinality(Names) = 2
  <2>1. IsFiniteSet({"dest"}) /\ Cardinality({"dest"}) = 1
    BY FS_Singleton
  <2>2. Cardinality({"dest"} \cup {"partial"}) = 2
    BY <2>1, FS_AddElement
  <2>3. Names = {"dest"} \cup {"partial"}
    BY DEF Names
  <2> QED
    BY <2>2, <2>3
<1> QED
  BY <1>1, <1>2 DEF Inodes, ModelDownloadAssumption

LEMMA ChunkSeqs ==
  /\ \A s \in Seq(Chunks) : s \in Seq(Stored) /\ Len(s) \in Nat
  /\ \A s \in Seq(Stored) : Len(s) \in Nat
  /\ <<>> \in Seq(Chunks) /\ Len(<<>>) = 0
<1>1. Chunks \subseteq Stored
  BY DEF Stored
<1> QED
  BY <1>1, SeqMonotonic, LenProperties, EmptySeq

(* A list of n chunks of one kind.                                         *)
LEMMA AllTheSame ==
  ASSUME NEW n \in Nat, NEW c \in Chunks
  PROVE  /\ [i \in 1..n |-> c] \in Seq(Chunks)
         /\ Len([i \in 1..n |-> c]) = n
<1> DEFINE s == [i \in 1..n |-> c]
<1>1. s \in [1..n -> Chunks]
  OBVIOUS
<1>2. s \in Seq(Chunks)
  BY <1>1, SeqDef
<1>3. DOMAIN s = 1..n /\ DOMAIN s = 1..Len(s) /\ Len(s) \in Nat
  BY <1>2, LenProperties
<1> QED
  BY <1>2, <1>3

(* A chunk written just past the end of a file is appended to it.          *)
LEMMA PutAtEnd ==
  ASSUME NEW s \in Seq(Stored), NEW c \in Stored
  PROVE  Put(s, Len(s) + 1, c) = Append(s, c)
<1>1. Len(s) \in Nat /\ \A i \in 1..Len(s) : s[i] \in Stored
  BY LenProperties, ElementOfSeq
<1> DEFINE p == Put(s, Len(s) + 1, c)
<1>2. p = [i \in 1..(Len(s) + 1) |->
             IF i = Len(s) + 1 THEN c ELSE IF i <= Len(s) THEN s[i] ELSE "hole"]
  BY <1>1 DEF Put
<1> HIDE DEF p
<1>3. p \in [1..(Len(s) + 1) -> Stored]
  BY <1>1, <1>2
<1>4. p \in Seq(Stored)
  BY <1>1, <1>3, SeqDef
<1>5. DOMAIN p = 1..(Len(s) + 1) /\ DOMAIN p = 1..Len(p) /\ Len(p) \in Nat
  BY <1>3, <1>4, LenProperties
<1>6. Len(p) = Len(s) + 1
  BY <1>1, <1>5
<1>7. /\ Append(s, c) \in Seq(Stored) /\ Len(Append(s, c)) = Len(s) + 1
      /\ \A i \in 1..Len(s) : Append(s, c)[i] = s[i]
      /\ Append(s, c)[Len(s) + 1] = c
  BY AppendProperties
<1>8. \A i \in 1..Len(p) : p[i] = Append(s, c)[i]
  BY <1>1, <1>2, <1>6, <1>7
<1>9. p = Append(s, c)
  BY <1>4, <1>6, <1>7, <1>8, SeqEqual
<1> QED
  BY <1>9 DEF p
-----------------------------------------------------------------------------
(* An earlier life of the cache leaves nothing that counts as streamed.    *)
LEMMA InitInv == ASSUME ModelDownloadAssumption, Init PROVE IInv
<1> USE DEF Init
<1>1. PICK d \in {NoFile, Expected, <<"bad">>},
           p \in {NoFile, <<"good">>, [i \in 1..Cap |-> "bad"]} :
        /\ name = [dest |-> IF d = NoFile THEN NoFile ELSE 1,
                   partial |-> IF p = NoFile THEN NoFile ELSE 2]
        /\ inode = [i \in Inodes |-> IF i = name["dest"] THEN d
                                     ELSE IF i = name["partial"] THEN p ELSE <<>>]
  BY DEF Init
<1>2. Size \in Nat /\ Cap \in Nat /\ 1 <= Cap /\ Size <= Cap
  BY DEF ModelDownloadAssumption
<1>3. \A s \in {Expected, <<"bad">>, <<"good">>, [i \in 1..Cap |-> "bad"], <<>>} :
        s \in Seq(Stored) /\ Len(s) <= Cap
  <2>1. Expected \in Seq(Chunks) /\ Len(Expected) = Size
    BY <1>2, AllTheSame DEF Expected, Chunks
  <2>2. [i \in 1..Cap |-> "bad"] \in Seq(Chunks) /\ Len([i \in 1..Cap |-> "bad"]) = Cap
    BY <1>2, AllTheSame DEF Chunks
  <2>3. /\ <<"bad">> \in Seq(Chunks) /\ Len(<<"bad">>) = 1
        /\ <<"good">> \in Seq(Chunks) /\ Len(<<"good">>) = 1
    BY DEF Chunks
  <2>4. <<>> \in Seq(Chunks) /\ Len(<<>>) = 0
    BY ChunkSeqs
  <2> DEFINE Old == {Expected, <<"bad">>, <<"good">>, [i \in 1..Cap |-> "bad"], <<>>}
  <2>5. \A s \in Old : s \in Seq(Chunks)
    BY <2>1, <2>2, <2>3, <2>4
  <2>6. \A s \in Old : Len(s) \in {Size, 1, Cap, 0}
    BY <2>1, <2>2, <2>3, <2>4
  <2> HIDE DEF Old
  <2>7. \A n \in {Size, 1, Cap, 0} : n <= Cap
    BY <1>2
  <2>8. \A s \in Old : s \in Seq(Stored) /\ Len(s) <= Cap
    BY <2>5, <2>6, <2>7, ChunkSeqs
  <2> QED
    BY <2>8 DEF Old
<1>4. /\ name \in [Names -> Inodes \cup {NoFile}]
      /\ name["dest"] = (IF d = NoFile THEN NoFile ELSE 1)
      /\ name["partial"] = (IF p = NoFile THEN NoFile ELSE 2)
  BY <1>1, SomeInodes DEF Names
<1>5. \A i \in Inodes : inode[i] \in Seq(Stored) /\ Len(inode[i]) <= Cap
  <2> SUFFICES ASSUME NEW i \in Inodes
               PROVE  inode[i] \in Seq(Stored) /\ Len(inode[i]) <= Cap
    OBVIOUS
  <2>1. i # NoFile
    BY SomeInodes
  <2>2. inode[i] \in {Expected, <<"bad">>, <<"good">>, [j \in 1..Cap |-> "bad"], <<>>}
    BY <1>1, <1>4, <2>1
  <2> QED
    BY <1>3, <2>2
<1>6. TypeOK
  <2>1. inode \in [Inodes -> Seq(Chunks \cup {"hole"})]
    BY <1>1, <1>5 DEF Stored
  <2>2. got \in [Threads -> Seq(Chunks)]
    BY ChunkSeqs
  <2> QED
    BY <1>4, <2>1, <2>2 DEF TypeOK, ModelDownloadAssumption
<1>7. WithinCap
  BY <1>2, <1>5, ChunkSeqs DEF WithinCap
<1>8. NamesDiffer
  BY <1>4 DEF NamesDiffer, Exists, ModelDownloadAssumption
<1> QED
  BY <1>6, <1>7, <1>8 DEF IInv, LockIsHeld, StartsEmpty, PartialIsHashed, OkMeansVerified
-----------------------------------------------------------------------------
LEMMA GotoEffect ==
  ASSUME TypeOK, NEW t \in Threads, NEW from, NEW to, Goto(t, from, to)
  PROVE  /\ pc[t] = from /\ pc'[t] = to
         /\ \A s \in Threads : s # t => pc'[s] = pc[s]
         /\ pc' = [pc EXCEPT ![t] = to]
  BY DEF Goto, TypeOK

(* The lock leaves nobody else past it, so nobody else has a file open.    *)
LEMMA Alone ==
  ASSUME SameProcess, IInv, NEW t \in Threads, pc[t] \notin {"idle", "lock"}
  PROVE  \A s \in Threads : s # t => pc[s] \in {"idle", "lock"} /\ fd[s] = NoFile
<1> SUFFICES ASSUME NEW s \in Threads, s # t
             PROVE  pc[s] \in {"idle", "lock"} /\ fd[s] = NoFile
  OBVIOUS
<1>1. lock[ProcessOf[t]] = t /\ ProcessOf[s] = ProcessOf[t]
  BY DEF SameProcess, IInv, LockIsHeld
<1>2. pc[s] \in {"idle", "lock"}
  BY <1>1 DEF IInv, LockIsHeld
<1> QED
  BY <1>2 DEF IInv, LockIsHeld

(* A call begins with nothing hashed, outside the lock.                    *)
LEMMA BeginInv ==
  ASSUME ModelDownloadAssumption, SameProcess, IInv, NEW t \in Threads, Begin(t)
  PROVE  IInv'
<1> USE DEF IInv
<1>1. /\ Goto(t, "idle", "lock") /\ calls[t] < MaxCalls
      /\ calls' = [calls EXCEPT ![t] = @ + 1] /\ got' = [got EXCEPT ![t] = <<>>]
  BY DEF Begin
<1>2. UNCHANGED <<signature, lock, name, inode, fd, crashes>>
  BY DEF Begin
<1>3. /\ pc[t] = "idle" /\ pc'[t] = "lock" /\ pc' = [pc EXCEPT ![t] = "lock"]
      /\ \A s \in Threads : s # t => pc'[s] = pc[s] /\ got'[s] = got[s]
      /\ got'[t] = <<>>
  BY <1>1, GotoEffect DEF TypeOK
<1>4. TypeOK'
  <2>1. calls' \in [Threads -> 0..MaxCalls]
    BY <1>1 DEF TypeOK, ModelDownloadAssumption
  <2>2. got' \in [Threads -> Seq(Chunks)]
    BY <1>1, ChunkSeqs DEF TypeOK
  <2> QED
    BY <1>2, <1>3, <2>1, <2>2 DEF TypeOK, Inodes
<1>5. WithinCap'
  BY <1>2, <1>3, ChunkSeqs DEF WithinCap, ModelDownloadAssumption, Inodes
<1>6. LockIsHeld' /\ StartsEmpty'
  BY <1>2, <1>3 DEF LockIsHeld, StartsEmpty
<1>7. NamesDiffer' /\ PartialIsHashed' /\ OkMeansVerified'
  BY <1>2, <1>3 DEF NamesDiffer, PartialIsHashed, OkMeansVerified, Content, Exists
<1> QED
  BY <1>4, <1>5, <1>6, <1>7

(* The lock is taken when nobody holds it.                                 *)
LEMMA LockInv ==
  ASSUME ModelDownloadAssumption, SameProcess, IInv, NEW t \in Threads, Lock(t)
  PROVE  IInv'
<1> USE DEF IInv
<1>1. /\ Goto(t, "lock", "hit") /\ lock[ProcessOf[t]] = NoThread
      /\ lock' = [lock EXCEPT ![ProcessOf[t]] = t]
  BY DEF Lock
<1>2. UNCHANGED <<signature, name, inode, fd, got, calls, crashes>>
  BY DEF Lock
<1>3. /\ pc[t] = "lock" /\ pc'[t] = "hit" /\ pc' = [pc EXCEPT ![t] = "hit"]
      /\ \A s \in Threads : s # t => pc'[s] = pc[s]
  BY <1>1, GotoEffect
<1>4. TypeOK'
  BY <1>1, <1>2, <1>3 DEF TypeOK, Inodes
<1>5. LockIsHeld'
  <2>1. ProcessOf[t] \in Processes /\ NoThread \notin Threads
    BY DEF ModelDownloadAssumption
  <2>2. \A s \in Threads : s # t => pc[s] \in {"idle", "lock"}
    BY <1>1, <2>1 DEF LockIsHeld, SameProcess
  <2> QED
    BY <1>1, <1>2, <1>3, <2>1, <2>2 DEF LockIsHeld, TypeOK
<1>6. WithinCap' /\ StartsEmpty'
  BY <1>2, <1>3 DEF WithinCap, StartsEmpty, Inodes
<1>7. NamesDiffer' /\ PartialIsHashed' /\ OkMeansVerified'
  BY <1>2, <1>3 DEF NamesDiffer, PartialIsHashed, OkMeansVerified, Content, Exists
<1> QED
  BY <1>4, <1>5, <1>6, <1>7

(* Up to the connection a call only reads: a good file serves it when the  *)
(* signature does.                                                         *)
LEMMA LookInv ==
  ASSUME ModelDownloadAssumption, SameProcess, IInv, NEW t \in Threads,
         ServeCacheHit(t) \/ Prepare(t) \/ ConnectFails(t)
  PROVE  IInv'
<1> USE DEF IInv
<1>1. UNCHANGED <<signature, lock, name, inode, fd, got, calls, crashes>>
  BY DEF ServeCacheHit, Prepare, ConnectFails
<1>2. PICK from \in {"hit", "prepare", "connect"},
           to \in {"ok", "err", "prepare", "connect"} :
        /\ Goto(t, from, to)
        /\ to = "ok" => Content("dest") = Expected /\ signature \in {"none", "valid"}
  BY DEF ServeCacheHit, Prepare, ConnectFails
<1>3. /\ pc[t] = from /\ pc'[t] = to /\ pc' = [pc EXCEPT ![t] = to]
      /\ \A s \in Threads : s # t => pc'[s] = pc[s]
  BY <1>2, GotoEffect
<1>4. TypeOK'
  BY <1>1, <1>3 DEF TypeOK, Inodes
<1>5. LockIsHeld'
  BY <1>1, <1>3 DEF LockIsHeld
<1>6. WithinCap' /\ StartsEmpty'
  BY <1>1, <1>3 DEF WithinCap, StartsEmpty, Inodes
<1>7. NamesDiffer' /\ PartialIsHashed'
  BY <1>1, <1>3 DEF NamesDiffer, PartialIsHashed, Content, Exists
<1>8. OkMeansVerified'
  BY <1>1, <1>2, <1>3 DEF OkMeansVerified, Content, Exists
<1> QED
  BY <1>4, <1>5, <1>6, <1>7, <1>8

(* Creating the partial file empties it, and never the destination: with   *)
(* no other file open there is an inode that neither name points to.       *)
LEMMA CreateEffect ==
  ASSUME ModelDownloadAssumption, SameProcess, IInv, NEW t \in Threads, CreatePartial(t)
  PROVE  \E i \in Inodes :
           /\ name' = [name EXCEPT !["partial"] = i]
           /\ inode' = [inode EXCEPT ![i] = <<>>]
           /\ fd' = [fd EXCEPT ![t] = i]
           /\ i # name["dest"]
<1> USE DEF IInv
<1> DEFINE used == {name[n] : n \in Names} \cup {fd[s] : s \in Threads}
<1>1. pc[t] = "connect"
  BY DEF CreatePartial, Goto
<1>2. \A s \in Threads : fd[s] = NoFile
  BY <1>1, Alone DEF LockIsHeld
<1>3. CASE Exists("partial")
  <2>1. name["partial"] \in Inodes /\ name["partial"] # name["dest"]
    BY <1>3 DEF TypeOK, Names, Exists, NamesDiffer
  <2> QED
    BY <1>3, <2>1 DEF CreatePartial
<1>4. CASE ~Exists("partial")
  <2>1. \A i \in used : i = name["dest"] \/ i = NoFile
    BY <1>2, <1>4 DEF Names, Exists
  <2>2. \E i \in Inodes : i \notin used
    <3>1. 1 \in Inodes /\ 2 \in Inodes /\ NoFile \notin Inodes
      BY SomeInodes
    <3> HIDE DEF used
    <3>2. CASE name["dest"] = 1
      BY <2>1, <3>1, <3>2
    <3>3. CASE name["dest"] # 1
      BY <2>1, <3>1, <3>3
    <3> QED
      BY <3>2, <3>3
  <2>3. FreeInode \in Inodes /\ FreeInode \notin used
    BY <2>2 DEF FreeInode
  <2>4. FreeInode # name["dest"]
    BY <2>3 DEF Names
  <2> QED
    BY <1>4, <2>3, <2>4 DEF CreatePartial
<1> QED
  BY <1>3, <1>4

LEMMA CreatePartialInv ==
  ASSUME ModelDownloadAssumption, SameProcess, IInv, NEW t \in Threads, CreatePartial(t)
  PROVE  IInv'
<1> USE DEF IInv
<1>1. PICK i \in Inodes :
        /\ name' = [name EXCEPT !["partial"] = i]
        /\ inode' = [inode EXCEPT ![i] = <<>>]
        /\ fd' = [fd EXCEPT ![t] = i]
        /\ i # name["dest"]
  BY CreateEffect
<1>2. Goto(t, "connect", "stream") /\ UNCHANGED <<signature, lock, got, calls, crashes>>
  BY DEF CreatePartial
<1>3. /\ pc[t] = "connect" /\ pc'[t] = "stream" /\ pc' = [pc EXCEPT ![t] = "stream"]
      /\ \A s \in Threads : s # t => pc'[s] = pc[s] /\ pc[s] \in {"idle", "lock"}
  BY <1>2, GotoEffect, Alone
<1>4. /\ name'["partial"] = i /\ name'["dest"] = name["dest"]
      /\ inode'[i] = <<>> /\ \A j \in Inodes : j # i => inode'[j] = inode[j]
      /\ fd'[t] = i /\ \A s \in Threads : s # t => fd'[s] = fd[s]
  BY <1>1 DEF TypeOK, Names
<1>5. TypeOK'
  <2>1. inode' \in [Inodes -> Seq(Chunks \cup {"hole"})]
    BY <1>1, ChunkSeqs DEF TypeOK, Stored
  <2>2. name' \in [Names -> Inodes \cup {NoFile}] /\ fd' \in [Threads -> Inodes \cup {NoFile}]
    BY <1>1 DEF TypeOK, Names
  <2> QED
    BY <1>2, <1>3, <2>1, <2>2 DEF TypeOK, Inodes
<1>6. WithinCap'
  BY <1>2, <1>4, ChunkSeqs DEF WithinCap, Inodes, ModelDownloadAssumption
<1>7. LockIsHeld'
  BY <1>2, <1>3, <1>4 DEF LockIsHeld
<1>8. StartsEmpty'
  BY <1>2, <1>3 DEF StartsEmpty
<1>9. NamesDiffer'
  BY <1>1, <1>4 DEF NamesDiffer, Exists
<1>10. PartialIsHashed'
  <2>1. got[t] = <<>> /\ i # NoFile
    BY <1>3, SomeInodes DEF StartsEmpty
  <2>2. Content("partial")' = <<>> /\ Exists("partial")'
    BY <1>4, <2>1 DEF Content, Exists
  <2> QED
    BY <1>2, <1>3, <1>4, <2>1, <2>2 DEF PartialIsHashed
<1>11. OkMeansVerified'
  BY <1>3 DEF OkMeansVerified
<1> QED
  BY <1>5, <1>6, <1>7, <1>8, <1>9, <1>10, <1>11

(* A chunk goes to the end of the partial file and to the hash.            *)
LEMMA WriteEffect ==
  ASSUME ModelDownloadAssumption, SameProcess, IInv, NEW t \in Threads, WriteChunk(t)
  PROVE  /\ fd[t] \in Inodes /\ fd[t] = name["partial"] /\ inode[fd[t]] = got[t]
         /\ Exists("partial") /\ fd[t] # name["dest"]
         /\ \E c \in Chunks :
              /\ inode' = [inode EXCEPT ![fd[t]] = Append(got[t], c)]
              /\ got' = [got EXCEPT ![t] = Append(got[t], c)]
<1> USE DEF IInv
<1>1. pc[t] = "stream"
  BY DEF WriteChunk, Goto
<1>2. fd[t] = name["partial"] /\ Exists("partial") /\ Content("partial") = got[t]
  BY <1>1 DEF PartialIsHashed
<1>3. fd[t] \in Inodes /\ inode[fd[t]] = got[t]
  BY <1>2 DEF TypeOK, Content, Exists, Names
<1>4. fd[t] # name["dest"]
  BY <1>2 DEF NamesDiffer, Exists
<1>5. PICK c \in Chunks :
        /\ inode' = [inode EXCEPT ![fd[t]] = Put(@, Len(got[t]) + 1, c)]
        /\ got' = [got EXCEPT ![t] = Append(@, c)]
  BY DEF WriteChunk
<1>6. inode' = [inode EXCEPT ![fd[t]] = Put(got[t], Len(got[t]) + 1, c)]
  BY <1>3, <1>5 DEF TypeOK
<1>7. Put(got[t], Len(got[t]) + 1, c) = Append(got[t], c)
  <2>1. got[t] \in Seq(Stored) /\ c \in Stored
    BY ChunkSeqs DEF TypeOK, Stored
  <2> QED
    BY <2>1, PutAtEnd
<1>8. got' = [got EXCEPT ![t] = Append(got[t], c)]
  BY <1>5 DEF TypeOK
<1> QED
  BY <1>2, <1>3, <1>4, <1>6, <1>7, <1>8

LEMMA WriteChunkInv ==
  ASSUME ModelDownloadAssumption, SameProcess, IInv, NEW t \in Threads, WriteChunk(t)
  PROVE  IInv'
<1> USE DEF IInv
<1>1. /\ fd[t] \in Inodes /\ fd[t] = name["partial"] /\ inode[fd[t]] = got[t]
      /\ Exists("partial") /\ fd[t] # name["dest"]
  BY WriteEffect
<1>2. PICK c \in Chunks :
        /\ inode' = [inode EXCEPT ![fd[t]] = Append(got[t], c)]
        /\ got' = [got EXCEPT ![t] = Append(got[t], c)]
  BY WriteEffect
<1>3. /\ Goto(t, "stream", "stream") /\ Len(got[t]) + 1 <= Cap
      /\ UNCHANGED <<signature, lock, name, fd, calls, crashes>>
  BY DEF WriteChunk
<1>4. /\ pc[t] = "stream" /\ pc'[t] = "stream" /\ pc' = [pc EXCEPT ![t] = "stream"]
      /\ \A s \in Threads : s # t => pc'[s] = pc[s] /\ pc[s] \in {"idle", "lock"}
  BY <1>3, GotoEffect, Alone
<1> DEFINE new == Append(got[t], c)
<1>5. new \in Seq(Chunks) /\ Len(new) = Len(got[t]) + 1
  BY AppendProperties DEF TypeOK
<1> HIDE DEF new
<1>6. /\ inode'[fd[t]] = new /\ \A i \in Inodes : i # fd[t] => inode'[i] = inode[i]
      /\ got'[t] = new /\ \A s \in Threads : s # t => got'[s] = got[s]
  BY <1>1, <1>2 DEF TypeOK, new
<1>7. TypeOK'
  <2>1. inode' \in [Inodes -> Seq(Chunks \cup {"hole"})]
    BY <1>1, <1>2, <1>5, ChunkSeqs DEF TypeOK, Stored, new
  <2>2. got' \in [Threads -> Seq(Chunks)]
    BY <1>2, <1>5 DEF TypeOK, new
  <2> QED
    BY <1>3, <1>4, <2>1, <2>2 DEF TypeOK, Inodes
<1>8. WithinCap'
  BY <1>3, <1>5, <1>6 DEF WithinCap, Inodes
<1>9. LockIsHeld' /\ StartsEmpty'
  BY <1>3, <1>4, <1>6 DEF LockIsHeld, StartsEmpty
<1>10. NamesDiffer'
  BY <1>3 DEF NamesDiffer, Exists
<1>11. PartialIsHashed'
  <2>1. Content("partial")' = new /\ Exists("partial")'
    BY <1>1, <1>3, <1>6 DEF Content, Exists
  <2> QED
    BY <1>1, <1>3, <1>4, <1>6, <2>1 DEF PartialIsHashed
<1>12. OkMeansVerified'
  BY <1>4 DEF OkMeansVerified
<1> QED
  BY <1>7, <1>8, <1>9, <1>10, <1>11, <1>12

(* The stream ends, and its file is closed; only a call that fails may     *)
(* remove the partial name.                                                *)
LEMMA CloseInv ==
  ASSUME ModelDownloadAssumption, SameProcess, IInv, NEW t \in Threads,
         TooLarge(t) \/ StreamFails(t) \/ EndOfStream(t)
  PROVE  IInv'
<1> USE DEF IInv
<1>1. PICK to \in {"err", "verify"} :
        /\ Goto(t, "stream", to) /\ Close(t)
        /\ (UNCHANGED name) \/ (to = "err" /\ Unlink("partial"))
  BY DEF TooLarge, StreamFails, EndOfStream
<1>2. UNCHANGED <<signature, lock, inode, got, calls, crashes>>
  BY DEF TooLarge, StreamFails, EndOfStream
<1>3. /\ pc[t] = "stream" /\ pc'[t] = to /\ pc' = [pc EXCEPT ![t] = to]
      /\ \A s \in Threads : s # t => pc'[s] = pc[s] /\ pc[s] \in {"idle", "lock"}
  BY <1>1, GotoEffect, Alone
<1>4. /\ fd' = [fd EXCEPT ![t] = NoFile] /\ fd'[t] = NoFile
      /\ \A s \in Threads : s # t => fd'[s] = fd[s]
  BY <1>1 DEF Close, TypeOK
<1>5. /\ name' \in [Names -> Inodes \cup {NoFile}] /\ name'["dest"] = name["dest"]
      /\ name'["partial"] \in {name["partial"], NoFile}
      /\ to = "verify" => name' = name
  BY <1>1 DEF Unlink, TypeOK, Names
<1>6. TypeOK'
  BY <1>2, <1>3, <1>4, <1>5 DEF TypeOK, Inodes
<1>7. WithinCap'
  BY <1>2 DEF WithinCap, Inodes
<1>8. LockIsHeld' /\ StartsEmpty'
  BY <1>2, <1>3, <1>4 DEF LockIsHeld, StartsEmpty
<1>9. NamesDiffer'
  BY <1>5 DEF NamesDiffer, Exists
<1>10. PartialIsHashed'
  BY <1>2, <1>3, <1>5 DEF PartialIsHashed, Content, Exists
<1>11. OkMeansVerified'
  BY <1>3 DEF OkMeansVerified
<1> QED
  BY <1>6, <1>7, <1>8, <1>9, <1>10, <1>11

(* Only what hashes to the model, under an accepted signature, goes on.    *)
LEMMA VerifyInv ==
  ASSUME ModelDownloadAssumption, SameProcess, IInv, NEW t \in Threads, Verify(t)
  PROVE  IInv'
<1> USE DEF IInv
<1>1. PICK to \in {"err", "rename"} :
        /\ Goto(t, "verify", to)
        /\ (to = "rename" /\ UNCHANGED name) \/ (to = "err" /\ Unlink("partial"))
        /\ to = "rename" => got[t] = Expected /\ signature \in {"none", "valid"}
  BY DEF Verify
<1>2. UNCHANGED <<signature, lock, inode, fd, got, calls, crashes>>
  BY DEF Verify
<1>3. /\ pc[t] = "verify" /\ pc'[t] = to /\ pc' = [pc EXCEPT ![t] = to]
      /\ \A s \in Threads : s # t => pc'[s] = pc[s] /\ pc[s] \in {"idle", "lock"}
  BY <1>1, GotoEffect, Alone
<1>4. /\ name' \in [Names -> Inodes \cup {NoFile}] /\ name'["dest"] = name["dest"]
      /\ name'["partial"] \in {name["partial"], NoFile}
      /\ to = "rename" => name' = name
  BY <1>1 DEF Unlink, TypeOK, Names
<1>5. TypeOK'
  BY <1>2, <1>3, <1>4 DEF TypeOK, Inodes
<1>6. WithinCap' /\ LockIsHeld' /\ StartsEmpty'
  BY <1>2, <1>3 DEF WithinCap, LockIsHeld, StartsEmpty, Inodes
<1>7. NamesDiffer'
  BY <1>4 DEF NamesDiffer, Exists
<1>8. PartialIsHashed'
  BY <1>1, <1>2, <1>3, <1>4 DEF PartialIsHashed, Content, Exists
<1>9. OkMeansVerified'
  BY <1>3 DEF OkMeansVerified
<1> QED
  BY <1>5, <1>6, <1>7, <1>8, <1>9

(* The rename puts the verified file in place.                             *)
LEMMA RenameInv ==
  ASSUME ModelDownloadAssumption, SameProcess, IInv, NEW t \in Threads, Rename(t)
  PROVE  /\ IInv'
         /\ Content("dest")' # Content("dest") => Content("dest")' = Expected
<1> USE DEF IInv
<1>1. /\ pc[t] = "rename" /\ Exists("partial") /\ Content("partial") = got[t]
      /\ got[t] = Expected /\ signature \in {"none", "valid"}
  BY DEF Rename, Goto, PartialIsHashed
<1>2. /\ Goto(t, "rename", "ok")
      /\ name' = [dest |-> name["partial"], partial |-> NoFile]
      /\ UNCHANGED <<signature, lock, inode, fd, got, calls, crashes>>
  BY <1>1 DEF Rename
<1>3. /\ pc'[t] = "ok" /\ pc' = [pc EXCEPT ![t] = "ok"]
      /\ \A s \in Threads : s # t => pc'[s] = pc[s] /\ pc[s] \in {"idle", "lock"}
  BY <1>1, <1>2, GotoEffect, Alone
<1>4. /\ name'["dest"] = name["partial"] /\ name'["partial"] = NoFile
      /\ name' \in [Names -> Inodes \cup {NoFile}]
  BY <1>2 DEF TypeOK, Names
<1>5. Content("dest")' = Expected
  BY <1>1, <1>2, <1>4 DEF Content, Exists
<1>6. TypeOK'
  BY <1>2, <1>3, <1>4 DEF TypeOK, Inodes
<1>7. WithinCap' /\ LockIsHeld' /\ StartsEmpty'
  BY <1>1, <1>2, <1>3 DEF WithinCap, LockIsHeld, StartsEmpty, Inodes
<1>8. NamesDiffer'
  BY <1>4 DEF NamesDiffer, Exists
<1>9. PartialIsHashed'
  BY <1>2, <1>3, <1>4 DEF PartialIsHashed, Content, Exists
<1>10. OkMeansVerified'
  BY <1>1, <1>2, <1>3, <1>5 DEF OkMeansVerified
<1> QED
  BY <1>5, <1>6, <1>7, <1>8, <1>9, <1>10

LEMMA ReturnInv ==
  ASSUME ModelDownloadAssumption, SameProcess, IInv, NEW t \in Threads, Return(t)
  PROVE  IInv'
<1> USE DEF IInv
<1>1. /\ pc[t] \in {"ok", "err"} /\ pc' = [pc EXCEPT ![t] = "idle"]
      /\ lock' = [lock EXCEPT ![ProcessOf[t]] = NoThread]
      /\ UNCHANGED <<signature, name, inode, fd, got, calls, crashes>>
  BY DEF Return
<1>2. /\ pc'[t] = "idle"
      /\ \A s \in Threads : s # t => pc'[s] = pc[s] /\ pc[s] \in {"idle", "lock"}
  BY <1>1, Alone DEF TypeOK
<1>3. TypeOK'
  BY <1>1 DEF TypeOK, Inodes
<1>4. WithinCap' /\ StartsEmpty'
  BY <1>1, <1>2 DEF WithinCap, StartsEmpty, Inodes
<1>5. LockIsHeld'
  BY <1>1, <1>2 DEF LockIsHeld
<1>6. NamesDiffer' /\ PartialIsHashed' /\ OkMeansVerified'
  BY <1>1, <1>2 DEF NamesDiffer, PartialIsHashed, OkMeansVerified, Content, Exists
<1> QED
  BY <1>3, <1>4, <1>5, <1>6
-----------------------------------------------------------------------------
(* A crash takes all the threads of the process or none, and what stays on *)
(* disk is never taken for streamed.                                       *)
LEMMA DieInv ==
  ASSUME ModelDownloadAssumption, SameProcess, IInv, NEW ps, Die(ps),
         inode' \in [Inodes -> Seq(Stored)], \A i \in Inodes : Len(inode'[i]) <= Cap,
         inode' = inode \/ ps = Processes
  PROVE  IInv'
<1> USE DEF IInv
<1>1. /\ crashes < MaxCrashes /\ crashes' = crashes + 1
      /\ lock' = [p \in Processes |-> IF p \in ps THEN NoThread ELSE lock[p]]
      /\ pc' = [t \in Threads |-> IF ProcessOf[t] \in ps THEN "idle" ELSE pc[t]]
      /\ fd' = [t \in Threads |-> IF ProcessOf[t] \in ps THEN NoFile ELSE fd[t]]
  BY DEF Die
<1>2. UNCHANGED <<signature, name, got, calls>>
  BY DEF Die
<1>3. TypeOK'
  <2>1. crashes' \in 0..MaxCrashes
    BY <1>1 DEF TypeOK, ModelDownloadAssumption
  <2>2. /\ lock' \in [Processes -> Threads \cup {NoThread}]
        /\ fd' \in [Threads -> Inodes \cup {NoFile}]
    BY <1>1 DEF TypeOK
  <2>3. pc' \in [Threads -> {"idle", "lock", "hit", "prepare", "connect", "stream",
                            "verify", "rename", "ok", "err"}]
    BY <1>1 DEF TypeOK
  <2> QED
    BY <1>2, <2>1, <2>2, <2>3 DEF TypeOK, Inodes, Stored
<1>4. WithinCap'
  BY <1>2 DEF WithinCap, Inodes
<1>5. NamesDiffer'
  BY <1>2 DEF NamesDiffer, Exists
<1>6. CASE \E t \in Threads : ProcessOf[t] \in ps
  <2>1. \A t \in Threads : pc'[t] = "idle" /\ fd'[t] = NoFile
    BY <1>1, <1>6 DEF SameProcess
  <2>2. LockIsHeld' /\ StartsEmpty' /\ PartialIsHashed' /\ OkMeansVerified'
    BY <2>1 DEF LockIsHeld, StartsEmpty, PartialIsHashed, OkMeansVerified
  <2> QED
    BY <1>3, <1>4, <1>5, <2>2
<1>7. CASE \A t \in Threads : ProcessOf[t] \notin ps
  <2>1. \A t \in Threads : /\ pc'[t] = pc[t] /\ fd'[t] = fd[t]
                           /\ lock'[ProcessOf[t]] = lock[ProcessOf[t]]
    BY <1>1, <1>7 DEF ModelDownloadAssumption
  <2>2. \A t \in Threads : inode' = inode
    BY <1>7 DEF ModelDownloadAssumption
  <2>3. LockIsHeld' /\ StartsEmpty'
    BY <1>2, <2>1 DEF LockIsHeld, StartsEmpty
  <2>4. PartialIsHashed' /\ OkMeansVerified'
    BY <1>2, <2>1, <2>2 DEF PartialIsHashed, OkMeansVerified, Content, Exists
  <2> QED
    BY <1>3, <1>4, <1>5, <2>3, <2>4
<1> QED
  BY <1>6, <1>7

LEMMA CrashInv ==
  ASSUME ModelDownloadAssumption, SameProcess, IInv, NEW p \in Processes, Crash(p)
  PROVE  IInv'
<1>1. Die({p}) /\ inode' = inode
  BY DEF Crash
<1>2. inode' \in [Inodes -> Seq(Stored)] /\ \A i \in Inodes : Len(inode'[i]) <= Cap
  BY <1>1 DEF IInv, TypeOK, WithinCap, Stored
<1> QED
  BY <1>1, <1>2, DieInv

(* A power loss keeps a prefix.                                            *)
LEMMA PowerLossInv ==
  ASSUME ModelDownloadAssumption, SameProcess, IInv, PowerLoss
  PROVE  IInv'
<1>1. PICK n \in Names, k \in 0..Cap :
        /\ Exists(n)
        /\ inode' = [inode EXCEPT ![name[n]] = SubSeq(@, 1, IF k < Len(@) THEN k ELSE Len(@))]
  BY DEF PowerLoss
<1>2. Die(Processes)
  BY DEF PowerLoss
<1> DEFINE i == name[n]
           old == inode[i]
           m == IF k < Len(old) THEN k ELSE Len(old)
<1>3. i \in Inodes /\ old \in Seq(Stored) /\ Len(old) \in Nat /\ Len(old) <= Cap
  BY <1>1, ChunkSeqs DEF IInv, TypeOK, WithinCap, Exists, Stored
<1>4. m \in 0..Len(old)
  BY <1>3 DEF ModelDownloadAssumption
<1>5. SubSeq(old, 1, m) \in Seq(Stored) /\ Len(SubSeq(old, 1, m)) <= Len(old)
  <2> HIDE DEF old, m
  <2>1. CASE m = 0
    <3>1. SubSeq(old, 1, m) = <<>>
      BY <1>3, <2>1, SubSeqProperties
    <3>2. <<>> \in Seq(Stored) /\ Len(<<>>) = 0
      BY ChunkSeqs
    <3>3. 0 <= Len(old)
      BY <1>3
    <3> QED
      BY <3>1, <3>2, <3>3
  <2>2. CASE m # 0
    <3>1. 1 \in 1..(Len(old) + 1) /\ m \in 0..Len(old) /\ 1 <= m + 1
      BY <1>3, <1>4
    <3>2. SubSeq(old, 1, m) \in Seq(Stored) /\ Len(SubSeq(old, 1, m)) = m - 1 + 1
      BY <1>3, <1>4, <2>2, <3>1, SubSeqProperties
    <3> QED
      BY <1>3, <1>4, <3>2
  <2> QED
    BY <2>1, <2>2
<1>6. inode' = [inode EXCEPT ![i] = SubSeq(old, 1, m)]
  BY <1>1, <1>3 DEF IInv, TypeOK
<1> HIDE DEF i, m, old
<1>7. inode' \in [Inodes -> Seq(Stored)]
  BY <1>5, <1>6 DEF IInv, TypeOK, Stored
<1>8. \A j \in Inodes : Len(inode'[j]) <= Cap
  <2>1. Len(SubSeq(old, 1, m)) <= Cap
    <3>1. Len(SubSeq(old, 1, m)) \in Nat
      BY <1>5, ChunkSeqs
    <3> QED
      BY <1>3, <1>5, <3>1 DEF ModelDownloadAssumption
  <2> QED
    BY <1>6, <2>1 DEF IInv, TypeOK, WithinCap
<1> QED
  BY <1>2, <1>7, <1>8, DieInv

LEMMA NextInv ==
  ASSUME ModelDownloadAssumption, SameProcess, IInv, [Next]_vars
  PROVE  IInv'
<1>1. CASE UNCHANGED vars
  BY <1>1 DEF vars, IInv, TypeOK, Inodes, WithinCap, LockIsHeld, StartsEmpty, NamesDiffer,
              PartialIsHashed, OkMeansVerified, Content, Exists
<1>2. ASSUME NEW t \in Threads, Begin(t) PROVE IInv'
  BY <1>2, BeginInv
<1>3. ASSUME NEW t \in Threads, Step(t) PROVE IInv'
  BY <1>3, LockInv, LookInv, CreatePartialInv, WriteChunkInv, CloseInv, VerifyInv, RenameInv,
     ReturnInv DEF Step
<1>4. ASSUME NEW p \in Processes, Crash(p) PROVE IInv'
  BY <1>4, CrashInv
<1>5. CASE PowerLoss
  BY <1>5, PowerLossInv
<1> QED
  BY <1>1, <1>2, <1>3, <1>4, <1>5 DEF Next
-----------------------------------------------------------------------------
(* Whatever calls, endpoints, crashes and power losses did, a call of the  *)
(* process that has the cache directory hashes what it streamed, holds the *)
(* lock alone, and never stages more than the cap.                         *)
THEOREM DownloadInvariance ==
  ASSUME ModelDownloadAssumption, SameProcess
  PROVE  Spec => []IInv
<1>1. Init => IInv
  BY InitInv
<1>2. IInv /\ [Next]_vars => IInv'
  BY NextInv
<1> QED
  BY <1>1, <1>2, PTL DEF Spec

(* A call that succeeds left, or found, the whole model in the cache and   *)
(* its signature accepted.                                                 *)
THEOREM OkMeansVerifiedAlways ==
  ASSUME ModelDownloadAssumption, SameProcess
  PROVE  Spec => []OkMeansVerified
<1>1. IInv => OkMeansVerified
  BY DEF IInv
<1> QED
  BY <1>1, DownloadInvariance, PTL

(* The partial file stays within the cap.                                  *)
LEMMA PartialFits ==
  ASSUME IInv PROVE PartialWithinCap
BY DEF IInv, TypeOK, WithinCap, PartialWithinCap, Content, Exists, Names

(* write_capped: no endpoint can make the staging file larger than the cap. *)
THEOREM PartialWithinCapAlways ==
  ASSUME ModelDownloadAssumption, SameProcess
  PROVE  Spec => []PartialWithinCap
<1>1. IInv => PartialWithinCap
  BY PartialFits
<1> QED
  BY <1>1, DownloadInvariance, PTL

(* Only a rename of the verified file, or a power loss, changes what the   *)
(* destination holds: creating and writing the partial file never touches  *)
(* its inode.                                                              *)
LEMMA DestOnlyBecomesGood ==
  ASSUME ModelDownloadAssumption, SameProcess, IInv, [Next]_vars
  PROVE  BecomesGood
<1> USE DEF IInv
<1>1. ASSUME UNCHANGED <<name, inode>> PROVE BecomesGood
  BY <1>1 DEF BecomesGood, Content, Exists
<1>2. ASSUME NEW t \in Threads, CreatePartial(t) PROVE BecomesGood
  <2>1. PICK i \in Inodes :
          /\ name' = [name EXCEPT !["partial"] = i]
          /\ inode' = [inode EXCEPT ![i] = <<>>]
          /\ i # name["dest"]
    BY <1>2, CreateEffect
  <2>2. name'["dest"] = name["dest"] /\ \A j \in Inodes : j # i => inode'[j] = inode[j]
    BY <2>1 DEF TypeOK, Names
  <2> QED
    BY <2>1, <2>2 DEF BecomesGood, Content, Exists, TypeOK, Names
<1>3. ASSUME NEW t \in Threads, WriteChunk(t) PROVE BecomesGood
  <2>1. /\ fd[t] \in Inodes /\ fd[t] # name["dest"]
        /\ \E c \in Chunks : inode' = [inode EXCEPT ![fd[t]] = Append(got[t], c)]
    BY <1>3, WriteEffect
  <2>2. name' = name /\ \A j \in Inodes : j # fd[t] => inode'[j] = inode[j]
    BY <1>3, <2>1 DEF WriteChunk, TypeOK
  <2> QED
    BY <2>1, <2>2 DEF BecomesGood, Content, Exists, TypeOK, Names
<1>4. ASSUME NEW t \in Threads, TooLarge(t) \/ Verify(t) PROVE BecomesGood
  <2>1. name'["dest"] = name["dest"] /\ inode' = inode
    BY <1>4 DEF TooLarge, Verify, Unlink, TypeOK, Names
  <2> QED
    BY <2>1 DEF BecomesGood, Content, Exists
<1>5. ASSUME NEW t \in Threads, Rename(t) PROVE BecomesGood
  BY <1>5, RenameInv DEF BecomesGood
<1>6. CASE PowerLoss
  BY <1>6 DEF BecomesGood
<1>7. ASSUME NEW t \in Threads,
             \/ Begin(t) \/ Lock(t) \/ ServeCacheHit(t) \/ Prepare(t) \/ ConnectFails(t)
             \/ StreamFails(t) \/ EndOfStream(t) \/ Return(t)
      PROVE  UNCHANGED <<name, inode>>
  BY <1>7 DEF Begin, Lock, ServeCacheHit, Prepare, ConnectFails, StreamFails, EndOfStream, Return
<1>8. ASSUME NEW p \in Processes, Crash(p) PROVE UNCHANGED <<name, inode>>
  BY <1>8 DEF Crash, Die
<1>9. CASE UNCHANGED vars
  BY <1>1, <1>9 DEF vars
<1>10. CASE Next
  BY <1>1, <1>2, <1>3, <1>4, <1>5, <1>6, <1>7, <1>8, <1>10 DEF Next, Step
<1> QED
  BY <1>9, <1>10

(* Short of a power loss, every step that changes what the destination      *)
(* holds makes it the whole model.                                         *)
THEOREM CacheOnlyBecomesGoodAlways ==
  ASSUME ModelDownloadAssumption, SameProcess
  PROVE  Spec => CacheOnlyBecomesGood
<1>1. IInv /\ [Next]_vars => BecomesGood
  BY DestOnlyBecomesGood
<1> QED
  BY <1>1, DownloadInvariance, PTL DEF Spec, CacheOnlyBecomesGood
=============================================================================
