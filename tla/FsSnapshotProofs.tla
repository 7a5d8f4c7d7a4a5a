------------------------- MODULE FsSnapshotProofs -------------------------
(***************************************************************************)
(* Theorems about FsSnapshot, for any callers, commits, paths, blobs and   *)
(* manifest versions, and any number of errors and crashes.                *)
(***************************************************************************)
EXTENDS FsSnapshot, TLAPS

\* What a caller about to take a step knows: the arguments of its call, that a
\* blob it links is there, and that the manifest it links for is written.
Good(p, o) ==
    /\ p = "write" => o.kind = "manifest"
    /\ p \in {"stat", "rename", "scan"} => o.kind = "blob"
    /\ p \in {"next"} \cup Linking => o.kind \in {"manifest", "blob"}
    /\ o.kind = "manifest" => o.commit \in Commits
    /\ o.kind = "manifest" /\ p \in {"next"} \cup Linking => o.commit \in stored
    /\ o.kind = "blob" => o.digest \in Blobs /\ \A f \in o.files : Digest(f) = o.digest
    /\ o.kind = "blob" /\ p \in {"scan", "next"} \cup Linking => blob[o.digest] # "absent"
    /\ p \in Linking => o.at \in Files /\ blob[Digest(o.at)] # "absent"

OpOK == \A k \in Callers : Good(pc[k], op[k])

Core == TypeOK /\ OpOK /\ RefStored

\* A caller at p with o will yet link the snapshot file f.
Pending(p, o, f) ==
    \/ p \in {"next"} \cup Linking /\ f \in o.files
    \/ p \in Linking /\ f = o.at
    \/ /\ o.kind = "blob" /\ Digest(f) = o.digest
       /\ \/ p = "scan"
          \/ p \in {"next"} \cup Linking /\ f[1] \in o.commits

\* A file of a stored manifest whose blob is there.
Due(f) == f[1] \in stored /\ f[2] \in keyed[f[1]] /\ blob[Digest(f)] # "absent"

\* Every due file is linked, will be linked, or was given up with an error.
LinkInv ==
    \A f \in Files : Due(f) =>
        \/ link[f] # "none"
        \/ f \in cut
        \/ \E k \in Callers : Pending(pc[k], op[k], f)

-----------------------------------------------------------------------------
(* Facts about the helpers *)

\* The digest of a snapshot file is one.
LEMMA DigestType == \A f \in Files : Digest(f) \in Blobs /\ f[1] \in Commits /\ f[2] \in Paths /\ f # None
  BY BlobAtAssumption, NoneAssumption DEF Files, Digest

\* The record of an idle caller is well-typed.
LEMMA NoOpType == NoOp \in Op
  BY DEF NoOp, Op

\* Spending keeps the counters natural.
LEMMA SpendType ==
    ASSUME TypeOK, NEW what \in Limited, Spend(what)
    PROVE  spent' \in [Limited -> Nat]
  BY DEF TypeOK, Spend

\* Other callers keep what they know while manifests and blobs only arrive.
LEMMA OpKept ==
    ASSUME OpOK, NEW k \in Callers,
           \A j \in Callers \ {k} : pc'[j] = pc[j] /\ op'[j] = op[j],
           stored \subseteq stored',
           \A d \in Blobs : blob[d] # "absent" => blob'[d] # "absent",
           Good(pc[k], op[k])'
    PROVE  OpOK'
  <1> SUFFICES ASSUME NEW j \in Callers, j # k PROVE Good(pc[j], op[j])'
    BY DEF OpOK
  <1>1. Good(pc[j], op[j]) /\ pc'[j] = pc[j] /\ op'[j] = op[j]
    BY DEF OpOK
  <1> QED BY <1>1, DigestType DEF Good


\* The lists of a call may be replaced by others.
LEMMA OpUpdate ==
    ASSUME op \in [Callers -> Op], NEW k \in Callers, NEW fs \in SUBSET Files,
           NEW cs \in SUBSET Commits, NEW f \in Files \cup {None},
           \/ op' = [op EXCEPT ![k].files = fs]
           \/ op' = [op EXCEPT ![k].files = fs, ![k].at = f]
           \/ op' = [op EXCEPT ![k].commits = cs]
           \/ op' = [op EXCEPT ![k].commits = cs, ![k].files = fs]
    PROVE  op' \in [Callers -> Op] /\ \A j \in Callers \ {k} : op'[j] = op[j]
  <1> DEFINE K == {"none", "manifest", "blob"}
             C == Commits \cup {None}
             P == SUBSET Paths
             B == Blobs \cup {None}
             Cs == SUBSET Commits
             Fs == SUBSET Files
             F == Files \cup {None}
             R == {0, 1}
  <1>1. fs \in Fs /\ cs \in Cs /\ f \in F
    OBVIOUS
  <1>2. Op = [kind: K, commit: C, keyed: P, ref: R, digest: B, commits: Cs, files: Fs, at: F]
    BY DEF Op
  <1> HIDE DEF K, C, P, B, Cs, Fs, F, R
  <1> QED BY <1>1, <1>2

\* The arguments of a call are put into an empty one.
LEMMA OpNewManifest ==
    ASSUME NEW o \in Op, NEW c \in Commits, NEW ks \in SUBSET Paths, NEW ref \in {0, 1}
    PROVE  [o EXCEPT !.kind = "manifest", !.commit = c, !.keyed = ks, !.ref = ref] \in Op
  <1> DEFINE K == {"none", "manifest", "blob"}
             C == Commits \cup {None}
             P == SUBSET Paths
             B == Blobs \cup {None}
             Cs == SUBSET Commits
             Fs == SUBSET Files
             F == Files \cup {None}
             R == {0, 1}
  <1>1. c \in C /\ ks \in P /\ ref \in R /\ "manifest" \in K
    OBVIOUS
  <1>2. Op = [kind: K, commit: C, keyed: P, ref: R, digest: B, commits: Cs, files: Fs, at: F]
    BY DEF Op
  <1> HIDE DEF K, C, P, B, Cs, Fs, F, R
  <1> QED BY <1>1, <1>2

\* PutBlob's arguments make a well-typed record.
LEMMA OpNewBlob ==
    ASSUME NEW o \in Op, NEW d \in Blobs
    PROVE  [o EXCEPT !.kind = "blob", !.digest = d] \in Op
  <1> DEFINE K == {"none", "manifest", "blob"}
             C == Commits \cup {None}
             P == SUBSET Paths
             B == Blobs \cup {None}
             Cs == SUBSET Commits
             Fs == SUBSET Files
             F == Files \cup {None}
             R == {0, 1}
  <1>1. d \in B /\ "blob" \in K
    OBVIOUS
  <1>2. Op = [kind: K, commit: C, keyed: P, ref: R, digest: B, commits: Cs, files: Fs, at: F]
    BY DEF Op
  <1> HIDE DEF K, C, P, B, Cs, Fs, F, R
  <1> QED BY <1>1, <1>2

\* A step of k alone, from one value of its types to another.
Moves(k) ==
    /\ pc' \in [Callers -> Points] /\ op' \in [Callers -> Op]
    /\ \A j \in Callers \ {k} : pc'[j] = pc[j] /\ op'[j] = op[j]

\* Moving one caller leaves the others where they are.
LEMMA GotoMoves ==
    ASSUME TypeOK, NEW k \in Callers, NEW p \in Points, Goto(k, p)
    PROVE  /\ pc' \in [Callers -> Points] /\ pc'[k] = p
           /\ \A j \in Callers \ {k} : pc'[j] = pc[j]
  BY DEF TypeOK, Goto

\* A caller that starts or resumes with a new record.
LEMMA CallMoves ==
    ASSUME TypeOK, NEW k \in Callers, NEW p \in Points, NEW o \in Op, Goto(k, p),
           op' = [op EXCEPT ![k] = o]
    PROVE  Moves(k) /\ pc'[k] = p /\ op'[k] = o
  <1>1. op' \in [Callers -> Op] /\ op'[k] = o /\ \A j \in Callers \ {k} : op'[j] = op[j]
    BY DEF TypeOK
  <1> QED BY <1>1, GotoMoves DEF Moves

\* A call that returns.
LEMMA ReturnMoves ==
    ASSUME TypeOK, NEW k \in Callers, Return(k)
    PROVE  Moves(k) /\ pc'[k] = "idle" /\ op'[k] = NoOp
  BY NoOpType, CallMoves DEF Return, Points

\* A call that changes neither its arguments nor its lists.
LEMMA StayMoves ==
    ASSUME TypeOK, NEW k \in Callers, NEW p \in Points, Goto(k, p), UNCHANGED op
    PROVE  Moves(k) /\ pc'[k] = p /\ op'[k] = op[k]
  BY GotoMoves DEF TypeOK, Moves

\* The files still to link, and the one being linked.
LEMMA FilesMoves ==
    ASSUME TypeOK, NEW k \in Callers, NEW p \in Points, NEW fs \in SUBSET Files, Goto(k, p),
           op' = [op EXCEPT ![k].files = fs]
    PROVE  /\ Moves(k) /\ pc'[k] = p /\ op'[k].files = fs
           /\ op'[k].kind = op[k].kind /\ op'[k].commit = op[k].commit /\ op'[k].ref = op[k].ref
           /\ op'[k].digest = op[k].digest /\ op'[k].commits = op[k].commits /\ op'[k].at = op[k].at
  <1>1. op' \in [Callers -> Op] /\ \A j \in Callers \ {k} : op'[j] = op[j]
    BY OpUpdate DEF TypeOK
  <1>2. /\ op'[k].files = fs
        /\ op'[k].kind = op[k].kind /\ op'[k].commit = op[k].commit /\ op'[k].ref = op[k].ref
        /\ op'[k].digest = op[k].digest /\ op'[k].commits = op[k].commits /\ op'[k].at = op[k].at
    BY DEF TypeOK, Op
  <1> QED BY <1>1, <1>2, GotoMoves DEF Moves

\* A caller that turns to the link of one file.
LEMMA FileMoves ==
    ASSUME TypeOK, NEW k \in Callers, NEW fs \in SUBSET Files, NEW f \in Files, Goto(k, "unlink"),
           op' = [op EXCEPT ![k].files = fs, ![k].at = f]
    PROVE  /\ Moves(k) /\ pc'[k] = "unlink" /\ op'[k].files = fs /\ op'[k].at = f
           /\ op'[k].kind = op[k].kind /\ op'[k].commit = op[k].commit
           /\ op'[k].digest = op[k].digest /\ op'[k].commits = op[k].commits
  <1>0. "unlink" \in Points
    BY DEF Points, Linking
  <1>1. op' \in [Callers -> Op] /\ \A j \in Callers \ {k} : op'[j] = op[j]
    BY OpUpdate DEF TypeOK
  <1>2. /\ op'[k].files = fs /\ op'[k].at = f
        /\ op'[k].kind = op[k].kind /\ op'[k].commit = op[k].commit
        /\ op'[k].digest = op[k].digest /\ op'[k].commits = op[k].commits
    BY DEF TypeOK, Op
  <1> QED BY <1>0, <1>1, <1>2, GotoMoves DEF Moves

\* A caller that drops commits from its list.
LEMMA ListMoves ==
    ASSUME TypeOK, NEW k \in Callers, NEW p \in Points, NEW cs \in SUBSET Commits, Goto(k, p),
           op' = [op EXCEPT ![k].commits = cs]
    PROVE  /\ Moves(k) /\ pc'[k] = p /\ op'[k].commits = cs /\ op'[k].files = op[k].files
           /\ op'[k].kind = op[k].kind /\ op'[k].commit = op[k].commit
           /\ op'[k].digest = op[k].digest /\ op'[k].at = op[k].at
  <1>1. op' \in [Callers -> Op] /\ \A j \in Callers \ {k} : op'[j] = op[j]
    BY OpUpdate DEF TypeOK
  <1>2. /\ op'[k].commits = cs /\ op'[k].files = op[k].files
        /\ op'[k].kind = op[k].kind /\ op'[k].commit = op[k].commit
        /\ op'[k].digest = op[k].digest /\ op'[k].at = op[k].at
    BY DEF TypeOK, Op
  <1> QED BY <1>1, <1>2, GotoMoves DEF Moves

\* A caller that replaces both its lists.
LEMMA CommitsMoves ==
    ASSUME TypeOK, NEW k \in Callers, NEW p \in Points, NEW fs \in SUBSET Files,
           NEW cs \in SUBSET Commits, Goto(k, p),
           op' = [op EXCEPT ![k].commits = cs, ![k].files = fs]
    PROVE  /\ Moves(k) /\ pc'[k] = p /\ op'[k].commits = cs /\ op'[k].files = fs
           /\ op'[k].kind = op[k].kind /\ op'[k].commit = op[k].commit
           /\ op'[k].digest = op[k].digest /\ op'[k].at = op[k].at
  <1>1. op' \in [Callers -> Op] /\ \A j \in Callers \ {k} : op'[j] = op[j]
    BY OpUpdate DEF TypeOK
  <1>2. /\ op'[k].commits = cs /\ op'[k].files = fs
        /\ op'[k].kind = op[k].kind /\ op'[k].commit = op[k].commit
        /\ op'[k].digest = op[k].digest /\ op'[k].at = op[k].at
    BY DEF TypeOK, Op
  <1> QED BY <1>1, <1>2, GotoMoves DEF Moves

\* linkSnapshotFile returns.
LEMMA LinkedMoves ==
    ASSUME TypeOK, NEW k \in Callers, Linked(k)
    PROVE  /\ Moves(k) /\ pc'[k] = "next" /\ cut' = cut \ {op[k].at}
           /\ op'[k].kind = op[k].kind /\ op'[k].commit = op[k].commit
           /\ op'[k].digest = op[k].digest /\ op'[k].commits = op[k].commits
           /\ op'[k].files = op[k].files
  <1>0. "next" \in Points /\ op' = [op EXCEPT ![k].at = None] /\ Goto(k, "next") /\ cut' = cut \ {op[k].at}
    BY DEF Points, Linked
  <1>1. op' \in [Callers -> Op] /\ \A j \in Callers \ {k} : op'[j] = op[j]
    BY <1>0, SMTT(20) DEF TypeOK, Op
  <1>2. /\ op'[k].kind = op[k].kind /\ op'[k].commit = op[k].commit
        /\ op'[k].digest = op[k].digest /\ op'[k].commits = op[k].commits
        /\ op'[k].files = op[k].files
    BY <1>0 DEF TypeOK, Op
  <1> QED BY <1>0, <1>1, <1>2, GotoMoves DEF Moves


-----------------------------------------------------------------------------
(* Types, what callers know, and the ref *)

\* What a step of one caller must establish for the core invariant: its own point and
\* record fit, and nothing that was stored goes.
LEMMA CoreKept ==
    ASSUME Core, NEW k \in Callers, Moves(k), Good(pc[k], op[k])',
           stored \subseteq stored', stored' \subseteq Commits, keyed' \in [Commits -> SUBSET Paths],
           blob' \in [Blobs -> {"absent", "intact", "damaged"}],
           \A d \in Blobs : blob[d] # "absent" => blob'[d] # "absent",
           link' \in [Files -> {"none", "sym", "hard", "copy"}],
           cut' \subseteq Files, spent' \in [Limited -> Nat], main' \in {main} \cup stored'
    PROVE  Core'
  <1>1. OpOK'
    BY OpKept DEF Core, Moves
  <1>2. RefStored' /\ main' \in Commits \cup {None}
    BY DEF Core, TypeOK, RefStored
  <1>3. TypeOK'
    BY <1>2 DEF TypeOK, Moves
  <1> QED BY <1>1, <1>2, <1>3 DEF Core

\* Steps that write no file: the calls begin, look and return.
LEMMA CallStep ==
    ASSUME Core, NEW k \in Callers, Moves(k), Good(pc[k], op[k])',
           UNCHANGED <<stored, keyed, main, blob, link, cut>>, spent' \in [Limited -> Nat]
    PROVE  Core'
  <1>1. /\ stored \subseteq stored' /\ stored' \subseteq Commits /\ keyed' \in [Commits -> SUBSET Paths]
        /\ blob' \in [Blobs -> {"absent", "intact", "damaged"}]
        /\ \A d \in Blobs : blob[d] # "absent" => blob'[d] # "absent"
        /\ link' \in [Files -> {"none", "sym", "hard", "copy"}]
        /\ cut' \subseteq Files /\ main' \in {main} \cup stored'
    BY DEF Core, TypeOK
  <1> QED BY <1>1, CoreKept

\* PutManifest starts.
LEMMA PutManifestCore ==
    ASSUME Core, NEW k \in Callers, NEW c \in Commits, NEW ref \in {0, 1}, NEW ks \in Versions[c],
           PutManifest(k, c, ks, ref)
    PROVE  Core' /\ Moves(k) /\ op'[k].kind = "manifest" /\ pc'[k] = "write"
  <1> DEFINE o == [NoOp EXCEPT !.kind = "manifest", !.commit = c, !.keyed = ks, !.ref = ref]
  <1>1. ks \in SUBSET Paths /\ "write" \in Points
    BY VersionsAssumption DEF Points
  <1>2. o \in Op
    BY <1>1, NoOpType, OpNewManifest
  <1>3. o.kind = "manifest" /\ o.commit = c
    BY NoOpType DEF Op
  <1>4. op' = [op EXCEPT ![k] = o] /\ Goto(k, "write")
    BY DEF PutManifest
  <1> HIDE DEF o
  <1>5. Moves(k) /\ pc'[k] = "write" /\ op'[k] = o
    BY <1>1, <1>2, <1>4, CallMoves DEF Core
  <1>6. Good(pc[k], op[k])'
    BY <1>3, <1>5 DEF Good, Linking
  <1>7. spent' \in [Limited -> Nat]
    BY SpendType DEF Core, PutManifest, Limited
  <1> QED BY <1>3, <1>5, <1>6, <1>7, CallStep DEF PutManifest

\* PutBlob starts.
LEMMA PutBlobCore ==
    ASSUME Core, NEW k \in Callers, NEW d \in Blobs, PutBlob(k, d)
    PROVE  Core' /\ Moves(k) /\ op'[k].kind = "blob" /\ pc'[k] = "stat"
  <1> DEFINE o == [NoOp EXCEPT !.kind = "blob", !.digest = d]
  <1>1. "stat" \in Points
    BY DEF Points
  <1>2. o \in Op
    BY NoOpType, OpNewBlob
  <1>3. o.kind = "blob" /\ o.digest = d /\ o.files = {}
    <2>1. o.kind = "blob" /\ o.digest = d /\ o.files = NoOp.files
      BY NoOpType DEF Op
    <2> QED BY <2>1 DEF NoOp
  <1>4. op' = [op EXCEPT ![k] = o] /\ Goto(k, "stat")
    BY DEF PutBlob
  <1> HIDE DEF o
  <1>5. Moves(k) /\ pc'[k] = "stat" /\ op'[k] = o
    BY <1>1, <1>2, <1>4, CallMoves DEF Core
  <1>6. Good(pc[k], op[k])'
    BY <1>3, <1>5 DEF Good, Linking
  <1>7. spent' \in [Limited -> Nat]
    BY SpendType DEF Core, PutBlob, Limited
  <1> QED BY <1>3, <1>5, <1>6, <1>7, CallStep DEF PutBlob

\* A call that returns knows nothing any more.
LEMMA ReturnGood ==
    ASSUME TypeOK, NEW k \in Callers, Return(k)
    PROVE  Good(pc[k], op[k])' /\ Moves(k) /\ pc'[k] = "idle" /\ op'[k] = NoOp
  <1>1. NoOp.kind = "none"
    BY DEF NoOp
  <1> QED BY <1>1, ReturnMoves DEF Good, Linking

\* The manifest is stored, and its keyed files are the list to link.
LEMMA WriteManifestCore ==
    ASSUME Core, NEW k \in Callers, WriteManifest(k)
    PROVE  /\ Core' /\ Moves(k) /\ pc'[k] = "next"
           /\ op[k].commit \in Commits /\ op[k].keyed \in SUBSET Paths
           /\ op'[k].files = {op[k].commit} \X op[k].keyed
  <1>1. /\ op[k].commit \in Commits /\ op[k].keyed \in SUBSET Paths /\ op[k].kind = "manifest"
    BY DEF Core, TypeOK, OpOK, Good, Op, WriteManifest, At
  <1>2. {op[k].commit} \X op[k].keyed \in SUBSET Files
    BY <1>1 DEF Files
  <1>3. /\ Moves(k) /\ pc'[k] = "next" /\ op'[k].files = {op[k].commit} \X op[k].keyed
        /\ op'[k].kind = op[k].kind /\ op'[k].commit = op[k].commit
    BY <1>2, FilesMoves, ZenonT(40) DEF Core, WriteManifest, Points
  <1>4. /\ stored' = stored \cup {op[k].commit}
        /\ keyed' = [keyed EXCEPT ![op[k].commit] = op[k].keyed]
        /\ UNCHANGED <<main, blob, link, cut, spent>>
    BY DEF WriteManifest
  <1>5. Good(pc[k], op[k])'
    BY <1>1, <1>3, <1>4 DEF Good, Linking
  <1>6. /\ stored \subseteq stored' /\ stored' \subseteq Commits /\ keyed' \in [Commits -> SUBSET Paths]
        /\ blob' \in [Blobs -> {"absent", "intact", "damaged"}]
        /\ \A d \in Blobs : blob[d] # "absent" => blob'[d] # "absent"
        /\ link' \in [Files -> {"none", "sym", "hard", "copy"}]
        /\ cut' \subseteq Files /\ main' \in {main} \cup stored' /\ spent' \in [Limited -> Nat]
    BY <1>1, <1>4 DEF Core, TypeOK
  <1> QED BY <1>1, <1>3, <1>5, <1>6, CoreKept

\* PutManifest asks for the blob of its next file.
LEMMA StatFileCore ==
    ASSUME Core, NEW k \in Callers, NEW f \in Files, StatFile(k, f)
    PROVE  /\ Core' /\ Moves(k)
           /\ op'[k].kind = op[k].kind /\ op'[k].files = op[k].files \ {f}
           /\ \/ blob[Digest(f)] = "absent" /\ pc'[k] = pc[k]
              \/ pc'[k] = "unlink" /\ op'[k].at = f
  <1>1. /\ pc[k] = "next" /\ op[k].kind = "manifest" /\ op[k].files \ {f} \in SUBSET Files
        /\ op[k].commit \in stored /\ op[k].commit \in Commits
    BY DEF Core, TypeOK, OpOK, Good, Op, StatFile, At
  <1>2. spent' \in [Limited -> Nat] /\ UNCHANGED <<stored, keyed, main, blob, link, cut>>
    BY DEF Core, TypeOK, StatFile
  <1>3. CASE blob[Digest(f)] = "absent"
    <2>1. op' = [op EXCEPT ![k].files = op[k].files \ {f}] /\ UNCHANGED pc
      BY <1>3 DEF StatFile
    <2>2. Goto(k, "next") /\ "next" \in Points
      BY <1>1, <2>1 DEF Goto, Core, TypeOK, Points
    <2>3. /\ Moves(k) /\ pc'[k] = "next" /\ op'[k].files = op[k].files \ {f}
          /\ op'[k].kind = op[k].kind /\ op'[k].commit = op[k].commit
      BY <1>1, <2>1, <2>2, FilesMoves, ZenonT(40) DEF Core
    <2>4. Good(pc[k], op[k])'
      BY <1>1, <1>2, <2>3 DEF Good, Linking
    <2> QED BY <1>1, <1>2, <1>3, <2>3, <2>4, CallStep
  <1>4. CASE blob[Digest(f)] # "absent"
    <2>1. op' = [op EXCEPT ![k].files = op[k].files \ {f}, ![k].at = f] /\ Goto(k, "unlink")
      BY <1>4 DEF StatFile
    <2>2. /\ Moves(k) /\ pc'[k] = "unlink" /\ op'[k].files = op[k].files \ {f} /\ op'[k].at = f
          /\ op'[k].kind = op[k].kind /\ op'[k].commit = op[k].commit
      BY <1>1, <2>1, FileMoves, ZenonT(40) DEF Core
    <2>3. Good(pc[k], op[k])'
      BY <1>1, <1>2, <1>4, <2>2 DEF Good, Linking
    <2> QED BY <1>1, <1>2, <1>4, <2>2, <2>3, CallStep
  <1> QED BY <1>3, <1>4

\* The ref is pointed at a commit that is stored.
LEMMA PointRefCore ==
    ASSUME Core, NEW k \in Callers, PointRef(k)
    PROVE  Core'
  <1>1. op[k].commit \in stored
    BY DEF Core, OpOK, Good, PointRef, At
  <1>2. Good(pc[k], op[k])' /\ Moves(k)
    BY ReturnGood DEF Core, PointRef
  <1>3. main' \in {main} \cup stored
    BY <1>1 DEF PointRef
  <1>4. UNCHANGED <<stored, keyed, blob, link, cut, spent>>
    BY DEF PointRef
  <1>5. /\ stored \subseteq stored' /\ stored' \subseteq Commits /\ keyed' \in [Commits -> SUBSET Paths]
        /\ blob' \in [Blobs -> {"absent", "intact", "damaged"}]
        /\ \A d \in Blobs : blob[d] # "absent" => blob'[d] # "absent"
        /\ link' \in [Files -> {"none", "sym", "hard", "copy"}]
        /\ cut' \subseteq Files /\ main' \in {main} \cup stored' /\ spent' \in [Limited -> Nat]
    BY <1>3, <1>4 DEF Core, TypeOK
  <1> QED BY <1>2, <1>5, CoreKept

\* PutBlob asks whether it has the blob already.
LEMMA StatBlobCore ==
    ASSUME Core, NEW k \in Callers, StatBlob(k)
    PROVE  Core' /\ Moves(k) /\ pc'[k] \in {"idle", "rename"}
  <1>1. spent' \in [Limited -> Nat] /\ UNCHANGED <<stored, keyed, main, blob, link, cut>>
    BY DEF Core, TypeOK, StatBlob
  <1>2. CASE Return(k)
    <2>1. Good(pc[k], op[k])' /\ Moves(k) /\ pc'[k] = "idle"
      BY <1>2, ReturnGood DEF Core
    <2> QED BY <1>1, <2>1, CallStep
  <1>3. CASE Goto(k, "rename") /\ UNCHANGED op
    <2>1. "rename" \in Points /\ pc[k] = "stat"
      BY DEF Points, StatBlob, At
    <2>2. Moves(k) /\ pc'[k] = "rename" /\ op'[k] = op[k]
      BY <1>3, <2>1, StayMoves DEF Core
    <2>3. Good(pc[k], op[k])'
      BY <1>1, <2>1, <2>2 DEF Good, Linking, Core, OpOK
    <2> QED BY <1>1, <2>2, <2>3, CallStep
  <1> QED BY <1>2, <1>3 DEF StatBlob

\* The blob is renamed into place.
LEMMA RenameCore ==
    ASSUME Core, NEW k \in Callers, Rename(k)
    PROVE  /\ Core' /\ Moves(k) /\ pc'[k] = "scan" /\ op'[k] = op[k]
           /\ op[k].kind = "blob" /\ op[k].digest \in Blobs
           /\ \A d \in Blobs : d # op[k].digest => blob'[d] = blob[d]
           /\ \A f \in Files : link[f] # "none" => link'[f] # "none"
  <1>1. op[k].kind = "blob" /\ op[k].digest \in Blobs /\ pc[k] = "rename"
    BY DEF Core, OpOK, Good, Rename, At
  <1>2. Moves(k) /\ pc'[k] = "scan" /\ op'[k] = op[k]
    BY StayMoves DEF Core, Rename, Points
  <1>3. /\ blob' = [blob EXCEPT ![op[k].digest] = "intact"]
        /\ link' = [f \in Files |-> IF link[f] = "hard" /\ Digest(f) = op[k].digest
                                    THEN "copy" ELSE link[f]]
        /\ UNCHANGED <<stored, keyed, main, cut, spent>>
    BY DEF Rename
  <1>4. /\ blob' \in [Blobs -> {"absent", "intact", "damaged"}] /\ blob'[op[k].digest] = "intact"
        /\ \A d \in Blobs : d # op[k].digest => blob'[d] = blob[d]
    BY <1>1, <1>3 DEF Core, TypeOK
  <1>5. /\ link' \in [Files -> {"none", "sym", "hard", "copy"}]
        /\ \A f \in Files : link[f] # "none" => link'[f] # "none"
    BY <1>3 DEF Core, TypeOK
  <1>6. Good(pc[k], op[k])'
    <2>1. Good(pc[k], op[k])
      BY DEF Core, OpOK
    <2> QED BY <1>1, <1>2, <1>4, <2>1 DEF Good, Linking
  <1>7. \A d \in Blobs : blob[d] # "absent" => blob'[d] # "absent"
    BY <1>4
  <1>8. /\ stored \subseteq stored' /\ stored' \subseteq Commits /\ keyed' \in [Commits -> SUBSET Paths]
        /\ cut' \subseteq Files /\ main' \in {main} \cup stored' /\ spent' \in [Limited -> Nat]
    BY <1>3 DEF Core, TypeOK
  <1> QED BY <1>1, <1>2, <1>4, <1>5, <1>6, <1>7, <1>8, CoreKept

\* PutBlob lists the stored manifests.
LEMMA ScanCore ==
    ASSUME Core, NEW k \in Callers, ScanManifests(k)
    PROVE  /\ Core' /\ Moves(k) /\ pc'[k] = "next" /\ op'[k].commits = stored
           /\ op[k].kind = "blob" /\ op'[k].kind = "blob" /\ op'[k].digest = op[k].digest
  <1>1. /\ pc[k] = "scan" /\ op[k].kind = "blob" /\ op[k].files \in SUBSET Files
        /\ stored \in SUBSET Commits /\ "next" \in Points /\ Good(pc[k], op[k])
    BY DEF Core, TypeOK, OpOK, Good, ScanManifests, At, Op, Points
  <1>2. /\ Goto(k, "next") /\ op' = [op EXCEPT ![k].commits = stored]
        /\ UNCHANGED <<stored, keyed, main, blob, link, cut, spent>>
    BY DEF ScanManifests
  <1>3. /\ Moves(k) /\ pc'[k] = "next" /\ op'[k].commits = stored /\ op'[k].files = op[k].files
        /\ op'[k].kind = op[k].kind /\ op'[k].digest = op[k].digest
    BY <1>1, <1>2, ListMoves DEF Core
  <1>4. Good(pc[k], op[k])'
    BY <1>1, <1>2, <1>3 DEF Good, Linking
  <1>5. spent' \in [Limited -> Nat]
    BY <1>2 DEF Core, TypeOK
  <1> QED BY <1>1, <1>2, <1>3, <1>4, <1>5, CallStep

\* PutBlob reads the next manifest of its list.
LEMMA ReadCore ==
    ASSUME Core, NEW k \in Callers, NEW c \in Commits, ReadManifest(k, c)
    PROVE  /\ Core' /\ Moves(k) /\ pc[k] = "next" /\ pc'[k] = "next"
           /\ op[k].files = {} /\ op'[k].commits = op[k].commits \ {c}
           /\ op'[k].files = {f \in {c} \X keyed[c] : Digest(f) = op[k].digest}
           /\ op[k].kind = "blob" /\ op'[k].kind = "blob" /\ op'[k].digest = op[k].digest
  <1> DEFINE fs == {f \in {c} \X keyed[c] : Digest(f) = op[k].digest}
             cs == op[k].commits \ {c}
  <1>1. /\ pc[k] = "next" /\ op[k].kind = "blob" /\ op[k].files = {} /\ op[k].commits \in SUBSET Commits
        /\ keyed[c] \in SUBSET Paths /\ "next" \in Points /\ Good(pc[k], op[k])
    BY DEF Core, TypeOK, OpOK, ReadManifest, At, Op, Points
  <1>2. fs \in SUBSET Files /\ cs \in SUBSET Commits /\ \A f \in fs : Digest(f) = op[k].digest
    BY <1>1 DEF Files
  <1>3. /\ op' = [op EXCEPT ![k].commits = cs, ![k].files = fs]
        /\ UNCHANGED <<stored, keyed, main, blob, link, pc, cut, spent>>
    BY DEF ReadManifest
  <1>4. Goto(k, "next")
    BY <1>1, <1>3 DEF Goto, Core, TypeOK
  <1> HIDE DEF fs, cs
  <1>5. /\ Moves(k) /\ pc'[k] = "next" /\ op'[k].commits = cs /\ op'[k].files = fs
        /\ op'[k].kind = op[k].kind /\ op'[k].digest = op[k].digest
    <2>1. /\ fs \in SUBSET Files /\ cs \in SUBSET Commits /\ "next" \in Points
          /\ op' = [op EXCEPT ![k].commits = cs, ![k].files = fs] /\ Goto(k, "next") /\ TypeOK
      BY <1>1, <1>2, <1>3, <1>4 DEF Core
    <2> QED BY <2>1, CommitsMoves, ZenonT(40)
  <1>6. Good(pc[k], op[k])'
    BY <1>1, <1>2, <1>3, <1>5 DEF Good, Linking
  <1>7. spent' \in [Limited -> Nat]
    BY <1>3 DEF Core, TypeOK
  <1> QED BY <1>1, <1>3, <1>5, <1>6, <1>7, CallStep DEF fs, cs

\* PutBlob passes over a manifest that it cannot read.
LEMMA SkipCore ==
    ASSUME Core, NEW k \in Callers, NEW c \in Commits, SkipManifest(k, c)
    PROVE  /\ Core' /\ Moves(k) /\ pc[k] = "next" /\ pc'[k] = "next"
           /\ op'[k].commits = op[k].commits \ {c} /\ op'[k].files = op[k].files
           /\ op'[k].digest = op[k].digest /\ op'[k].kind = op[k].kind /\ op[k].files = {}
  <1> DEFINE cs == op[k].commits \ {c}
             fs == {f \in {c} \X keyed[c] : Digest(f) = op[k].digest}
  <1>1. /\ pc[k] = "next" /\ op[k].kind = "blob" /\ op[k].files = {} /\ op[k].commits \in SUBSET Commits
        /\ keyed[c] \in SUBSET Paths /\ "next" \in Points /\ Good(pc[k], op[k])
    BY DEF Core, TypeOK, OpOK, SkipManifest, At, Op, Points
  <1>2. cs \in SUBSET Commits /\ fs \subseteq Files
    BY <1>1 DEF Files
  <1>3. /\ op' = [op EXCEPT ![k].commits = cs] /\ cut' = cut \cup fs
        /\ UNCHANGED <<stored, keyed, main, blob, link, pc>>
    BY DEF SkipManifest
  <1> HIDE DEF cs, fs
  <1>4. Goto(k, "next")
    BY <1>1, <1>3 DEF Goto, Core, TypeOK
  <1>5. /\ Moves(k) /\ pc'[k] = "next" /\ op'[k].commits = cs /\ op'[k].files = op[k].files
        /\ op'[k].kind = op[k].kind /\ op'[k].digest = op[k].digest
    BY <1>1, <1>2, <1>3, <1>4, ListMoves DEF Core
  <1>6. Good(pc[k], op[k])'
    BY <1>1, <1>3, <1>5 DEF Good, Linking
  <1>7. spent' \in [Limited -> Nat]
    BY SpendType DEF Core, SkipManifest, Limited
  <1>8. cut' \subseteq Files
    BY <1>2, <1>3 DEF Core, TypeOK
  <1>9. /\ stored \subseteq stored' /\ stored' \subseteq Commits /\ keyed' \in [Commits -> SUBSET Paths]
        /\ blob' \in [Blobs -> {"absent", "intact", "damaged"}]
        /\ \A d \in Blobs : blob[d] # "absent" => blob'[d] # "absent"
        /\ link' \in [Files -> {"none", "sym", "hard", "copy"}] /\ main' \in {main} \cup stored'
    BY <1>3 DEF Core, TypeOK
  <1>10. Core'
    BY <1>5, <1>6, <1>7, <1>8, <1>9, CoreKept
  <1> QED BY <1>1, <1>5, <1>10 DEF cs

\* PutBlob turns to a file that names its blob.
LEMMA LinkFileCore ==
    ASSUME Core, NEW k \in Callers, NEW f \in Files, LinkFile(k, f)
    PROVE  /\ Core' /\ Moves(k) /\ pc[k] = "next" /\ pc'[k] = "unlink"
           /\ op'[k].files = op[k].files \ {f} /\ op'[k].at = f /\ op'[k].kind = op[k].kind
           /\ op'[k].digest = op[k].digest /\ op'[k].commits = op[k].commits
  <1>1. /\ pc[k] = "next" /\ op[k].kind = "blob" /\ f \in op[k].files
        /\ op[k].files \ {f} \in SUBSET Files /\ Good(pc[k], op[k])
    BY DEF Core, TypeOK, OpOK, LinkFile, At, Op
  <1>2. /\ op' = [op EXCEPT ![k].files = op[k].files \ {f}, ![k].at = f] /\ Goto(k, "unlink")
        /\ UNCHANGED <<stored, keyed, main, blob, link, cut, spent>>
    BY DEF LinkFile
  <1>3. /\ Moves(k) /\ pc'[k] = "unlink" /\ op'[k].files = op[k].files \ {f} /\ op'[k].at = f
        /\ op'[k].kind = op[k].kind /\ op'[k].digest = op[k].digest /\ op'[k].commits = op[k].commits
    BY <1>1, <1>2, FileMoves, ZenonT(40) DEF Core
  <1>4. Good(pc[k], op[k])'
    BY <1>1, <1>2, <1>3 DEF Good, Linking
  <1>5. spent' \in [Limited -> Nat]
    BY <1>2 DEF Core, TypeOK
  <1> QED BY <1>1, <1>2, <1>3, <1>4, <1>5, CallStep

\* PutBlob has seen every manifest.
LEMMA ScanDoneCore ==
    ASSUME Core, NEW k \in Callers, ScanDone(k)
    PROVE  Core' /\ Moves(k)
  <1>1. Good(pc[k], op[k])' /\ Moves(k)
    BY ReturnGood DEF Core, ScanDone
  <1>2. spent' \in [Limited -> Nat] /\ UNCHANGED <<stored, keyed, main, blob, link, cut>>
    BY DEF Core, TypeOK, ScanDone
  <1> QED BY <1>1, <1>2, CallStep

\* A step of linkSnapshotFile that leaves it running.
LEMMA LinkingCore ==
    ASSUME Core, NEW k \in Callers, NEW p \in Linking, pc[k] \in Linking,
           Goto(k, p), UNCHANGED <<op, stored, keyed, main, blob, cut, spent>>,
           link' \in [Files -> {"none", "sym", "hard", "copy"}]
    PROVE  Core' /\ Moves(k) /\ pc'[k] = p /\ op'[k] = op[k]
  <1>1. p \in Points
    BY DEF Points
  <1>2. Moves(k) /\ pc'[k] = p /\ op'[k] = op[k]
    BY <1>1, StayMoves DEF Core
  <1>3. Good(pc[k], op[k])'
    <2>1. Good(pc[k], op[k])
      BY DEF Core, OpOK
    <2> QED BY <1>2, <2>1 DEF Good, Linking
  <1>4. /\ stored \subseteq stored' /\ stored' \subseteq Commits /\ keyed' \in [Commits -> SUBSET Paths]
        /\ blob' \in [Blobs -> {"absent", "intact", "damaged"}]
        /\ \A d \in Blobs : blob[d] # "absent" => blob'[d] # "absent"
        /\ cut' \subseteq Files /\ main' \in {main} \cup stored' /\ spent' \in [Limited -> Nat]
    BY DEF Core, TypeOK
  <1> QED BY <1>2, <1>3, <1>4, CoreKept

\* Its last step.
LEMMA LinkedCore ==
    ASSUME Core, NEW k \in Callers, pc[k] \in Linking, Linked(k),
           UNCHANGED <<stored, keyed, main, spent>>,
           blob' \in [Blobs -> {"absent", "intact", "damaged"}],
           \A d \in Blobs : blob[d] # "absent" => blob'[d] # "absent",
           link' \in [Files -> {"none", "sym", "hard", "copy"}]
    PROVE  Core'
  <1>1. /\ Moves(k) /\ pc'[k] = "next" /\ cut' = cut \ {op[k].at}
        /\ op'[k].kind = op[k].kind /\ op'[k].commit = op[k].commit
        /\ op'[k].digest = op[k].digest /\ op'[k].commits = op[k].commits
        /\ op'[k].files = op[k].files
    BY LinkedMoves DEF Core
  <1>2. Good(pc[k], op[k])'
    <2>1. Good(pc[k], op[k])
      BY DEF Core, OpOK
    <2> QED BY <1>1, <2>1 DEF Good, Linking
  <1>3. /\ stored \subseteq stored' /\ stored' \subseteq Commits /\ keyed' \in [Commits -> SUBSET Paths]
        /\ cut' \subseteq Files /\ main' \in {main} \cup stored' /\ spent' \in [Limited -> Nat]
    BY <1>1 DEF Core, TypeOK
  <1> QED BY <1>1, <1>2, <1>3, CoreKept

\* The steps that remove and make one link.
LEMMA LinkCore ==
    ASSUME Core, NEW k \in Callers, Unlink(k) \/ Symlink(k) \/ Hardlink(k) \/ CopyFile(k)
    PROVE  Core'
  <1>1. op[k].at \in Files /\ pc[k] \in Linking
    BY DEF Core, OpOK, Good, Unlink, Symlink, Hardlink, CopyFile, At, Linking
  <1>2. Digest(op[k].at) \in Blobs
    BY <1>1, DigestType
  <1>3. CASE Unlink(k)
    <2>1. link' \in [Files -> {"none", "sym", "hard", "copy"}] /\ "symlink" \in Linking
      BY <1>1, <1>3 DEF Core, TypeOK, Unlink, Linking
    <2> QED BY <1>1, <1>3, <2>1, LinkingCore DEF Unlink
  <1>4. CASE Goto(k, "hardlink") /\ UNCHANGED <<link, op, cut, stored, keyed, main, blob, spent>>
    BY <1>1, <1>4, LinkingCore DEF Core, TypeOK, Linking
  <1>5. CASE Goto(k, "copy") /\ UNCHANGED <<link, op, cut, stored, keyed, main, blob, spent>>
    BY <1>1, <1>5, LinkingCore DEF Core, TypeOK, Linking
  <1>6. ASSUME NEW l \in {"sym", "hard"},
               link' = [link EXCEPT ![op[k].at] = l] /\ Linked(k),
               UNCHANGED <<stored, keyed, main, blob, spent>>
        PROVE  Core'
    <2>1. link' \in [Files -> {"none", "sym", "hard", "copy"}]
      BY <1>1, <1>6 DEF Core, TypeOK
    <2>2. /\ blob' \in [Blobs -> {"absent", "intact", "damaged"}]
          /\ \A d \in Blobs : blob[d] # "absent" => blob'[d] # "absent"
      BY <1>6 DEF Core, TypeOK
    <2> QED BY <1>1, <1>6, <2>1, <2>2, LinkedCore
  <1>7. CASE CopyFile(k)
    <2>1. link' \in [Files -> {"none", "sym", "hard", "copy"}]
      BY <1>1, <1>7 DEF Core, TypeOK, CopyFile
    <2>2. /\ blob' \in [Blobs -> {"absent", "intact", "damaged"}]
          /\ \A d \in Blobs : blob[d] # "absent" => blob'[d] # "absent"
      BY <1>2, <1>7 DEF Core, TypeOK, CopyFile
    <2> QED BY <1>1, <1>7, <2>1, <2>2, LinkedCore DEF CopyFile
  <1>8. CASE Symlink(k)
    BY <1>4, <1>6, <1>8 DEF Symlink
  <1>9. CASE Hardlink(k)
    BY <1>5, <1>6, <1>9 DEF Hardlink
  <1> QED BY <1>3, <1>7, <1>8, <1>9

\* What a caller leaves unlinked are files.
LEMMA UnlinkedFiles == ASSUME TypeOK, NEW k \in Callers PROVE Unlinked(k) \subseteq Files
  BY DEF TypeOK, Op, Unlinked

\* A call ends in an error.
LEMMA FailCore ==
    ASSUME Core, NEW k \in Callers, Fail(k)
    PROVE  Core' /\ Moves(k)
  <1>1. Good(pc[k], op[k])' /\ Moves(k)
    BY ReturnGood DEF Core, Fail
  <1>2. spent' \in [Limited -> Nat]
    BY SpendType DEF Core, Fail, Limited
  <1>3. cut' \subseteq Files
    BY UnlinkedFiles DEF Core, TypeOK, Fail
  <1>4. UNCHANGED <<stored, keyed, main, blob, link>>
    BY DEF Fail
  <1>5. /\ stored \subseteq stored' /\ stored' \subseteq Commits /\ keyed' \in [Commits -> SUBSET Paths]
        /\ blob' \in [Blobs -> {"absent", "intact", "damaged"}]
        /\ \A d \in Blobs : blob[d] # "absent" => blob'[d] # "absent"
        /\ link' \in [Files -> {"none", "sym", "hard", "copy"}] /\ main' \in {main} \cup stored'
    BY <1>4 DEF Core, TypeOK
  <1> QED BY <1>1, <1>2, <1>3, <1>5, CoreKept

\* A crash ends every call; what is stored stays.
LEMMA CrashCore == ASSUME Core, Crash PROVE Core'
  <1>1. /\ pc' = [k \in Callers |-> "idle"] /\ op' = [k \in Callers |-> NoOp]
        /\ UNCHANGED <<stored, keyed, main, blob, link>>
    BY DEF Crash
  <1>2. spent' \in [Limited -> Nat]
    BY SpendType DEF Core, Crash, Limited
  <1>3. cut' \subseteq Files
    BY UnlinkedFiles DEF Core, TypeOK, Crash
  <1>4. TypeOK'
    BY <1>1, <1>2, <1>3, NoOpType DEF Core, TypeOK, Points
  <1>5. OpOK'
    <2>1. NoOp.kind = "none"
      BY DEF NoOp
    <2> QED BY <1>1, <2>1 DEF OpOK, Good, Linking
  <1> QED BY <1>1, <1>4, <1>5 DEF Core, RefStored

\* The core invariant holds of an empty store.
LEMMA InitCore == Init => Core
  <1> SUFFICES ASSUME Init PROVE Core
    OBVIOUS
  <1>1. TypeOK
    BY NoOpType DEF Init, TypeOK, Points
  <1>2. OpOK
    <2>1. NoOp.kind = "none"
      BY DEF NoOp
    <2> QED BY <2>1 DEF Init, OpOK, Good, Linking
  <1> QED BY <1>1, <1>2 DEF Init, Core, RefStored

\* Every step keeps the core invariant.
LEMMA CoreStep == ASSUME Core, [Next]_vars PROVE Core'
  <1>1. ASSUME NEW k \in Callers, Step(k) PROVE Core'
    BY <1>1, WriteManifestCore, PointRefCore, StatFileCore, LinkFileCore, StatBlobCore, RenameCore,
       ScanCore, ScanDoneCore, ReadCore, LinkCore DEF Step
  <1>2. CASE UNCHANGED vars
    BY <1>2 DEF vars, Core, TypeOK, OpOK, Good, RefStored
  <1> QED BY <1>1, <1>2, PutManifestCore, PutBlobCore, FailCore, SkipCore, CrashCore DEF Next

-----------------------------------------------------------------------------
(* Linking: nobody forgets a file that is due *)

\* A step of k that takes no link away and makes no file due leaves to others
\* what they will link; k must keep, or have linked or given up, its own.
LEMMA LinkKept ==
    ASSUME LinkInv, NEW k \in Callers,
           \A j \in Callers \ {k} : pc'[j] = pc[j] /\ op'[j] = op[j],
           \A f \in Files : Due(f)' =>
              \/ link'[f] # "none" \/ f \in cut' \/ Pending(pc[k], op[k], f)'
              \/ Due(f) /\ (link[f] # "none" => link'[f] # "none") /\ (f \in cut => f \in cut')
                 /\ ~Pending(pc[k], op[k], f)
    PROVE  LinkInv'
  <1> SUFFICES ASSUME NEW f \in Files, Due(f)', ~(link'[f] # "none"), f \notin cut'
               PROVE  \E j \in Callers : Pending(pc[j], op[j], f)'
    BY DEF LinkInv
  <1>1. CASE Pending(pc[k], op[k], f)'
    BY <1>1
  <1>2. CASE Due(f) /\ (link[f] # "none" => link'[f] # "none") /\ (f \in cut => f \in cut')
             /\ ~Pending(pc[k], op[k], f)
    <2>1. PICK j \in Callers : Pending(pc[j], op[j], f)
      BY <1>2 DEF LinkInv
    <2>2. j # k
      BY <1>2, <2>1
    <2>3. pc'[j] = pc[j] /\ op'[j] = op[j]
      BY <2>2
    <2>4. Pending(pc[j], op[j], f)'
      BY <2>1, <2>3 DEF Pending
    <2> QED BY <2>4
  <1> QED BY <1>1, <1>2

\* The files other than those of the caller's own lists are as they were.
LEMMA CallLinks ==
    ASSUME LinkInv, NEW k \in Callers, Moves(k),
           UNCHANGED <<stored, keyed, blob, link, cut>>,
           \A f \in Files : Due(f) /\ Pending(pc[k], op[k], f) => Pending(pc[k], op[k], f)'
    PROVE  LinkInv'
  <1>1. \A f \in Files : Due(f)' => Due(f)
    BY DEF Due
  <1> QED BY <1>1, LinkKept DEF Moves

\* A caller that starts PutManifest owed no link.
LEMMA PutManifestLinks ==
    ASSUME Core, LinkInv, NEW k \in Callers, NEW c \in Commits, NEW ref \in {0, 1},
           NEW ks \in Versions[c], PutManifest(k, c, ks, ref)
    PROVE  LinkInv'
  <1>1. pc[k] = "idle" /\ Moves(k) /\ UNCHANGED <<stored, keyed, blob, link, cut>>
    BY PutManifestCore DEF PutManifest, At
  <1>2. \A f \in Files : ~Pending(pc[k], op[k], f)
    BY <1>1 DEF Pending, Linking
  <1> QED BY <1>1, <1>2, CallLinks

\* A caller that starts PutBlob owed no link.
LEMMA PutBlobLinks ==
    ASSUME Core, LinkInv, NEW k \in Callers, NEW d \in Blobs, PutBlob(k, d)
    PROVE  LinkInv'
  <1>1. pc[k] = "idle" /\ Moves(k) /\ UNCHANGED <<stored, keyed, blob, link, cut>>
    BY PutBlobCore DEF PutBlob, At
  <1>2. \A f \in Files : ~Pending(pc[k], op[k], f)
    BY <1>1 DEF Pending, Linking
  <1> QED BY <1>1, <1>2, CallLinks

\* Whoever writes a manifest goes through all of its files after that.
LEMMA WriteManifestLinks ==
    ASSUME Core, LinkInv, NEW k \in Callers, WriteManifest(k)
    PROVE  LinkInv'
  <1> DEFINE c == op[k].commit
  <1>1. /\ pc[k] = "write" /\ op[k].kind = "manifest" /\ Moves(k) /\ pc'[k] = "next" /\ c \in Commits
        /\ op'[k].files = {c} \X op[k].keyed
        /\ stored' = stored \cup {c} /\ keyed' = [keyed EXCEPT ![c] = op[k].keyed]
        /\ UNCHANGED <<blob, link, cut>>
    BY WriteManifestCore DEF Core, OpOK, Good, WriteManifest, At
  <1>2. ASSUME NEW f \in Files, Due(f)'
        PROVE  \/ Pending(pc[k], op[k], f)'
               \/ Due(f) /\ ~Pending(pc[k], op[k], f)
    <2>0. f = <<f[1], f[2]>> /\ f[1] \in Commits /\ f[2] \in Paths
      BY DEF Files
    <2>1. CASE f[1] = c
      <3>1. f[2] \in op[k].keyed
        BY <1>1, <1>2, <2>1 DEF Due, Core, TypeOK
      <3>2. f \in {c} \X op[k].keyed
        BY <2>0, <2>1, <3>1
      <3> QED BY <1>1, <3>2 DEF Pending
    <2>2. CASE f[1] # c
      <3>1. Due(f)
        BY <1>1, <1>2, <2>0, <2>2 DEF Due, Core, TypeOK
      <3>2. ~Pending(pc[k], op[k], f)
        BY <1>1 DEF Pending, Linking
      <3> QED BY <3>1, <3>2
    <2> QED BY <2>1, <2>2
  <1> QED BY <1>1, <1>2, LinkKept DEF Moves

\* A file that is passed over has no blob and is not due.
LEMMA StatFileLinks ==
    ASSUME Core, LinkInv, NEW k \in Callers, NEW f \in Files, StatFile(k, f)
    PROVE  LinkInv'
  <1>1. /\ pc[k] = "next" /\ op[k].kind = "manifest" /\ Moves(k)
        /\ op'[k].kind = op[k].kind /\ op'[k].files = op[k].files \ {f}
        /\ \/ blob[Digest(f)] = "absent" /\ pc'[k] = pc[k]
           \/ pc'[k] = "unlink" /\ op'[k].at = f
        /\ UNCHANGED <<stored, keyed, blob, link, cut>>
    BY StatFileCore DEF StatFile, At
  <1>2. ASSUME NEW g \in Files, Due(g), Pending(pc[k], op[k], g)
        PROVE  Pending(pc[k], op[k], g)'
    <2>1. g \in op[k].files
      BY <1>1, <1>2 DEF Pending, Linking
    <2>2. CASE g # f
      BY <1>1, <2>1, <2>2 DEF Pending, Linking
    <2>3. CASE g = f
      BY <1>1, <1>2, <2>3 DEF Pending, Linking, Due
    <2> QED BY <2>2, <2>3
  <1> QED BY <1>1, <1>2, CallLinks

\* A call that returns after its loops leaves nothing.
LEMMA ReturnLinks ==
    ASSUME Core, LinkInv, NEW k \in Callers, PointRef(k) \/ ScanDone(k)
    PROVE  LinkInv'
  <1>1. /\ pc[k] = "next" /\ op[k].files = {} /\ (op[k].kind = "blob" => op[k].commits = {})
        /\ Moves(k) /\ UNCHANGED <<stored, keyed, blob, link, cut>>
    BY ReturnGood DEF Core, PointRef, ScanDone, At
  <1>2. \A f \in Files : ~Pending(pc[k], op[k], f)
    BY <1>1 DEF Pending, Linking
  <1> QED BY <1>1, <1>2, CallLinks

\* A caller that asks for its blob owes no link yet.
LEMMA StatBlobLinks ==
    ASSUME Core, LinkInv, NEW k \in Callers, StatBlob(k)
    PROVE  LinkInv'
  <1>1. pc[k] = "stat" /\ Moves(k) /\ UNCHANGED <<stored, keyed, blob, link, cut>>
    BY StatBlobCore DEF StatBlob, At
  <1>2. \A f \in Files : ~Pending(pc[k], op[k], f)
    BY <1>1 DEF Pending, Linking
  <1> QED BY <1>1, <1>2, CallLinks

\* The blob's arrival makes files due, which whoever brought it will scan for.
LEMMA RenameLinks ==
    ASSUME Core, LinkInv, NEW k \in Callers, Rename(k)
    PROVE  LinkInv'
  <1>1. /\ pc[k] = "rename" /\ Moves(k) /\ pc'[k] = "scan" /\ op'[k] = op[k]
        /\ op[k].kind = "blob" /\ UNCHANGED <<stored, keyed, cut>>
        /\ \A d \in Blobs : d # op[k].digest => blob'[d] = blob[d]
        /\ \A f \in Files : link[f] # "none" => link'[f] # "none"
    BY RenameCore DEF Rename, At
  <1>2. ASSUME NEW f \in Files, Due(f)'
        PROVE  \/ Pending(pc[k], op[k], f)'
               \/ Due(f) /\ ~Pending(pc[k], op[k], f)
    <2>1. CASE Digest(f) = op[k].digest
      BY <1>1, <2>1 DEF Pending
    <2>2. CASE Digest(f) # op[k].digest
      <3>1. Due(f)
        BY <1>1, <1>2, <2>2, DigestType DEF Due
      <3> QED BY <1>1, <3>1 DEF Pending, Linking
    <2> QED BY <2>1, <2>2
  <1> QED BY <1>1, <1>2, LinkKept DEF Moves

\* A manifest that is not in the listing, or lacks a file when it is read,
\* has its own writer still to come.
LEMMA ScanLinks ==
    ASSUME Core, LinkInv, NEW k \in Callers, ScanManifests(k)
    PROVE  LinkInv'
  <1>1. /\ pc[k] = "scan" /\ Moves(k) /\ pc'[k] = "next" /\ op'[k].commits = stored
        /\ op[k].kind = "blob" /\ op'[k].kind = "blob" /\ op'[k].digest = op[k].digest
        /\ UNCHANGED <<stored, keyed, blob, link, cut>>
    BY ScanCore DEF ScanManifests, At
  <1>2. ASSUME NEW f \in Files, Due(f), Pending(pc[k], op[k], f)
        PROVE  Pending(pc[k], op[k], f)'
    BY <1>1, <1>2 DEF Pending, Linking, Due
  <1> QED BY <1>1, <1>2, CallLinks

\* The files of a manifest that PutBlob has read take its place among the owed links.
LEMMA ReadLinks ==
    ASSUME Core, LinkInv, NEW k \in Callers, NEW c \in Commits, ReadManifest(k, c)
    PROVE  LinkInv'
  <1>1. /\ Moves(k) /\ pc[k] = "next" /\ pc'[k] = "next"
        /\ op[k].files = {} /\ op'[k].commits = op[k].commits \ {c}
        /\ op'[k].files = {f \in {c} \X keyed[c] : Digest(f) = op[k].digest}
        /\ op[k].kind = "blob" /\ op'[k].kind = "blob" /\ op'[k].digest = op[k].digest
        /\ UNCHANGED <<stored, keyed, blob, link, cut>>
    BY ReadCore DEF ReadManifest
  <1>2. ASSUME NEW f \in Files, Due(f), Pending(pc[k], op[k], f)
        PROVE  Pending(pc[k], op[k], f)'
    <2>1. /\ f = <<f[1], f[2]>> /\ f[2] \in keyed[f[1]] /\ Digest(f) = op[k].digest
          /\ f[1] \in op[k].commits
      BY <1>1, <1>2 DEF Pending, Linking, Due, Files
    <2>2. CASE f[1] = c
      <3>1. f \in op'[k].files
        BY <1>1, <2>1, <2>2
      <3> QED BY <1>1, <3>1 DEF Pending
    <2>3. CASE f[1] # c
      BY <1>1, <2>1, <2>3 DEF Pending
    <2> QED BY <2>2, <2>3
  <1> QED BY <1>1, <1>2, CallLinks

\* The files of a manifest that PutBlob passes over are given up.
LEMMA SkipLinks ==
    ASSUME Core, LinkInv, NEW k \in Callers, NEW c \in Commits, SkipManifest(k, c)
    PROVE  LinkInv'
  <1>1. /\ Moves(k) /\ pc[k] = "next" /\ pc'[k] = "next"
        /\ op[k].files = {} /\ op'[k].commits = op[k].commits \ {c}
        /\ op'[k].digest = op[k].digest /\ op'[k].kind = op[k].kind
        /\ cut' = cut \cup {f \in {c} \X keyed[c] : Digest(f) = op[k].digest}
        /\ UNCHANGED <<stored, keyed, blob, link>>
    BY SkipCore DEF SkipManifest
  <1>2. \A f \in Files : Due(f)' => Due(f)
    BY <1>1 DEF Due
  <1>3. ASSUME NEW f \in Files, Due(f), Pending(pc[k], op[k], f)
        PROVE  f \in cut' \/ Pending(pc[k], op[k], f)'
    <2>1. /\ f = <<f[1], f[2]>> /\ f[2] \in keyed[f[1]] /\ Digest(f) = op[k].digest
          /\ f[1] \in op[k].commits /\ op[k].kind = "blob"
      BY <1>1, <1>3 DEF Pending, Linking, Due, Files
    <2>2. CASE f[1] = c
      BY <1>1, <2>1, <2>2
    <2>3. CASE f[1] # c
      BY <1>1, <2>1, <2>3 DEF Pending
    <2> QED BY <2>2, <2>3
  <1>4. /\ \A j \in Callers \ {k} : pc'[j] = pc[j] /\ op'[j] = op[j]
        /\ \A f \in Files : (link[f] # "none" => link'[f] # "none") /\ (f \in cut => f \in cut')
    BY <1>1 DEF Moves
  <1> QED BY <1>2, <1>3, <1>4, LinkKept

\* The file PutBlob turns to is still owed its link.
LEMMA LinkFileLinks ==
    ASSUME Core, LinkInv, NEW k \in Callers, NEW f \in Files, LinkFile(k, f)
    PROVE  LinkInv'
  <1>1. /\ Moves(k) /\ pc[k] = "next" /\ pc'[k] = "unlink"
        /\ op'[k].files = op[k].files \ {f} /\ op'[k].at = f /\ op'[k].kind = op[k].kind
        /\ op'[k].digest = op[k].digest /\ op'[k].commits = op[k].commits
        /\ UNCHANGED <<stored, keyed, blob, link, cut>>
    BY LinkFileCore DEF LinkFile
  <1>2. ASSUME NEW g \in Files, Due(g), Pending(pc[k], op[k], g)
        PROVE  Pending(pc[k], op[k], g)'
    BY <1>1, <1>2 DEF Pending, Linking
  <1> QED BY <1>1, <1>2, CallLinks

\* While linkSnapshotFile runs its file is pending; when it ends the name is taken.
LEMMA LinkLinks ==
    ASSUME Core, LinkInv, NEW k \in Callers, Unlink(k) \/ Symlink(k) \/ Hardlink(k) \/ CopyFile(k)
    PROVE  LinkInv'
  <1> DEFINE at == op[k].at
  <1>1. at \in Files /\ pc[k] \in Linking /\ blob[Digest(at)] # "absent"
    BY DEF Core, OpOK, Good, Unlink, Symlink, Hardlink, CopyFile, At, Linking
  <1>2. ASSUME NEW p \in Linking, Goto(k, p), UNCHANGED <<op, stored, keyed, main, blob, cut, spent>>,
               link' = [link EXCEPT ![at] = "none"] \/ UNCHANGED link
        PROVE  LinkInv'
    <2>1. link' \in [Files -> {"none", "sym", "hard", "copy"}]
      BY <1>1, <1>2 DEF Core, TypeOK
    <2>2. Moves(k) /\ pc'[k] = p /\ op'[k] = op[k]
      BY <1>1, <1>2, <2>1, LinkingCore
    <2>3. ASSUME NEW f \in Files, Due(f)'
          PROVE  \/ Pending(pc[k], op[k], f)'
                 \/ Due(f) /\ (link[f] # "none" => link'[f] # "none") /\ ~Pending(pc[k], op[k], f)
      <3>1. CASE Pending(pc[k], op[k], f)
        BY <1>1, <1>2, <2>2, <3>1 DEF Pending, Linking
      <3>2. CASE ~Pending(pc[k], op[k], f)
        <4>1. f # at
          BY <1>1, <3>2 DEF Pending
        <4>2. link'[f] = link[f]
          BY <1>1, <1>2, <4>1 DEF Core, TypeOK
        <4> QED BY <1>2, <2>3, <3>2, <4>2 DEF Due
      <3> QED BY <3>1, <3>2
    <2> QED BY <1>2, <2>2, <2>3, LinkKept DEF Moves
  <1>3. ASSUME Linked(k), UNCHANGED <<stored, keyed>>, link'[at] # "none",
               \A f \in Files : f # at => link'[f] = link[f],
               \A d \in Blobs : blob[d] = "absent" => blob'[d] = "absent"
        PROVE  LinkInv'
    <2>1. /\ Moves(k) /\ pc'[k] = "next" /\ cut' = cut \ {at} /\ op'[k].kind = op[k].kind
          /\ op'[k].digest = op[k].digest /\ op'[k].commits = op[k].commits
          /\ op'[k].files = op[k].files
      BY <1>3, LinkedMoves DEF Core
    <2>2. ASSUME NEW f \in Files, Due(f)', f # at
          PROVE  \/ Pending(pc[k], op[k], f)'
                 \/ Due(f) /\ ~Pending(pc[k], op[k], f)
      <3>1. Due(f)
        BY <1>3, <2>2, DigestType DEF Due
      <3>2. Pending(pc[k], op[k], f) => Pending(pc[k], op[k], f)'
        BY <1>1, <2>1, <2>2 DEF Pending, Linking
      <3> QED BY <3>1, <3>2
    <2> HIDE DEF at
    <2> QED BY <1>3, <2>1, <2>2, LinkKept DEF Moves
  <1>4. CASE Unlink(k)
    BY <1>2, <1>4 DEF Unlink, Linking
  <1>5. CASE Symlink(k)
    <2>1. CASE link[at] = "none"
      <3>1. link' = [link EXCEPT ![at] = "sym"] /\ Linked(k) /\ UNCHANGED <<stored, keyed, blob>>
        BY <1>5, <2>1 DEF Symlink
      <3>2. link'[at] # "none" /\ \A f \in Files : f # at => link'[f] = link[f]
        BY <1>1, <3>1 DEF Core, TypeOK
      <3> QED BY <1>3, <3>1, <3>2
    <2>2. CASE link[at] # "none"
      BY <1>2, <1>5, <2>2 DEF Symlink, Linking
    <2> QED BY <2>1, <2>2
  <1>6. CASE Hardlink(k)
    <2>1. CASE link[at] = "none"
      <3>1. link' = [link EXCEPT ![at] = "hard"] /\ Linked(k) /\ UNCHANGED <<stored, keyed, blob>>
        BY <1>6, <2>1 DEF Hardlink
      <3>2. link'[at] # "none" /\ \A f \in Files : f # at => link'[f] = link[f]
        BY <1>1, <3>1 DEF Core, TypeOK
      <3> QED BY <1>3, <3>1, <3>2
    <2>2. CASE link[at] # "none"
      BY <1>2, <1>6, <2>2 DEF Hardlink, Linking
    <2> QED BY <2>1, <2>2
  <1>7. CASE CopyFile(k)
    <2>1. link'[at] # "none" /\ \A f \in Files : f # at => link'[f] = link[f]
      BY <1>1, <1>7 DEF CopyFile, Core, TypeOK
    <2>2. \A d \in Blobs : blob[d] = "absent" => blob'[d] = "absent"
      BY <1>1, <1>7, DigestType DEF CopyFile, Core, TypeOK
    <2> QED BY <1>3, <1>7, <2>1, <2>2 DEF CopyFile
  <1> QED BY <1>4, <1>5, <1>6, <1>7

\* What a caller that stops would have linked counts as cut short.
LEMMA StopsCut ==
    ASSUME Core, NEW k \in Callers, NEW f \in Files, Pending(pc[k], op[k], f)
    PROVE  f \in Unlinked(k)
  <1>1. Good(pc[k], op[k]) /\ f # None
    BY DigestType DEF Core, OpOK
  <1> QED BY <1>1 DEF Pending, Unlinked, Linking

\* The links a failed call still owed are counted as cut short.
LEMMA FailLinks ==
    ASSUME Core, LinkInv, NEW k \in Callers, Fail(k)
    PROVE  LinkInv'
  <1>1. Moves(k) /\ cut' = cut \cup Unlinked(k) /\ UNCHANGED <<stored, keyed, blob, link>>
    BY FailCore DEF Fail
  <1>2. \A f \in Files : Due(f)' => Due(f) /\ (f \in cut' \/ ~Pending(pc[k], op[k], f))
    BY <1>1, StopsCut DEF Due
  <1> QED BY <1>1, <1>2, LinkKept DEF Moves

\* So are those of the calls a crash ended.
LEMMA CrashLinks == ASSUME Core, LinkInv, Crash PROVE LinkInv'
  <1>1. cut' = cut \cup UNION {Unlinked(k) : k \in Callers} /\ UNCHANGED <<stored, keyed, blob, link>>
    BY DEF Crash
  <1>2. ASSUME NEW f \in Files, Due(f)', link'[f] = "none"
        PROVE  f \in cut'
    <2>1. Due(f) /\ link[f] = "none"
      BY <1>1, <1>2 DEF Due
    <2>2. f \in cut \/ \E k \in Callers : f \in Unlinked(k)
      BY <2>1, StopsCut DEF LinkInv
    <2> QED BY <1>1, <2>2
  <1> QED BY <1>2 DEF LinkInv

\* Every step keeps the links.
LEMMA LinkStep == ASSUME Core, LinkInv, [Next]_vars PROVE LinkInv'
  <1>1. ASSUME NEW k \in Callers, Step(k) PROVE LinkInv'
    BY <1>1, WriteManifestLinks, ReturnLinks, StatFileLinks, LinkFileLinks, StatBlobLinks,
       RenameLinks, ScanLinks, ReadLinks, LinkLinks DEF Step
  <1>2. CASE UNCHANGED vars
    BY <1>2 DEF vars, LinkInv, Due, Pending
  <1> QED BY <1>1, <1>2, PutManifestLinks, PutBlobLinks, FailLinks, SkipLinks, CrashLinks DEF Next

-----------------------------------------------------------------------------
(* Theorems *)

\* fsbackend.go: what is on disk, and what PutManifest and PutBlob keep in their
\* locals, stays within its types.
THEOREM TypeCorrect == Spec => []TypeOK
  <1>1. Core /\ [Next]_vars => Core'
    BY CoreStep
  <1>2. Core => TypeOK
    BY DEF Core
  <1> QED BY InitCore, <1>1, <1>2, PTL DEF Spec

\* fsbackend.go PutManifest: refs/main names a commit whose manifest is written,
\* whatever failed or crashed.
THEOREM RefsStored == Spec => []RefStored
  <1>1. Core /\ [Next]_vars => Core'
    BY CoreStep
  <1>2. Core => RefStored
    BY DEF Core
  <1> QED BY InitCore, <1>1, <1>2, PTL DEF Spec

\* fsbackend.go PutManifest and PutBlob, which share no lock: at rest every file of a
\* stored manifest whose blob is there is in the snapshot, unless an error or a
\* crash cut its linking short, for any number of concurrent calls.
THEOREM SnapshotsComplete == Spec => []SnapshotLinked
  <1>1. Init => LinkInv
    BY DEF Init, LinkInv, Due
  <1>2. Core /\ LinkInv /\ [Next]_vars => Core' /\ LinkInv'
    BY CoreStep, LinkStep
  <1>3. LinkInv /\ TypeOK => SnapshotLinked
    <2> SUFFICES ASSUME LinkInv, TypeOK, Idle, NEW c \in stored, NEW p \in keyed[c],
                        blob[BlobAt[c][p]] # "absent", link[<<c, p>>] = "none"
                 PROVE  <<c, p>> \in cut
      BY DEF SnapshotLinked
    <2>1. <<c, p>> \in Files /\ Due(<<c, p>>)
      BY DEF TypeOK, Files, Due, Digest
    <2>2. \A k \in Callers : ~Pending(pc[k], op[k], <<c, p>>)
      BY DEF Idle, Pending, Linking
    <2> QED BY <2>1, <2>2 DEF LinkInv
  <1>4. Core => TypeOK
    BY DEF Core
  <1> QED BY InitCore, <1>1, <1>2, <1>3, <1>4, PTL DEF Spec

=============================================================================
