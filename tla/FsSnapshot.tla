---------------------------- MODULE FsSnapshot ----------------------------
(***************************************************************************)
(* One repository of the filesystem backend (internal/backend/fsbackend):  *)
(* how PutManifest and PutBlob, which share no lock, link the blobs of a   *)
(* commit into its snapshot directory.                                     *)
(*                                                                         *)
(* PutManifest writes the manifest and then links the blobs that are       *)
(* there; PutBlob writes the blob and then links it into the manifests     *)
(* that are there.  A step is one file operation.  An entry of a commit    *)
(* has one content, so manifests of a commit differ only in which paths    *)
(* have their storage key yet; files are linked in any order.  The file    *)
(* system has symbolic links: Symlink fails only when the name is taken.   *)
(***************************************************************************)
EXTENDS Naturals, FiniteSets

CONSTANTS
    Callers,    \* goroutines using the backend
    Commits,    \* commit ids
    Paths,      \* file paths
    Blobs,      \* content digests
    BlobAt,     \* BlobAt[c][p]: the digest of path p in commit c
    Versions,   \* Versions[c]: the sets of keyed paths callers may put for c
    None,       \* no commit
    Limit       \* bounds on calls, I/O errors and crashes

Limited == {"put", "blob", "failure", "crash"}

ASSUME BlobAtAssumption == BlobAt \in [Commits -> [Paths -> Blobs]]
ASSUME VersionsAssumption == Versions \in [Commits -> SUBSET SUBSET Paths]
ASSUME NoneAssumption == None \notin Commits \cup (Commits \X Paths)
ASSUME LimitAssumption == Limit \in [Limited -> Nat]

VARIABLES
    stored,     \* commits with a manifest file ...
    keyed,      \* ... and per commit the paths its manifest has a digest for
    main,       \* the commit refs/main names
    blob,       \* per digest: absent, intact, or damaged (other bytes)
    link,       \* per snapshot file: none, sym, hard (links to the blob), copy
    pc,         \* per caller: the next file operation
    op,         \* per caller: its arguments and what it has still to link
    cut,        \* history: snapshot files whose linking an error cut short
    spent       \* how much of each Limit has been used

vars == <<stored, keyed, main, blob, link, pc, op, cut, spent>>

-----------------------------------------------------------------------------
Files == Commits \X Paths
Digest(f) == BlobAt[f[1]][f[2]]

Linking == {"unlink", "symlink", "hardlink", "copy"}
Points == {"idle", "write", "next", "stat", "rename", "scan"} \cup Linking

Op == [kind: {"none", "manifest", "blob"}, commit: Commits \cup {None},
       keyed: SUBSET Paths, ref: {0, 1}, digest: Blobs \cup {None},
       commits: SUBSET Commits, files: SUBSET Files, at: Files \cup {None}]
NoOp == [kind |-> "none", commit |-> None, keyed |-> {}, ref |-> 0, digest |-> None,
         commits |-> {}, files |-> {}, at |-> None]

Spend(what) == /\ spent[what] < Limit[what]
               /\ spent' = [spent EXCEPT ![what] = @ + 1]

At(k, point) == pc[k] = point
Goto(k, point) == pc' = [pc EXCEPT ![k] = point]
Return(k) == Goto(k, "idle") /\ op' = [op EXCEPT ![k] = NoOp]

Init ==
    /\ stored = {} /\ keyed = [c \in Commits |-> {}]
    /\ main = None
    /\ blob = [d \in Blobs |-> "absent"]
    /\ link = [f \in Files |-> "none"]
    /\ pc = [k \in Callers |-> "idle"]
    /\ op = [k \in Callers |-> NoOp]
    /\ cut = {}
    /\ spent = [w \in Limited |-> 0]

-----------------------------------------------------------------------------
(* PutManifest: manifest, snapshot links, refs *)

\* Mutant: the ref is written first.
PutManifestRefFirst(k, c, ks, ref) ==
    /\ At(k, "idle")
    /\ ks \in Versions[c]
    /\ Spend("put")
    /\ Goto(k, "write")
    /\ op' = [op EXCEPT ![k] = [NoOp EXCEPT !.kind = "manifest", !.commit = c, !.keyed = ks]]
    /\ main' = IF ref = 1 THEN c ELSE main
    /\ UNCHANGED <<stored, keyed, blob, link, cut>>

PutManifest(k, c, ks, ref) ==
    /\ At(k, "idle")
    /\ ks \in Versions[c]
    /\ Spend("put")
    /\ Goto(k, "write")
    /\ op' = [op EXCEPT ![k] = [NoOp EXCEPT !.kind = "manifest", !.commit = c,
                                            !.keyed = ks, !.ref = ref]]
    /\ UNCHANGED <<stored, keyed, main, blob, link, cut>>

\* writeFileAtomic of the manifest.
WriteManifest(k) ==
    LET c == op[k].commit IN
    /\ At(k, "write")
    /\ stored' = stored \cup {c}
    /\ keyed' = [keyed EXCEPT ![c] = op[k].keyed]
    /\ op' = [op EXCEPT ![k].files = {c} \X op[k].keyed]
    /\ Goto(k, "next")
    /\ UNCHANGED <<main, blob, link, cut, spent>>

\* The loop over the manifest's files: a blob that is not there is passed over.
StatFile(k, f) ==
    /\ At(k, "next") /\ op[k].kind = "manifest"
    /\ f \in op[k].files
    /\ IF blob[Digest(f)] = "absent"
       THEN op' = [op EXCEPT ![k].files = @ \ {f}] /\ UNCHANGED pc
       ELSE /\ op' = [op EXCEPT ![k].files = @ \ {f}, ![k].at = f]
            /\ Goto(k, "unlink")
    /\ UNCHANGED <<stored, keyed, main, blob, link, cut, spent>>

\* All files done: the refs, and return.
PointRef(k) ==
    /\ At(k, "next") /\ op[k].kind = "manifest"
    /\ op[k].files = {}
    /\ main' = IF op[k].ref = 1 THEN op[k].commit ELSE main
    /\ Return(k)
    /\ UNCHANGED <<stored, keyed, blob, link, cut, spent>>

-----------------------------------------------------------------------------
(* PutBlob: blob, then the snapshots that want it *)

PutBlob(k, d) ==
    /\ At(k, "idle")
    /\ Spend("blob")
    /\ Goto(k, "stat")
    /\ op' = [op EXCEPT ![k] = [NoOp EXCEPT !.kind = "blob", !.digest = d]]
    /\ UNCHANGED <<stored, keyed, main, blob, link, cut>>

\* "already have it", or stream to a temporary file and verify.
StatBlob(k) ==
    /\ At(k, "stat")
    /\ IF blob[op[k].digest] # "absent" THEN Return(k)
                                        ELSE Goto(k, "rename") /\ UNCHANGED op
    /\ UNCHANGED <<stored, keyed, main, blob, link, cut, spent>>

\* Mutant: PutBlob returns when the blob is in place, as it does when it was there.
RenameReturns(k) ==
    LET d == op[k].digest IN
    /\ At(k, "rename")
    /\ blob' = [blob EXCEPT ![d] = "intact"]
    /\ link' = [f \in Files |-> IF link[f] = "hard" /\ Digest(f) = d THEN "copy" ELSE link[f]]
    /\ Return(k)
    /\ UNCHANGED <<stored, keyed, main, cut, spent>>

\* Hard links to a blob that is replaced keep the old file.
Rename(k) ==
    LET d == op[k].digest IN
    /\ At(k, "rename")
    /\ blob' = [blob EXCEPT ![d] = "intact"]
    /\ link' = [f \in Files |-> IF link[f] = "hard" /\ Digest(f) = d THEN "copy" ELSE link[f]]
    /\ Goto(k, "scan")
    /\ UNCHANGED <<stored, keyed, main, op, cut, spent>>

\* os.ReadDir of the manifests.
ScanManifests(k) ==
    /\ At(k, "scan")
    /\ op' = [op EXCEPT ![k].commits = stored]
    /\ Goto(k, "next")
    /\ UNCHANGED <<stored, keyed, main, blob, link, cut, spent>>

\* One manifest of the listing is read.
ReadManifest(k, c) ==
    /\ At(k, "next") /\ op[k].kind = "blob"
    /\ op[k].files = {}
    /\ c \in op[k].commits
    /\ op' = [op EXCEPT ![k].commits = @ \ {c},
                        ![k].files = {f \in {c} \X keyed[c] : Digest(f) = op[k].digest}]
    /\ UNCHANGED <<stored, keyed, main, blob, link, pc, cut, spent>>

\* A manifest that cannot be read is passed over, and PutBlob still succeeds.
SkipManifest(k, c) ==
    /\ At(k, "next") /\ op[k].kind = "blob"
    /\ op[k].files = {}
    /\ c \in op[k].commits
    /\ Spend("failure")
    /\ op' = [op EXCEPT ![k].commits = @ \ {c}]
    /\ cut' = cut \cup {f \in {c} \X keyed[c] : Digest(f) = op[k].digest}
    /\ UNCHANGED <<stored, keyed, main, blob, link, pc>>

LinkFile(k, f) ==
    /\ At(k, "next") /\ op[k].kind = "blob"
    /\ f \in op[k].files
    /\ op' = [op EXCEPT ![k].files = @ \ {f}, ![k].at = f]
    /\ Goto(k, "unlink")
    /\ UNCHANGED <<stored, keyed, main, blob, link, cut, spent>>

ScanDone(k) ==
    /\ At(k, "next") /\ op[k].kind = "blob"
    /\ op[k].files = {} /\ op[k].commits = {}
    /\ Return(k)
    /\ UNCHANGED <<stored, keyed, main, blob, link, cut, spent>>

-----------------------------------------------------------------------------
(* linkSnapshotFile: remove what is there, symlink, else hard link, else copy *)

Linked(k) == /\ op' = [op EXCEPT ![k].at = None]
             /\ Goto(k, "next")
             /\ cut' = cut \ {op[k].at}

Unlink(k) ==
    /\ At(k, "unlink")
    /\ link' = [link EXCEPT ![op[k].at] = "none"]
    /\ Goto(k, "symlink")
    /\ UNCHANGED <<stored, keyed, main, blob, op, cut, spent>>

Symlink(k) ==
    /\ At(k, "symlink")
    /\ IF link[op[k].at] = "none"
       THEN link' = [link EXCEPT ![op[k].at] = "sym"] /\ Linked(k)
       ELSE Goto(k, "hardlink") /\ UNCHANGED <<link, op, cut>>
    /\ UNCHANGED <<stored, keyed, main, blob, spent>>

Hardlink(k) ==
    /\ At(k, "hardlink")
    /\ IF link[op[k].at] = "none"
       THEN link' = [link EXCEPT ![op[k].at] = "hard"] /\ Linked(k)
       ELSE Goto(k, "copy") /\ UNCHANGED <<link, op, cut>>
    /\ UNCHANGED <<stored, keyed, main, blob, spent>>

\* copyFile: os.Create follows a link that another caller has made meanwhile, to
\* the blob that is being copied, and truncates it.
CopyFile(k) ==
    LET f == op[k].at IN
    /\ At(k, "copy")
    /\ IF link[f] \in {"sym", "hard"}
       THEN blob' = [blob EXCEPT ![Digest(f)] = "damaged"] /\ UNCHANGED link
       ELSE link' = [link EXCEPT ![f] = "copy"] /\ UNCHANGED blob
    /\ Linked(k)
    /\ UNCHANGED <<stored, keyed, main, spent>>

-----------------------------------------------------------------------------
(* Errors and crashes *)

\* The files a caller that stops here leaves for somebody else to link.
Unlinked(k) ==
    op[k].files \cup ({op[k].at} \ {None})
    \cup {f \in Files : op[k].kind = "blob" /\ pc[k] \notin {"stat", "rename"}
                        /\ Digest(f) = op[k].digest}

\* A file operation fails and the call returns the error.
Fail(k) ==
    /\ ~At(k, "idle")
    /\ Spend("failure")
    /\ cut' = cut \cup Unlinked(k)
    /\ Return(k)
    /\ UNCHANGED <<stored, keyed, main, blob, link>>

Crash ==
    /\ Spend("crash")
    /\ cut' = cut \cup UNION {Unlinked(k) : k \in Callers}
    /\ pc' = [k \in Callers |-> "idle"]
    /\ op' = [k \in Callers |-> NoOp]
    /\ UNCHANGED <<stored, keyed, main, blob, link>>

-----------------------------------------------------------------------------
Step(k) == \/ WriteManifest(k) \/ PointRef(k)
           \/ \E f \in Files : StatFile(k, f) \/ LinkFile(k, f)
           \/ StatBlob(k) \/ Rename(k) \/ ScanManifests(k) \/ ScanDone(k)
           \/ \E c \in Commits : ReadManifest(k, c)
           \/ Unlink(k) \/ Symlink(k) \/ Hardlink(k) \/ CopyFile(k)

Next ==
    \/ \E k \in Callers :
          \/ \E c \in Commits, ref \in {0, 1} : \E ks \in Versions[c] : PutManifest(k, c, ks, ref)
          \/ \E d \in Blobs : PutBlob(k, d)
          \/ Step(k) \/ Fail(k)
          \/ \E c \in Commits : SkipManifest(k, c)
    \/ Crash

Spec == Init /\ [][Next]_vars

-----------------------------------------------------------------------------
(* Correctness *)

\* Every variable ranges over the values its counterpart on disk can take.
TypeOK ==
    /\ stored \subseteq Commits /\ keyed \in [Commits -> SUBSET Paths]
    /\ main \in Commits \cup {None}
    /\ blob \in [Blobs -> {"absent", "intact", "damaged"}]
    /\ link \in [Files -> {"none", "sym", "hard", "copy"}]
    /\ pc \in [Callers -> Points] /\ op \in [Callers -> Op]
    /\ cut \subseteq Files /\ spent \in [Limited -> Nat]

Idle == \A k \in Callers : pc[k] = "idle"

\* "blobs arriving later are linked by PutBlob", "PutManifest will link later": at
\* rest every file of a stored manifest whose blob is there is in the snapshot,
\* unless an error or a crash cut its linking short and nobody repaired it.
SnapshotLinked ==
    Idle => \A c \in stored : \A p \in keyed[c] :
               \/ blob[BlobAt[c][p]] = "absent"
               \/ link[<<c, p>>] # "none"
               \/ <<c, p>> \in cut

\* A reader that follows refs/main finds the commit's manifest, whatever failed.
RefStored == main # None => main \in stored

\* "the same digest always refers to the same bytes, so writes are idempotent and
\* reads are immutable": a stored blob never changes.
BlobsImmutable == \A d \in Blobs : blob[d] # "damaged"
=============================================================================
