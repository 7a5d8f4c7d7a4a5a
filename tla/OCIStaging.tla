---------------------------- MODULE OCIStaging ----------------------------
(***************************************************************************)
(* One repository of the OCI backend (internal/backend/ocibackend): how    *)
(* PutManifest stages a commit whose blobs have not all arrived, and how   *)
(* PutBlob promotes it to its real tags when they have.                    *)
(*                                                                         *)
(* The registry's tags and blobs are the durable state; the pending flag   *)
(* and the repo mutex live in the process.  Each caller is one goroutine   *)
(* in PutManifest, PutBlob or DeleteRepo; a step is one request to the     *)
(* registry, or one section under a mutex.  Blobs only ever arrive, so the *)
(* HEADs of layersFor are one step; the config and placeholder blobs that  *)
(* publish and stage push before their tag are not told apart from it.     *)
(***************************************************************************)
EXTENDS Naturals, FiniteSets

CONSTANTS
    Callers,    \* goroutines using the backend
    Format,     \* Options.Format: "modelpack" or "tar-layers"
    Commits,    \* commit ids
    Refs,       \* branch and tag names
    Blobs,      \* content sha256 digests
    Unkeyed,    \* a file entry with no sha256 key yet (sha1 or no digest)
    Versions,   \* Versions[c]: the file lists callers may put for commit c
    None,       \* no caller, no commit, no blob
    Limit       \* bounds on calls, failed requests and crashes

Limited == {"put", "blob", "delete", "failure", "crash"}

ASSUME FormatAssumption == Format \in {"modelpack", "tar-layers"}
ASSUME NoneAssumption == None \notin Callers \cup Commits \cup Blobs
ASSUME VersionsAssumption ==
    /\ Unkeyed \notin Blobs
    /\ Versions \in [Commits -> SUBSET SUBSET (Blobs \cup {Unkeyed})]
ASSUME LimitAssumption == Limit \in [Limited -> Nat]

VARIABLES
    blobs,          \* layers in the registry, by the digest of their content
    index,          \* tar-layers: the digests the index artifact knows
    published,      \* commits with their own tag ...
    publishedFiles, \* ... and the files of their manifest
    staged,         \* commits with a shpiel-staged- tag ...
    stagedFiles,    \* ... the files of its manifest
    stagedRefs,     \* ... and the refs to apply on promotion
    late,           \* history: staged although all their blobs had landed since
                    \* putOrStage looked
    refTag,         \* the commit each ref's tag resolves to
    pending,        \* 1 when the repo is in Backend.pending
    lock,           \* holder of the repo mutex
    pc, op,         \* per caller: where it is, and its arguments and locals
    acked,          \* history: blobs whose PutBlob succeeded
    torn,           \* history: 1 from the first tag a DeleteRepo removes until
                    \* one has removed them all
    spent           \* how much of each Limit has been used

stages   == <<staged, stagedFiles, stagedRefs, late>>
tags     == <<published, publishedFiles, stages, refTag, index>>
history  == <<acked, torn>>
vars     == <<blobs, tags, pending, lock, pc, op, history, spent>>

-----------------------------------------------------------------------------
Files == Blobs \cup {Unkeyed}
Waits == {"waitPut", "waitPromote", "waitCheck", "waitIndex", "waitDelete"}
\* The program points at which a caller holds the repo mutex.
Critical == {"layers", "stage", "note", "publish", "refs", "list", "promote",
             "check", "index", "tags", "delete"}
Points == {"idle", "upload", "pend"} \cup Waits \cup Critical

Tag == ({"commit", "staged"} \X Commits) \cup ({"ref"} \X Refs) \cup {<<"index", None>>}
Op == [kind: {"none", "manifest", "blob", "delete"}, commit: Commits \cup {None},
       files: SUBSET Files, refs: SUBSET Refs, blob: Blobs \cup {None},
       rest: SUBSET Commits, left: SUBSET Commits, tags: SUBSET Tag]
NoOp == [kind |-> "none", commit |-> None, files |-> {}, refs |-> {}, blob |-> None,
         rest |-> {}, left |-> {}, tags |-> {}]

\* Where layersFor looks a file up: the registry, or the index artifact.
Present == IF Format = "modelpack" THEN blobs ELSE index

Tags == {<<"commit", c>> : c \in published} \cup {<<"staged", c>> : c \in staged}
        \cup {<<"ref", f>> : f \in {g \in Refs : refTag[g] # None}}
        \cup (IF index = {} THEN {} ELSE {<<"index", None>>})

Spend(what) == /\ spent[what] < Limit[what]
               /\ spent' = [spent EXCEPT ![what] = @ + 1]

At(p, point) == pc[p] = point
Goto(p, point) == pc' = [pc EXCEPT ![p] = point]

Init ==
    /\ blobs = {} /\ index = {}
    /\ published = {} /\ publishedFiles = [c \in Commits |-> {}]
    /\ staged = {} /\ stagedFiles = [c \in Commits |-> {}]
    /\ stagedRefs = [c \in Commits |-> {}] /\ late = {}
    /\ refTag = [f \in Refs |-> None]
    /\ pending = 0 /\ lock = None
    /\ pc = [p \in Callers |-> "idle"] /\ op = [p \in Callers |-> NoOp]
    /\ acked = {} /\ torn = 0
    /\ spent = [w \in Limited |-> 0]

-----------------------------------------------------------------------------
(* Calls, the repo mutex, returns *)

Call(p, what, point, record) ==
    /\ At(p, "idle")
    /\ Spend(what)
    /\ Goto(p, point)
    /\ op' = [op EXCEPT ![p] = record]
    /\ UNCHANGED <<blobs, tags, pending, lock, history>>

\* PutManifest; refs is what refsFor keeps: the names that point at c.
PutManifest(p, c, files, refs) ==
    Call(p, "put", "waitPut", [NoOp EXCEPT !.kind = "manifest", !.commit = c,
                                           !.files = files, !.refs = refs])

\* PutBlob: tar-layers first asks the index, modelpack uploads at once.
PutBlob(p, b) ==
    Call(p, "blob", IF Format = "tar-layers" THEN "waitCheck" ELSE "upload",
         [NoOp EXCEPT !.kind = "blob", !.blob = b])

DeleteRepo(p) == Call(p, "delete", "waitDelete", [NoOp EXCEPT !.kind = "delete"])

Entered(wait) == CASE wait = "waitPut"     -> "layers"
                   [] wait = "waitPromote" -> "list"
                   [] wait = "waitCheck"   -> "check"
                   [] wait = "waitIndex"   -> "index"
                   [] wait = "waitDelete"  -> "tags"

\* Mutant: the mutex excludes nobody.
LockRepoShared(p) ==
    /\ pc[p] \in Waits
    /\ lock' = p
    /\ Goto(p, Entered(pc[p]))
    /\ UNCHANGED <<blobs, tags, pending, op, history, spent>>

\* lockRepo.
LockRepo(p) ==
    /\ pc[p] \in Waits
    /\ lock = None
    /\ lock' = p
    /\ Goto(p, Entered(pc[p]))
    /\ UNCHANGED <<blobs, tags, pending, op, history, spent>>

Unlock(p) == lock' = IF lock = p THEN None ELSE lock

\* The call returns, its deferred unlock included.
Return(p) == /\ Goto(p, "idle")
             /\ op' = [op EXCEPT ![p] = NoOp]
             /\ Unlock(p)

\* A request to the registry fails, or its answer is lost after it took
\* effect, and the call returns the error.
Fail(p) ==
    /\ pc[p] \in {"upload", "pend"} \cup (Critical \ {"delete"})
    /\ At(p, "promote") => op[p].rest # {}
    /\ Spend("failure")
    /\ Return(p)
    /\ UNCHANGED <<blobs, tags, pending, history>>

-----------------------------------------------------------------------------
(* putOrStage: layersFor, stage, publish *)

\* Mutant: the missing files are not looked at.
PutOrStageBlindly(p) ==
    /\ At(p, "layers")
    /\ Goto(p, "publish")
    /\ UNCHANGED <<blobs, tags, pending, lock, op, history, spent>>

PutOrStage(p) ==
    /\ At(p, "layers")
    /\ Goto(p, IF op[p].files \subseteq Present THEN "publish" ELSE "stage")
    /\ UNCHANGED <<blobs, tags, pending, lock, op, history, spent>>

\* The commit is staged; a modelpack blob may have landed since layersFor, for
\* PutBlob uploads outside the mutex.
StageLate(p) ==
    LET c == op[p].commit IN
    late' = IF op[p].files \subseteq Present THEN late \cup {c} ELSE late \ {c}

\* Mutant: re-staging overwrites the recorded refs.
StageOverwrites(p, merged) ==
    LET c == op[p].commit IN
    /\ At(p, "stage")
    /\ staged' = staged \cup {c}
    /\ stagedFiles' = [stagedFiles EXCEPT ![c] = op[p].files]
    /\ stagedRefs' = [stagedRefs EXCEPT ![c] = op[p].refs]
    /\ StageLate(p)
    /\ Goto(p, "note")
    /\ UNCHANGED <<blobs, published, publishedFiles, refTag, index, pending, lock,
                   op, history, spent>>

\* The staged tag is put with the refs an earlier staging recorded, unless
\* reading that one fails.
Stage(p, merged) ==
    LET c == op[p].commit IN
    /\ At(p, "stage")
    /\ IF merged THEN UNCHANGED spent ELSE c \in staged /\ Spend("failure")
    /\ staged' = staged \cup {c}
    /\ stagedFiles' = [stagedFiles EXCEPT ![c] = op[p].files]
    /\ stagedRefs' = [stagedRefs EXCEPT ![c] = op[p].refs \cup (IF merged THEN @ ELSE {})]
    /\ StageLate(p)
    /\ Goto(p, "note")
    /\ UNCHANGED <<blobs, published, publishedFiles, refTag, index, pending, lock,
                   op, history>>

\* The repo is noted as pending, and PutManifest returns.
NotePending(p) ==
    /\ At(p, "note")
    /\ pending' = 1
    /\ Return(p)
    /\ UNCHANGED <<blobs, tags, acked, torn, spent>>

\* Mutant: only the refs are tagged.
PublishRefsOnly(p) ==
    /\ At(p, "publish")
    /\ Goto(p, "refs")
    /\ UNCHANGED <<blobs, tags, pending, lock, op, history, spent>>

\* publish: the commit's tag first ...
Publish(p) ==
    LET c == op[p].commit IN
    /\ At(p, "publish")
    /\ published' = published \cup {c}
    /\ publishedFiles' = [publishedFiles EXCEPT ![c] = op[p].files]
    /\ Goto(p, "refs")
    /\ UNCHANGED <<blobs, stages, refTag, index, pending, lock, op, history, spent>>

\* ... then one ref after the other ...
TagRef(p, f) ==
    /\ At(p, "refs")
    /\ f \in op[p].refs
    /\ refTag' = [refTag EXCEPT ![f] = op[p].commit]
    /\ op' = [op EXCEPT ![p].refs = @ \ {f}]
    /\ UNCHANGED <<blobs, published, publishedFiles, stages, index, pending, lock,
                   pc, acked, torn, spent>>

\* ... and last the staged tag goes, at best effort.
Unstage(p, deleted) ==
    LET c == op[p].commit IN
    /\ At(p, "refs")
    /\ op[p].refs = {}
    /\ IF deleted
       THEN /\ staged' = staged \ {c}
            /\ stagedFiles' = [stagedFiles EXCEPT ![c] = {}]
            /\ stagedRefs' = [stagedRefs EXCEPT ![c] = {}]
            /\ late' = late \ {c}
            /\ UNCHANGED spent
       ELSE Spend("failure") /\ UNCHANGED stages
    /\ IF op[p].kind = "manifest"
       THEN Return(p)
       ELSE Goto(p, "promote") /\ UNCHANGED <<lock, op>>
    /\ UNCHANGED <<blobs, published, publishedFiles, refTag, index, pending, history>>

-----------------------------------------------------------------------------
(* PutBlob, hasPending, promoteStaged *)

\* Mutant: the early return forgets to unlock.
CheckIndexKeepsLock(p) ==
    /\ At(p, "check")
    /\ IF op[p].blob \in index
       THEN /\ Goto(p, "idle")
            /\ op' = [op EXCEPT ![p] = NoOp]
            /\ acked' = acked \cup {op[p].blob}
            /\ UNCHANGED lock
       ELSE Goto(p, "upload") /\ Unlock(p) /\ UNCHANGED <<op, acked>>
    /\ UNCHANGED <<blobs, tags, pending, torn, spent>>

\* tar-layers: a blob the index knows is not uploaded again; otherwise the
\* mutex is given up while the layer is built and streamed.
CheckIndex(p) ==
    /\ At(p, "check")
    /\ IF op[p].blob \in index
       THEN Return(p) /\ acked' = acked \cup {op[p].blob}
       ELSE Goto(p, "upload") /\ Unlock(p) /\ UNCHANGED <<op, acked>>
    /\ UNCHANGED <<blobs, tags, pending, torn, spent>>

Upload(p) ==
    /\ At(p, "upload")
    /\ blobs' = blobs \cup {op[p].blob}
    /\ Goto(p, IF Format = "tar-layers" THEN "waitIndex" ELSE "pend")
    /\ UNCHANGED <<tags, pending, lock, op, history, spent>>

\* The index is read again, extended and put back, under the mutex.
SaveIndex(p) ==
    /\ At(p, "index")
    /\ index' = index \cup {op[p].blob}
    /\ Goto(p, "pend")
    /\ UNCHANGED <<blobs, published, publishedFiles, stages, refTag, pending, lock,
                   op, history, spent>>

Succeed(p) == Return(p) /\ acked' = acked \cup {op[p].blob}

\* Mutant: only the flag is asked, which a restart has forgotten.
HasPendingFlag(p) ==
    /\ At(p, "pend")
    /\ IF pending = 1
       THEN /\ Goto(p, IF Format = "tar-layers" THEN "list" ELSE "waitPromote")
            /\ UNCHANGED <<lock, op, acked>>
       ELSE Succeed(p)
    /\ UNCHANGED <<blobs, tags, pending, torn, spent>>

\* hasPending: the flag, or failing that the registry's tags.  modelpack asks
\* without the mutex and takes it before promoting.
HasPending(p) ==
    /\ At(p, "pend")
    /\ IF pending = 1 \/ staged # {}
       THEN /\ pending' = 1
            /\ Goto(p, IF Format = "tar-layers" THEN "list" ELSE "waitPromote")
            /\ UNCHANGED <<lock, op, acked>>
       ELSE Succeed(p) /\ UNCHANGED pending
    /\ UNCHANGED <<blobs, tags, torn, spent>>

\* A failed tag listing counts as "nothing pending".
HasPendingErr(p) ==
    /\ At(p, "pend")
    /\ pending = 0
    /\ Spend("failure")
    /\ Succeed(p)
    /\ UNCHANGED <<blobs, tags, pending, torn>>

\* promoteStaged lists the tags once and then visits the staged ones.
ListStaged(p) ==
    /\ At(p, "list")
    /\ op' = [op EXCEPT ![p].rest = staged, ![p].left = {}]
    /\ Goto(p, "promote")
    /\ UNCHANGED <<blobs, tags, pending, lock, history, spent>>

PromoteStaged(p, c) ==
    /\ At(p, "promote")
    /\ c \in op[p].rest
    /\ IF stagedFiles[c] \subseteq Present
       THEN /\ op' = [op EXCEPT ![p].rest = @ \ {c}, ![p].commit = c,
                                ![p].files = stagedFiles[c], ![p].refs = stagedRefs[c]]
            /\ Goto(p, "publish")
       ELSE /\ op' = [op EXCEPT ![p].rest = @ \ {c}, ![p].left = @ \cup {c}]
            /\ UNCHANGED pc
    /\ UNCHANGED <<blobs, tags, pending, lock, history, spent>>

\* A staged manifest that cannot be read is passed over.
SkipStaged(p, c) ==
    /\ At(p, "promote")
    /\ c \in op[p].rest
    /\ Spend("failure")
    /\ op' = [op EXCEPT ![p].rest = @ \ {c}]
    /\ UNCHANGED <<blobs, tags, pending, lock, pc, history>>

PromoteDone(p) ==
    /\ At(p, "promote")
    /\ op[p].rest = {}
    /\ pending' = IF op[p].left = {} THEN 0 ELSE pending
    /\ Succeed(p)
    /\ UNCHANGED <<blobs, tags, torn, spent>>

-----------------------------------------------------------------------------
(* DeleteRepo and process crashes *)

\* No tags: ErrRepoNotFound.
ListTags(p) ==
    /\ At(p, "tags")
    /\ IF Tags = {}
       THEN Return(p) /\ UNCHANGED torn
       ELSE /\ op' = [op EXCEPT ![p].tags = Tags]
            /\ Goto(p, "delete")
            /\ torn' = 1
            /\ UNCHANGED lock
    /\ UNCHANGED <<blobs, tags, pending, acked, spent>>

Removed(tag) ==
    /\ published' = {c \in published : tag # <<"commit", c>>}
    /\ publishedFiles' = [c \in Commits |->
          IF tag = <<"commit", c>> THEN {} ELSE publishedFiles[c]]
    /\ staged' = {c \in staged : tag # <<"staged", c>>}
    /\ stagedFiles' = [c \in Commits |->
          IF tag = <<"staged", c>> THEN {} ELSE stagedFiles[c]]
    /\ stagedRefs' = [c \in Commits |->
          IF tag = <<"staged", c>> THEN {} ELSE stagedRefs[c]]
    /\ late' = {c \in late : tag # <<"staged", c>>}
    /\ refTag' = [f \in Refs |-> IF tag = <<"ref", f>> THEN None ELSE refTag[f]]
    /\ index' = IF tag = <<"index", None>> THEN {} ELSE index
    /\ acked' = IF tag = <<"index", None>> THEN {} ELSE acked

\* A tag that cannot be deleted is reported at the end; the others still go.
DeleteTag(p, tag, deleted) ==
    /\ At(p, "delete")
    /\ tag \in op[p].tags
    /\ op' = [op EXCEPT ![p].tags = @ \ {tag}]
    /\ IF deleted THEN Removed(tag) /\ UNCHANGED spent
                  ELSE Spend("failure") /\ UNCHANGED <<tags, acked>>
    /\ UNCHANGED <<blobs, pending, lock, pc, torn>>

DeleteDone(p) ==
    /\ At(p, "delete")
    /\ op[p].tags = {}
    /\ torn' = IF Tags = {} THEN 0 ELSE torn
    /\ Return(p)
    /\ UNCHANGED <<blobs, tags, pending, acked, spent>>

\* The process dies and is restarted; pending is rebuilt lazily.
Crash ==
    /\ Spend("crash")
    /\ pending' = 0 /\ lock' = None
    /\ pc' = [p \in Callers |-> "idle"] /\ op' = [p \in Callers |-> NoOp]
    /\ UNCHANGED <<blobs, tags, history>>

-----------------------------------------------------------------------------
\* What a caller does by itself once it has been called and has the mutex.
Step(p) ==
    \/ PutOrStage(p) \/ Stage(p, TRUE) \/ NotePending(p) \/ Publish(p)
    \/ \E f \in Refs : TagRef(p, f)
    \/ Unstage(p, TRUE)
    \/ CheckIndex(p) \/ Upload(p) \/ SaveIndex(p) \/ HasPending(p)
    \/ ListStaged(p) \/ PromoteDone(p)
    \/ \E c \in Commits : PromoteStaged(p, c)
    \/ ListTags(p) \/ DeleteDone(p)
    \/ \E tag \in op[p].tags : DeleteTag(p, tag, TRUE)

Faulty(p) ==
    \/ Fail(p) \/ Stage(p, FALSE) \/ Unstage(p, FALSE) \/ HasPendingErr(p)
    \/ \E c \in Commits : SkipStaged(p, c)
    \/ \E tag \in op[p].tags : DeleteTag(p, tag, FALSE)

Next ==
    \/ \E p \in Callers :
          \/ \E c \in Commits, refs \in SUBSET Refs :
                \E files \in Versions[c] : PutManifest(p, c, files, refs)
          \/ \E b \in Blobs : PutBlob(p, b)
          \/ DeleteRepo(p)
          \/ LockRepo(p)
          \/ Step(p)
          \/ Faulty(p)
    \/ Crash

\* Goroutines run on, and sync.Mutex does not starve a waiter.
Fairness == \A p \in Callers : WF_vars(Step(p)) /\ SF_vars(LockRepo(p))

Spec == Init /\ [][Next]_vars
FairSpec == Spec /\ Fairness

-----------------------------------------------------------------------------
(* Correctness *)

\* Every variable ranges over the values its Go counterpart can take.
TypeOK ==
    /\ blobs \subseteq Blobs /\ index \subseteq Blobs
    /\ published \subseteq Commits /\ publishedFiles \in [Commits -> SUBSET Files]
    /\ staged \subseteq Commits /\ stagedFiles \in [Commits -> SUBSET Files]
    /\ stagedRefs \in [Commits -> SUBSET Refs] /\ late \subseteq staged
    /\ refTag \in [Refs -> Commits \cup {None}]
    /\ pending \in {0, 1} /\ lock \in Callers \cup {None}
    /\ pc \in [Callers -> Points] /\ op \in [Callers -> Op]
    /\ acked \subseteq Blobs
    /\ torn \in {0, 1} /\ spent \in [Limited -> Nat]

\* "If every referenced blob is already in the registry the commit is published
\* under its final tags; otherwise it is staged": every file of a published
\* commit can be opened, whatever other callers, failures and crashes do, as
\* long as no DeleteRepo was cut short.
PublishedServable ==
    torn = 0 => \A c \in published : publishedFiles[c] \subseteq Present

\* publish tags the commit before its refs: a ref that resolves leads to a
\* commit that can be read, as long as no DeleteRepo was cut short.
RefResolves ==
    torn = 0 => \A f \in Refs : refTag[f] # None => refTag[f] \in published

\* "promoted to their real tags when the last blob lands": when nobody is at
\* work and no request has failed, no commit is staged whose blobs have all been
\* put with success, unless the last of them landed between putOrStage's look at
\* the blobs and the staging: README, section 6.
AckedPromoted ==
    (\A p \in Callers : pc[p] = "idle") /\ spent["failure"] = 0 =>
        \A c \in staged \ late : ~(stagedFiles[c] \subseteq acked)

\* "otherwise it is staged and promoted when the last blob lands": no commit is
\* staged after its blobs have landed, when no blob is left to promote it.  It is
\* not kept in modelpack format: README, section 6.
NeverLate == late = {}

\* "Merge refs with any recorded by a previous staging": a commit that stays
\* staged loses none of the refs it is to get on promotion, as long as no
\* request has failed.
RefsKept ==
    [][spent'["failure"] = 0 =>
          \A c \in staged \cap staged' : stagedRefs[c] \subseteq stagedRefs'[c]]_vars

\* Every call returns: nobody keeps the repo mutex or waits for it for ever.
CallsReturn == \A p \in Callers : pc[p] # "idle" ~> pc[p] = "idle"
=============================================================================
