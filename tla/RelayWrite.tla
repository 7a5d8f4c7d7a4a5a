---------------------------- MODULE RelayWrite ----------------------------
(***************************************************************************)
(* The relay's write path (internal/relay/write.go) for one repo, over the *)
(* filesystem backend: CreateRepo, DeleteRepo, Commit and LFS uploads of    *)
(* several clients at once, with lost replies, retries, I/O errors and     *)
(* process crashes.  Only Commit takes the relay's per-repo mutex.         *)
(*                                                                         *)
(* A commit id is content-addressed over its parent, its tree and its      *)
(* summary, so it is modelled as the list of trees from the initial commit *)
(* to it: the initial commit is <<>>, ancestors are prefixes, and equal    *)
(* edits of equal parents give equal ids.  Each edit has its own summary.  *)
(***************************************************************************)
EXTENDS Naturals, Sequences, FiniteSets, Functions

CONSTANTS
    Clients,  \* HTTP clients, one request at a time each
    Paths,    \* file paths
    Blobs,    \* content digests
    Edits,    \* the CommitOps clients send
    None,     \* no file, no commit, no client
    Limit,    \* bounds on requests, uploads, lost replies, failures, crashes
    MaxUpsets \* bound on deletes, lost replies, failures and crashes together

Vias    == {"inline", "lfs", "remove"}
Limited == {"create", "commit", "delete", "upload", "lost", "failure", "crash"}
Upsets  == {"delete", "lost", "failure", "crash"}

ASSUME EditsAssumption == Edits \subseteq [path: Paths, blob: Blobs, via: Vias]
ASSUME NoneAssumption == /\ None \notin Clients \cup Blobs \cup Edits
                          /\ None \notin Seq([Paths -> Blobs \cup {None}])
ASSUME LimitAssumption == Limit \in [Limited -> Nat] /\ MaxUpsets \in Nat

VARIABLES
    exists,     \* 1 when the repo directory is there
    manifests,  \* commits with a manifest
    main,       \* the commit refs/main names, or None
    blobs,      \* blobs of the repo
    lock,       \* holder of the relay's mutex for this repo
    pc,         \* per client: where its request is
    req,        \* its request: kind, edit, ParentCommit
    local,      \* its handler's locals: the parent read, the commit minted
    reply,      \* what it was answered last ...
    told,       \* ... and the commit the answer named
    queued,     \* the replication queue's log of enqueue calls
    acked,      \* history: commits a client was told of since the last delete
    effect,     \* history: per client, the first commit its request put on main
    births,     \* history: CreateRepo calls that passed the existence check
    deletes,    \* history: DeleteRepo calls that removed something
    spent       \* how much of each Limit has been used

disk    == <<exists, manifests, main, blobs>>
handler == <<lock, pc, req, local, reply, told>>
history == <<acked, effect, births, deletes>>
vars    == <<disk, handler, queued, history, spent>>

-----------------------------------------------------------------------------
Tree   == [Paths -> Blobs \cup {None}]
Commits == Seq(Tree)
InitCommit == <<>>
EmptyTree == [x \in Paths |-> None]

TreeOf(c) == IF c = InitCommit THEN EmptyTree ELSE c[Len(c)]
BlobsOf(c) == {TreeOf(c)[x] : x \in Paths} \ {None}

\* a is b or an ancestor of b.
Ancestor(a, b) == Len(a) =< Len(b) /\ \A i \in 1 .. Len(a) : a[i] = b[i]

Apply(edit, tree) ==
    [tree EXCEPT ![edit.path] = IF edit.via = "remove" THEN None ELSE edit.blob]

NoReq == [kind |-> "none", edit |-> None, parent |-> None]
NoLocal == [parent |-> None, new |-> None]

Points == {"idle", "stat", "mkdir", "wait", "resolve", "read", "files", "manifest",
           "ref", "queue", "rmdir", "rmmeta", "unqueue"}

Spend(what) == /\ spent[what] < Limit[what]
               /\ what \in Upsets => SumFunctionOnSet(spent, Upsets) < MaxUpsets
               /\ spent' = [spent EXCEPT ![what] = @ + 1]

Goto(cl, point) == pc' = [pc EXCEPT ![cl] = point]

Init ==
    /\ exists = 0 /\ manifests = {} /\ main = None /\ blobs = {}
    /\ lock = None
    /\ pc = [cl \in Clients |-> "idle"]
    /\ req = [cl \in Clients |-> NoReq]
    /\ local = [cl \in Clients |-> NoLocal]
    /\ reply = [cl \in Clients |-> "none"]
    /\ told = [cl \in Clients |-> None]
    /\ queued = <<>>
    /\ acked = {} /\ effect = [cl \in Clients |-> None]
    /\ births = 0 /\ deletes = 0
    /\ spent = [w \in Limited |-> 0]

-----------------------------------------------------------------------------
(* Requests and replies *)

First(kind) == CASE kind = "create" -> "stat"
                 [] kind = "commit" -> "wait"
                 [] kind = "delete" -> "rmdir"

Send(cl, r) ==
    /\ pc[cl] = "idle"
    /\ Spend(r.kind)
    /\ Goto(cl, First(r.kind))
    /\ req' = [req EXCEPT ![cl] = r]
    /\ reply' = [reply EXCEPT ![cl] = "none"]
    /\ told' = [told EXCEPT ![cl] = None]
    /\ effect' = [effect EXCEPT ![cl] = None]
    /\ UNCHANGED <<disk, lock, local, queued, acked, births, deletes>>

CreateRepo(cl) == Send(cl, [NoReq EXCEPT !.kind = "create"])
DeleteRepo(cl) == Send(cl, [NoReq EXCEPT !.kind = "delete"])

\* The client may pin the parent to the branch head it has just read.
Commit(cl, edit, parent) ==
    Send(cl, [kind |-> "commit", edit |-> edit, parent |-> parent])

\* A client that got no answer sends the same request again.
Retry(cl) ==
    /\ pc[cl] = "idle"
    /\ reply[cl] = "lost"
    /\ Goto(cl, First(req[cl].kind))
    /\ reply' = [reply EXCEPT ![cl] = "none"]
    /\ told' = [told EXCEPT ![cl] = None]
    /\ UNCHANGED <<disk, lock, req, local, queued, history, spent>>

\* The handler is over: its deferred unlock runs, its locals are gone.
Leave(cl) ==
    /\ Goto(cl, "idle")
    /\ local' = [local EXCEPT ![cl] = NoLocal]
    /\ lock' = IF lock = cl THEN None ELSE lock
    /\ UNCHANGED req

\* The handler answers; the answer may be lost on the way.
Answer(cl, outcome, commit) ==
    /\ Leave(cl)
    /\ \/ /\ reply' = [reply EXCEPT ![cl] = outcome]
          /\ told' = [told EXCEPT ![cl] = commit]
          /\ acked' = acked \cup ({commit} \ {None})
          /\ UNCHANGED spent
       \/ /\ Spend("lost")
          /\ reply' = [reply EXCEPT ![cl] = "lost"]
          /\ UNCHANGED <<told, acked>>

\* A backend call fails, and the handler returns the error.
Fail(cl) ==
    /\ pc[cl] \notin {"idle", "wait", "queue", "unqueue"}
    /\ Spend("failure")
    /\ Leave(cl)
    /\ reply' = [reply EXCEPT ![cl] = "error"]
    /\ UNCHANGED <<disk, told, queued, history>>

-----------------------------------------------------------------------------
(* CreateRepo: no mutex.  backend.CreateRepo, then PutManifest, then fan-out *)

StatRepo(cl) ==
    /\ pc[cl] = "stat"
    /\ IF exists = 1
       THEN Answer(cl, "exists", None) /\ UNCHANGED births
       ELSE /\ Goto(cl, "mkdir")
            /\ births' = births + 1
            /\ UNCHANGED <<lock, req, local, reply, told, acked, spent>>
    /\ UNCHANGED <<disk, queued, effect, deletes>>

MkdirRepo(cl) ==
    /\ pc[cl] = "mkdir"
    /\ exists' = 1
    /\ Goto(cl, "manifest")
    /\ local' = [local EXCEPT ![cl].new = InitCommit]
    /\ UNCHANGED <<manifests, main, blobs, lock, req, reply, told, queued, history, spent>>

-----------------------------------------------------------------------------
(* Commit: under the mutex to the end *)

\* Mutant: the mutex excludes nobody.
LockRepoShared(cl) ==
    /\ pc[cl] = "wait"
    /\ lock' = cl
    /\ Goto(cl, "resolve")
    /\ UNCHANGED <<disk, req, local, reply, told, queued, history, spent>>

LockRepo(cl) ==
    /\ pc[cl] = "wait"
    /\ lock = None
    /\ lock' = cl
    /\ Goto(cl, "resolve")
    /\ UNCHANGED <<disk, req, local, reply, told, queued, history, spent>>

\* Mutant: the error return of an unknown branch forgets to unlock.
ResolveRefKeepsLock(cl) ==
    /\ pc[cl] = "resolve"
    /\ IF main = None
       THEN /\ Goto(cl, "idle")
            /\ reply' = [reply EXCEPT ![cl] = "notfound"]
            /\ UNCHANGED local
       ELSE /\ Goto(cl, "read")
            /\ local' = [local EXCEPT ![cl].parent = main]
            /\ UNCHANGED reply
    /\ UNCHANGED <<disk, lock, req, told, queued, history, spent>>

\* ResolveRef, and the check of the expected parent.
ResolveRef(cl) ==
    /\ pc[cl] = "resolve"
    /\ IF main = None
       THEN Answer(cl, "notfound", None)
       ELSE IF req[cl].parent \notin {None, main}
       THEN Answer(cl, "mismatch", None)
       ELSE /\ Goto(cl, "read")
            /\ local' = [local EXCEPT ![cl].parent = main]
            /\ UNCHANGED <<lock, req, reply, told, acked, spent>>
    /\ UNCHANGED <<disk, queued, effect, births, deletes>>

GetManifest(cl) ==
    /\ pc[cl] = "read"
    /\ IF local[cl].parent \notin manifests
       THEN Answer(cl, "notfound", None)
       ELSE Goto(cl, "files") /\ UNCHANGED <<lock, req, local, reply, told, acked, spent>>
    /\ UNCHANGED <<disk, queued, effect, births, deletes>>

\* mintCommitSHA: the id of a commit is its parent's history and its tree.
Mint(cl, parent, tree) ==
    /\ Goto(cl, "manifest")
    /\ local' = [local EXCEPT ![cl].new = Append(parent, tree)]
    /\ UNCHANGED <<lock, req, reply, told, acked, spent>>

\* Mutant: an LFS blob is not asked for.
ApplyOpsUnchecked(cl) ==
    LET e == req[cl].edit IN
    /\ pc[cl] = "files"
    /\ Apply(e, TreeOf(local[cl].parent)) # TreeOf(local[cl].parent)
    /\ IF e.via = "inline" THEN blobs' = blobs \cup {e.blob} ELSE UNCHANGED blobs
    /\ Mint(cl, local[cl].parent, Apply(e, TreeOf(local[cl].parent)))
    /\ UNCHANGED <<exists, manifests, main, queued, effect, births, deletes>>

\* The edit is applied to the parent's tree: inline content is stored, an LFS
\* blob must be there.  The same tree is answered with the parent; another one
\* is minted into a commit.
ApplyOps(cl) ==
    LET e == req[cl].edit
        parent == local[cl].parent
        tree == Apply(e, TreeOf(parent))
    IN
    /\ pc[cl] = "files"
    /\ IF e.via = "inline" THEN blobs' = blobs \cup {e.blob} /\ exists' = 1
                           ELSE UNCHANGED <<blobs, exists>>
    /\ IF e.via = "lfs" /\ e.blob \notin blobs
       THEN Answer(cl, "missing", None)
       ELSE IF tree = TreeOf(parent)
       THEN Answer(cl, "ok", parent)
       ELSE Mint(cl, parent, tree)
    /\ UNCHANGED <<manifests, main, queued, effect, births, deletes>>

-----------------------------------------------------------------------------
(* PutManifest and fan-out, for CreateRepo and Commit *)

PutManifest(cl) ==
    /\ pc[cl] = "manifest"
    /\ manifests' = manifests \cup {local[cl].new}
    /\ Goto(cl, "ref")
    /\ UNCHANGED <<exists, main, blobs, lock, req, local, reply, told, queued, history, spent>>

\* Mutant: the mutex is given up before the fan-out.
PointRefUnlocks(cl) ==
    /\ pc[cl] = "ref"
    /\ main' = local[cl].new /\ exists' = 1
    /\ effect' = [effect EXCEPT ![cl] = local[cl].new]
    /\ Goto(cl, "queue")
    /\ lock' = None
    /\ UNCHANGED <<manifests, blobs, req, local, reply, told, queued, acked, births,
                   deletes, spent>>

PointRef(cl) ==
    /\ pc[cl] = "ref"
    /\ main' = local[cl].new /\ exists' = 1
    /\ effect' = [effect EXCEPT ![cl] = IF @ = None THEN local[cl].new ELSE @]
    /\ Goto(cl, "queue")
    /\ UNCHANGED <<manifests, blobs, lock, req, local, reply, told, queued, acked, births,
                   deletes, spent>>

\* fanOutCommit: the answer is success whether or not the queue took the job.
FanOut(cl) ==
    /\ pc[cl] = "queue"
    /\ queued' = Append(queued, local[cl].new)
    /\ Answer(cl, "ok", local[cl].new)
    /\ UNCHANGED <<disk, effect, births, deletes>>

FanOutErr(cl) ==
    /\ pc[cl] = "queue"
    /\ Spend("failure")
    /\ Leave(cl)
    /\ reply' = [reply EXCEPT ![cl] = "ok"]
    /\ told' = [told EXCEPT ![cl] = local[cl].new]
    /\ acked' = acked \cup {local[cl].new}
    /\ UNCHANGED <<disk, queued, effect, births, deletes>>

-----------------------------------------------------------------------------
(* DeleteRepo: no mutex.  The content goes first, then the manifests *)

RemoveContent(cl) ==
    /\ pc[cl] = "rmdir"
    /\ IF exists = 0
       THEN Answer(cl, "notfound", None) /\ UNCHANGED <<disk, deletes>>
       ELSE /\ exists' = 0 /\ main' = None /\ blobs' = {}
            /\ deletes' = deletes + 1
            /\ acked' = {}
            /\ Goto(cl, "rmmeta")
            /\ UNCHANGED <<manifests, lock, req, local, reply, told, spent>>
    /\ UNCHANGED <<queued, effect, births>>

RemoveManifests(cl) ==
    /\ pc[cl] = "rmmeta"
    /\ manifests' = {}
    /\ Goto(cl, "unqueue")
    /\ UNCHANGED <<exists, main, blobs, lock, req, local, reply, told, queued, history, spent>>

FanOutDelete(cl) ==
    /\ pc[cl] = "unqueue"
    /\ queued' = Append(queued, None)
    /\ Answer(cl, "ok", None)
    /\ UNCHANGED <<disk, effect, births, deletes>>

-----------------------------------------------------------------------------
(* PutLFSBlob, and process crashes *)

PutLFSBlob(b) ==
    /\ Spend("upload")
    /\ blobs' = blobs \cup {b} /\ exists' = 1
    /\ UNCHANGED <<manifests, main, handler, queued, history>>

Crash ==
    /\ Spend("crash")
    /\ pc' = [cl \in Clients |-> "idle"]
    /\ local' = [cl \in Clients |-> NoLocal]
    /\ lock' = None
    /\ reply' = [cl \in Clients |-> IF pc[cl] = "idle" THEN reply[cl] ELSE "lost"]
    /\ UNCHANGED <<disk, req, told, queued, history>>

-----------------------------------------------------------------------------
Step(cl) == \/ StatRepo(cl) \/ MkdirRepo(cl)
            \/ ResolveRef(cl) \/ GetManifest(cl) \/ ApplyOps(cl)
            \/ PutManifest(cl) \/ PointRef(cl) \/ FanOut(cl)
            \/ RemoveContent(cl) \/ RemoveManifests(cl) \/ FanOutDelete(cl)

Next ==
    \/ \E cl \in Clients :
          \/ CreateRepo(cl) \/ DeleteRepo(cl) \/ Retry(cl)
          \/ \E e \in Edits, parent \in {None, main} : Commit(cl, e, parent)
          \/ LockRepo(cl) \/ Step(cl) \/ Fail(cl) \/ FanOutErr(cl)
    \/ \E b \in Blobs : PutLFSBlob(b)
    \/ Crash

Spec == Init /\ [][Next]_vars

-----------------------------------------------------------------------------
(* Correctness *)

Replies == {"none", "ok", "error", "exists", "notfound", "mismatch", "missing", "lost"}

\* Every variable ranges over the values its Go counterpart can take.
TypeOK ==
    /\ exists \in {0, 1} /\ manifests \subseteq Commits /\ main \in Commits \cup {None}
    /\ blobs \subseteq Blobs /\ lock \in Clients \cup {None}
    /\ pc \in [Clients -> Points]
    /\ req \in [Clients -> [kind: {"none", "create", "commit", "delete"},
                            edit: Edits \cup {None}, parent: Commits \cup {None}]]
    /\ local \in [Clients -> [parent: Commits \cup {None}, new: Commits \cup {None}]]
    /\ reply \in [Clients -> Replies] /\ told \in [Clients -> Commits \cup {None}]
    /\ queued \in Seq(Commits \cup {None})
    /\ acked \subseteq Commits /\ effect \in [Clients -> Commits \cup {None}]
    /\ births \in Nat /\ deletes \in Nat /\ spent \in [Limited -> Nat]

Idle == \A cl \in Clients : pc[cl] = "idle"

\* No DeleteRepo has run, and CreateRepo passed its existence check once.
Calm == births =< 1 /\ deletes = 0

\* "Commits to the same repo serialize": a commit a client was told of stays on
\* the branch until the repo is deleted.
OnBranch == \A c \in acked : main # None /\ Ancestor(c, main)

\* It does, through crashes, failures and retries, once creation is over.
BranchKeepsAcked == Calm => OnBranch

\* "reads (model info, tree) work immediately after creation", and a commit
\* stores or checks its blobs first: the head of the branch has its manifest,
\* and every file of it can be opened.
HeadServable == main # None => main \in manifests /\ BlobsOf(main) \subseteq blobs

\* It is, as long as nobody deletes the repo.
HeadServableUndeleted == deletes = 0 => HeadServable

\* "a client retrying a commit whose response was lost converges instead of
\* forking": what a retried commit is answered with contains what its first
\* attempt put on the branch.
RetryContains ==
    Calm => \A cl \in Clients :
               reply[cl] = "ok" /\ effect[cl] # None => Ancestor(effect[cl], told[cl])

\* The queue hears of the commits of the branch in the order they were made: none
\* is enqueued after one of its descendants, except the initial commit, which
\* CreateRepo enqueues outside the mutex.
Overtaken(i, j) == queued[j] # None /\ queued[i] # None /\ queued[i] # queued[j]
                   /\ Ancestor(queued[j], queued[i])
CommitsInOrder ==
    Calm => \A i, j \in 1 .. Len(queued) :
               i < j /\ queued[j] # InitCommit => ~Overtaken(i, j)

\* "replicas reconcile in background": at rest, a commit the client was told of
\* has been handed to the replication queue.  It is not kept: README, section 6.
AckedEnqueued ==
    Idle => \A c \in acked : \E i \in 1 .. Len(queued) : queued[i] = c

\* The repo lock is held by exactly the commit that is past LockRepo: no error
\* return keeps it, so a waiting commit never waits for somebody who has left.
LockByCommit ==
    \A cl \in Clients :
        lock = cl <=> req[cl].kind = "commit" /\ pc[cl] \notin {"idle", "wait"}
=============================================================================
