---------------------------- MODULE Replication ----------------------------
(***************************************************************************)
(* The asynchronous replication queue (internal/replication/replication.go)*)
(* between a primary and its replica backends.                             *)
(*                                                                         *)
(* A write is acknowledged once the primary has it; the relay then calls   *)
(* EnqueueCommit or EnqueueDeleteRepo, which spools one job per replica.   *)
(* One dispatcher (Run) claims due jobs, at most one per (target, repo)    *)
(* group, and hands them to at most Workers goroutines (execute).  A job   *)
(* that fails backs off; a job that succeeds is dropped from memory and    *)
(* from the spool.  The spool is the only state that survives a restart.   *)
(*                                                                         *)
(* Job ids are creation numbers: CreatedAt orders jobs as their ids do.    *)
(* Backoff is abstracted to "due or not due"; time makes a job due again.  *)
(***************************************************************************)
EXTENDS Naturals, Sequences, FiniteSets

CONSTANTS
    Repos,      \* repositories
    Replicas,   \* the route's replica backends, in configuration order
    Commits,    \* commit ids; content-addressed, so an id determines a tree
    Blobs,      \* blob digests
    FilesOf,    \* FilesOf[c]: the digests the manifest of commit c names
    InitCommit, \* the empty first commit that CreateRepo mints
    None,       \* "no commit"
    Workers,    \* Options.Workers
    MaxJobs,    \* bound: jobs ever created
    Limit       \* bounds on writes, deletes, failures, I/O errors, crashes

Limited == {"write", "delete", "failure", "io", "crash"}

ASSUME ReplicasAssumption == /\ Len(Replicas) \in Nat \ {0}
                             /\ DOMAIN Replicas = 1 .. Len(Replicas)
ASSUME FilesAssumption == FilesOf \in [Commits -> SUBSET Blobs]
ASSUME CommitsAssumption == InitCommit \in Commits /\ None \notin Commits
ASSUME BoundsAssumption == /\ Workers \in Nat \ {0}
                           /\ MaxJobs \in Nat
                           /\ Limit \in [Limited -> Nat]

VARIABLES
    src,        \* the primary, per repo: manifests held and where main points
    replica,    \* per target and repo: manifests, blobs, main (as a job id);
                \* history: left, the manifests a retried delete left behind
    fanout,     \* enqueue calls the relay owes after a primary write
    created,    \* every job ever enqueued: its immutable fields
    spool,      \* jobs with a file in the spool directory
    phase,      \* of the process: running, stopping (ctx canceled), down
    jobs,       \* Queue.jobs: the jobs in memory
    due,        \* those with NextTry in the past
    inflight,   \* Queue.inflight: groups with a claimed or running job
    stage,      \* per job: where its claim or execution stands
    todo,       \* per job: blobs still to be looked at on the target
    disp,       \* Run: scan, arm (before nextDelay), sleep, hold, off
    wake,       \* tokens in the wake channel (capacity 1)
    armed,      \* jobs the sleeping dispatcher's timer was computed from
    releasing,  \* goroutines past execute, before "<-sem; q.kick()"
    applied,    \* history: jobs whose effect reached the target
    unread,     \* history: spool files the last loadSpool skipped
    tainted,    \* history: repos whose enqueue calls were lost or reordered
    failed,     \* history: jobs an attempt of which ended in an error
    spent       \* how much of each Limit has been used

store == <<src, replica, fanout>>
queue == <<jobs, due, inflight, stage, todo, releasing>>
loop  == <<disp, wake, armed>>
past  == <<applied, unread, tainted, failed>>
vars  == <<store, created, spool, phase, queue, loop, past, spent>>

-----------------------------------------------------------------------------
(* Types and derived state *)

Targets == {Replicas[i] : i \in 1 .. Len(Replicas)}
JobIds  == 1 .. MaxJobs
Calls   == [action: {"commit"}, repo: Repos, commit: Commits]
           \cup [action: {"delete_repo"}, repo: Repos, commit: {None}]
Job     == [action: {"commit"}, repo: Repos, commit: Commits, target: Targets]
           \cup [action: {"delete_repo"}, repo: Repos, commit: {None}, target: Targets]
Groups  == Targets \X Repos
Stages  == {"idle", "claimed", "read", "copy", "refs", "drop", "drop2", "ok"}

CommitCall(r, c) == [action |-> "commit", repo |-> r, commit |-> c]
DeleteCall(r) == [action |-> "delete_repo", repo |-> r, commit |-> None]
JobFor(call, t) == [action |-> call.action, repo |-> call.repo,
                    commit |-> call.commit, target |-> t]

\* groupKey: jobs touching the same repo on the same target.
Group(j) == <<created[j].target, created[j].repo>>

EmptyRepo == [commits |-> {}, main |-> None]
Copies    == [commits: SUBSET Commits, left: SUBSET Commits, blobs: SUBSET Blobs,
              main: 0 .. MaxJobs]
EmptyCopy == [commits |-> {}, left |-> {}, blobs |-> {}, main |-> 0]

Busy    == {j \in JobIds : stage[j] # "idle"}
Running == {j \in JobIds : stage[j] \notin {"idle", "claimed"}}
\* The primary's blobs of a repo: those of the manifests it holds.
SourceBlobs(r) == UNION {FilesOf[c] : c \in src[r].commits}
Copy(j) == replica[created[j].target][created[j].repo]

Spend(what) == /\ spent[what] < Limit[what]
               /\ spent' = [spent EXCEPT ![what] = @ + 1]

Init ==
    /\ src = [r \in Repos |-> EmptyRepo]
    /\ replica = [t \in Targets |-> [r \in Repos |-> EmptyCopy]]
    /\ fanout = {}
    /\ created = <<>>
    /\ spool = {}
    /\ phase = "running"
    /\ jobs = {} /\ due = {} /\ inflight = {}
    /\ stage = [j \in JobIds |-> "idle"]
    /\ todo = [j \in JobIds |-> {}]
    /\ disp = "scan" /\ wake = 0 /\ armed = {}
    /\ releasing = 0
    /\ applied = {} /\ unread = {} /\ tainted = {} /\ failed = {}
    /\ spent = [w \in Limited |-> 0]

-----------------------------------------------------------------------------
(* Writes on the primary, and the enqueue calls that follow them *)

\* A primary write on r: it owes one enqueue call.  A write that overlaps
\* another one still owing its call may reach the queue out of order.
Owe(call) ==
    /\ fanout' = fanout \cup {call}
    /\ tainted' = IF \E x \in fanout : x.repo = call.repo
                  THEN tainted \cup {call.repo} ELSE tainted
    /\ UNCHANGED <<replica, created, spool, phase, queue, loop, applied, unread,
                   failed>>

\* relay.CreateRepo: the repo must not exist; no repo lock is taken.
CreateRepo(r) ==
    /\ phase # "down"
    /\ src[r] = EmptyRepo
    /\ Spend("write")
    /\ src' = [src EXCEPT ![r] = [commits |-> {InitCommit}, main |-> InitCommit]]
    /\ Owe(CommitCall(r, InitCommit))

\* relay.Commit: holds the repo lock until its enqueue call is over.
Commit(r, c) ==
    /\ phase # "down"
    /\ src[r].main # None
    /\ c \notin src[r].commits
    /\ \A x \in fanout : ~(x.repo = r /\ x.action = "commit" /\ x.commit # InitCommit)
    /\ Spend("write")
    /\ src' = [src EXCEPT ![r] = [commits |-> @.commits \cup {c}, main |-> c]]
    /\ Owe(CommitCall(r, c))

\* relay.DeleteRepo: no repo lock either.
DeleteRepo(r) ==
    /\ phase # "down"
    /\ src[r] # EmptyRepo
    /\ Spend("delete")
    /\ src' = [src EXCEPT ![r] = EmptyRepo]
    /\ Owe(DeleteCall(r))

\* Mutant: a wake channel without a bound.
KickUnbounded == wake' = wake + 1

\* kick: the wake channel holds at most one token.
Kick == wake' = 1

\* enqueue, under q.mu: persist and register one job per target; the first
\* persist error returns at once, without a kick and with the earlier targets
\* queued.  k is the number of targets persisted.
Enqueue(call, k) ==
    LET n == Len(created) IN
    /\ phase # "down"
    /\ n + Len(Replicas) =< MaxJobs
    /\ call \in fanout
    /\ fanout' = fanout \ {call}
    /\ created' = created \o [i \in 1 .. k |-> JobFor(call, Replicas[i])]
    /\ spool' = spool \cup (n + 1 .. n + k)
    /\ jobs' = jobs \cup (n + 1 .. n + k)
    /\ due' = due \cup (n + 1 .. n + k)
    /\ IF k = Len(Replicas)
       THEN Kick /\ UNCHANGED <<tainted, spent>>
       ELSE /\ Spend("io")
            /\ tainted' = tainted \cup {call.repo}
            /\ UNCHANGED wake
    /\ UNCHANGED <<src, replica, phase, inflight, stage, todo, releasing, disp,
                   armed, applied, unread, failed>>

-----------------------------------------------------------------------------
(* The dispatcher: Run, claimDue, unclaim, nextDelay *)

\* Mutant: claimDue takes no notice of the groups in flight.
CandidatesAnyGroup == jobs \cap due

Candidates == {j \in jobs \cap due : Group(j) \notin inflight}

\* Mutant: the sort is the other way round.
OldestReversed(j, S) == j \in S /\ \A i \in S : j >= i

\* claimDue: the oldest due job whose group is idle.
Oldest(j, S) == j \in S /\ \A i \in S : j =< i

\* Mutant: the spool file is removed when the job is claimed.
ClaimDueUnspools(j) ==
    /\ disp = "scan"
    /\ Oldest(j, Candidates)
    /\ inflight' = inflight \cup {Group(j)}
    /\ stage' = [stage EXCEPT ![j] = "claimed"]
    /\ disp' = "hold"
    /\ spool' = spool \ {j}
    /\ UNCHANGED <<store, created, phase, jobs, due, todo, releasing, wake, armed,
                   past, spent>>

ClaimDue(j) ==
    /\ disp = "scan"
    /\ Oldest(j, Candidates)
    /\ inflight' = inflight \cup {Group(j)}
    /\ stage' = [stage EXCEPT ![j] = "claimed"]
    /\ disp' = "hold"
    /\ UNCHANGED <<store, created, spool, phase, jobs, due, todo, releasing,
                   wake, armed, past, spent>>

ClaimNone ==
    /\ disp = "scan"
    /\ Candidates = {}
    /\ disp' = "arm"
    /\ UNCHANGED <<store, created, spool, phase, queue, wake, armed, past, spent>>

\* nextDelay, under its own lock: the timer is set for the jobs of idle groups.
NextDelay ==
    /\ disp = "arm"
    /\ armed' = {j \in jobs : Group(j) \notin inflight}
    /\ disp' = "sleep"
    /\ UNCHANGED <<store, created, spool, phase, queue, wake, past, spent>>

WakeUp ==
    /\ disp = "sleep" /\ wake = 1
    /\ disp' = "scan" /\ wake' = 0 /\ armed' = {}
    /\ UNCHANGED <<store, created, spool, phase, queue, past, spent>>

TimerFires ==
    /\ disp = "sleep"
    /\ disp' = "scan" /\ armed' = {}
    /\ UNCHANGED <<store, created, spool, phase, queue, wake, past, spent>>

\* The claimed job gets a worker slot and its goroutine starts.
Start(j) ==
    /\ disp = "hold"
    /\ stage[j] = "claimed"
    /\ Cardinality(Running) + releasing < Workers
    /\ stage' = [stage EXCEPT ![j] =
                    IF created[j].action = "commit" THEN "read" ELSE "drop"]
    /\ disp' = "scan"
    /\ UNCHANGED <<store, created, spool, phase, jobs, due, inflight, todo,
                   releasing, wake, armed, past, spent>>

\* ctx.Done while waiting for work.
StopIdle ==
    /\ phase = "stopping"
    /\ disp = "sleep"
    /\ disp' = "off" /\ armed' = {}
    /\ UNCHANGED <<store, created, spool, phase, queue, wake, past, spent>>

\* ctx.Done while waiting for a worker slot: unclaim.
StopClaimed(j) ==
    /\ phase = "stopping"
    /\ disp = "hold"
    /\ stage[j] = "claimed"
    /\ inflight' = inflight \ {Group(j)}
    /\ stage' = [stage EXCEPT ![j] = "idle"]
    /\ disp' = "off"
    /\ UNCHANGED <<store, created, spool, phase, jobs, due, todo, releasing,
                   wake, armed, past, spent>>

-----------------------------------------------------------------------------
(* runJob and execute *)

Goes(j, from, to) == stage[j] = from /\ stage' = [stage EXCEPT ![j] = to]

SetCopy(j, copy) ==
    replica' = [replica EXCEPT ![created[j].target][created[j].repo] = copy]

InRunJob == <<src, fanout, created, spool, phase, jobs, due, inflight, releasing,
              loop, unread, tainted, failed, spent>>

\* src.GetManifest succeeds.
ReadManifest(j) ==
    /\ Goes(j, "read", "copy")
    /\ created[j].commit \in src[created[j].repo].commits
    /\ todo' = [todo EXCEPT ![j] = FilesOf[created[j].commit]]
    /\ UNCHANGED <<InRunJob, replica, applied>>

\* One file: StatBlob on the target, and copyBlob when it is not there.
CopyBlob(j, b) ==
    /\ stage[j] = "copy"
    /\ b \in todo[j]
    /\ b \in Copy(j).blobs \cup SourceBlobs(created[j].repo)
    /\ SetCopy(j, [Copy(j) EXCEPT !.blobs = @ \cup {b}])
    /\ todo' = [todo EXCEPT ![j] = @ \ {b}]
    /\ UNCHANGED <<InRunJob, stage, applied>>

\* Mutant: the manifest is written before the blobs are copied.
PutManifestEarly(j) ==
    /\ Goes(j, "copy", "refs")
    /\ SetCopy(j, [Copy(j) EXCEPT !.commits = @ \cup {created[j].commit},
                                  !.left = @ \ {created[j].commit}])
    /\ UNCHANGED <<InRunJob, todo, applied>>

\* dst.PutManifest: every backend writes the manifest ...
PutManifest(j) ==
    /\ Goes(j, "copy", "refs")
    /\ todo[j] = {}
    /\ SetCopy(j, [Copy(j) EXCEPT !.commits = @ \cup {created[j].commit},
                                  !.left = @ \ {created[j].commit}])
    /\ UNCHANGED <<InRunJob, todo, applied>>

\* Mutant: the manifest is copied without the job's refs.
PointNoRef(j) ==
    /\ Goes(j, "refs", "ok")
    /\ applied' = applied \cup {j}
    /\ UNCHANGED <<InRunJob, replica, todo>>

\* ... and then points the ref at it.
PointRef(j) ==
    /\ Goes(j, "refs", "ok")
    /\ SetCopy(j, [Copy(j) EXCEPT !.main = j])
    /\ applied' = applied \cup {j}
    /\ UNCHANGED <<InRunJob, todo>>

\* dst.DeleteRepo removes a repo's objects one by one, blobs first: a file
\* system's repo directory holds the blobs and the refs, its manifests come
\* after; a bucket's refs come last.
DropBlobs(j) ==
    /\ Goes(j, "drop", "drop2")
    /\ \E main \in {0, Copy(j).main} :
          SetCopy(j, [Copy(j) EXCEPT !.blobs = {}, !.main = main])
    /\ UNCHANGED <<InRunJob, todo, applied>>

\* ErrRepoNotFound counts as success: fsbackend.DeleteRepo asks for the repo
\* directory first, so what it finds without one, and the retry of a delete cut
\* after removing it, leaves the manifests where they are.
DropNothing(j) ==
    /\ Goes(j, "drop", "ok")
    /\ Copy(j).blobs = {} /\ Copy(j).main = 0
    /\ SetCopy(j, [Copy(j) EXCEPT !.left = Copy(j).commits])
    /\ applied' = applied \cup {j}
    /\ UNCHANGED <<InRunJob, todo>>

DropRest(j) ==
    /\ Goes(j, "drop2", "ok")
    /\ SetCopy(j, EmptyCopy)
    /\ applied' = applied \cup {j}
    /\ UNCHANGED <<InRunJob, todo>>

\* execute, after runJob returned nil: forget the job, then remove its spool
\* file; a failed removal is only logged.
ExecuteOK(j, removed) ==
    /\ Goes(j, "ok", "idle")
    /\ inflight' = inflight \ {Group(j)}
    /\ jobs' = jobs \ {j} /\ due' = due \ {j}
    /\ IF removed THEN spool' = spool \ {j} /\ UNCHANGED <<failed, spent>>
                  ELSE Spend("io") /\ failed' = failed \cup {j} /\ UNCHANGED spool
    /\ releasing' = releasing + 1
    /\ UNCHANGED <<store, created, phase, todo, loop, applied, unread, tainted>>

\* A step of runJob that cannot succeed: the source lost the manifest or blob.
SourceGone(j) ==
    \/ /\ stage[j] = "read"
       /\ created[j].commit \notin src[created[j].repo].commits
    \/ /\ stage[j] = "copy"
       /\ \E b \in todo[j] :
             b \notin Copy(j).blobs \cup SourceBlobs(created[j].repo)

\* Mutants: a failed job is dropped from memory, or keeps its group in flight.
ExecuteErrGivesUp(j) ==
    /\ j \in Running
    /\ IF phase = "stopping" THEN UNCHANGED spent ELSE Spend("failure")
    /\ stage' = [stage EXCEPT ![j] = "idle"]
    /\ todo' = [todo EXCEPT ![j] = {}]
    /\ inflight' = inflight \ {Group(j)}
    /\ jobs' = jobs \ {j} /\ due' = due \ {j}
    /\ releasing' = releasing + 1
    /\ failed' = failed \cup {j}
    /\ UNCHANGED <<store, created, spool, phase, loop, applied, unread, tainted>>

ExecuteErrKeepsGroup(j) ==
    /\ j \in Running
    /\ IF phase = "stopping" THEN UNCHANGED spent ELSE Spend("failure")
    /\ stage' = [stage EXCEPT ![j] = "idle"]
    /\ todo' = [todo EXCEPT ![j] = {}]
    /\ due' = due \ {j}
    /\ releasing' = releasing + 1
    /\ failed' = failed \cup {j}
    /\ UNCHANGED <<store, created, spool, phase, jobs, inflight, loop, applied, unread,
                   tainted>>

\* execute, after runJob returned an error: back off and persist the attempt,
\* unless the process is shutting down, when the job is left untouched.  A
\* request may also fail after the target has carried it out.
ExecuteErr(j) ==
    /\ j \in Running
    /\ IF phase = "stopping" \/ SourceGone(j) THEN UNCHANGED spent
                                              ELSE Spend("failure")
    /\ stage' = [stage EXCEPT ![j] = "idle"]
    /\ todo' = [todo EXCEPT ![j] = {}]
    /\ inflight' = inflight \ {Group(j)}
    /\ due' = IF phase = "stopping" THEN due ELSE due \ {j}
    /\ failed' = failed \cup {j}
    /\ releasing' = releasing + 1
    /\ UNCHANGED <<store, created, spool, phase, jobs, loop, applied, unread, tainted>>

\* Mutant: the slot is freed without a kick.
ReleaseSilently ==
    /\ releasing > 0
    /\ releasing' = releasing - 1
    /\ UNCHANGED <<store, created, spool, phase, jobs, due, inflight, stage, todo,
                   loop, past, spent>>

\* The goroutine's deferred function: free the slot, kick the dispatcher.
Release ==
    /\ releasing > 0
    /\ releasing' = releasing - 1
    /\ Kick
    /\ UNCHANGED <<store, created, spool, phase, jobs, due, inflight, stage, todo,
                   disp, armed, past, spent>>

-----------------------------------------------------------------------------
(* Time, the admin endpoint, shutdown, crash and restart *)

Expire(j) ==
    /\ j \in jobs \ due
    /\ due' = due \cup {j}
    /\ UNCHANGED <<store, created, spool, phase, jobs, inflight, stage, todo,
                   releasing, loop, past, spent>>

RetryNow ==
    /\ phase # "down"
    /\ due' = jobs
    /\ Kick
    /\ UNCHANGED <<store, created, spool, phase, jobs, inflight, stage, todo,
                   releasing, disp, armed, past, spent>>

Shutdown ==
    /\ phase = "running"
    /\ Spend("crash")
    /\ phase' = "stopping"
    /\ UNCHANGED <<store, created, spool, queue, loop, past>>

\* The process ends, orderly or not: only the spool and the backends remain.
ProcessGone ==
    /\ phase' = "down"
    /\ jobs' = {} /\ due' = {} /\ inflight' = {}
    /\ stage' = [j \in JobIds |-> "idle"] /\ todo' = [j \in JobIds |-> {}]
    /\ releasing' = 0
    /\ disp' = "off" /\ wake' = 0 /\ armed' = {}
    /\ fanout' = {}
    /\ tainted' = tainted \cup {x.repo : x \in fanout}
    /\ unread' = {}
    /\ UNCHANGED <<src, replica, created, spool, applied, failed>>

Exit  == phase = "stopping" /\ ProcessGone /\ UNCHANGED spent
Crash == phase = "running" /\ Spend("crash") /\ ProcessGone

\* New: loadSpool registers every job file it can read, due at once.
LoadSpool(bad) ==
    /\ phase = "down"
    /\ IF bad = {} THEN UNCHANGED spent ELSE Spend("io")
    /\ phase' = "running"
    /\ jobs' = spool \ bad /\ due' = spool \ bad
    /\ unread' = bad
    /\ disp' = "scan"
    /\ UNCHANGED <<store, created, spool, inflight, stage, todo, releasing,
                   wake, armed, applied, tainted, failed>>

-----------------------------------------------------------------------------
Dispatch == \/ \E j \in JobIds : ClaimDue(j) \/ Start(j)
            \/ ClaimNone \/ NextDelay \/ WakeUp \/ TimerFires

Execute(j) == \/ ReadManifest(j) \/ PutManifest(j) \/ PointRef(j)
              \/ DropBlobs(j) \/ DropRest(j) \/ DropNothing(j)
              \/ \E b \in Blobs : CopyBlob(j, b)
              \/ ExecuteOK(j, TRUE)
              \/ SourceGone(j) /\ ExecuteErr(j)

Next ==
    \/ \E r \in Repos : CreateRepo(r) \/ DeleteRepo(r)
    \/ \E r \in Repos, c \in Commits \ {InitCommit} : Commit(r, c)
    \/ \E call \in fanout, k \in 0 .. Len(Replicas) : Enqueue(call, k)
    \/ Dispatch
    \/ StopIdle
    \/ \E j \in JobIds : StopClaimed(j)
    \/ \E j \in JobIds : Execute(j)
    \/ \E j \in JobIds : ExecuteOK(j, FALSE) \/ ExecuteErr(j)
    \/ Release
    \/ \E j \in JobIds : Expire(j)
    \/ RetryNow
    \/ Shutdown \/ Exit \/ Crash
    \/ \E bad \in SUBSET spool : LoadSpool(bad)

\* The relay finishes its handlers, goroutines and the dispatcher run, timers
\* and backoffs expire, a stopping process exits, a dead one is restarted.
\* Nothing says that writes, failures or crashes happen.
Fairness ==
    /\ WF_vars(\E call \in fanout : Enqueue(call, Len(Replicas)))
    /\ WF_vars(Dispatch)
    /\ \A j \in JobIds : WF_vars(Execute(j)) /\ WF_vars(Expire(j))
    /\ WF_vars(Release)
    /\ WF_vars(Exit)
    /\ WF_vars(LoadSpool({}))

Spec == Init /\ [][Next]_vars
FairSpec == Spec /\ Fairness

-----------------------------------------------------------------------------
(* Correctness *)

\* Every variable ranges over the values its Go counterpart can take.
StoreTypeOK ==
    /\ src \in [Repos -> [commits: SUBSET Commits, main: Commits \cup {None}]]
    /\ replica \in [Targets -> [Repos -> Copies]]
    /\ fanout \subseteq Calls
    /\ tainted \subseteq Repos

SpoolTypeOK ==
    /\ created \in Seq(Job) /\ Len(created) =< MaxJobs
    /\ spool \subseteq 1 .. Len(created)
    /\ applied \subseteq 1 .. Len(created)
    /\ unread \subseteq 1 .. Len(created)
    /\ failed \subseteq 1 .. Len(created)

QueueTypeOK ==
    /\ jobs \subseteq 1 .. Len(created) /\ due \subseteq jobs
    /\ inflight \subseteq Groups
    /\ stage \in [JobIds -> Stages]
    /\ todo \in [JobIds -> SUBSET Blobs]
    /\ releasing \in Nat

LoopTypeOK ==
    /\ phase \in {"running", "stopping", "down"}
    /\ disp \in {"scan", "arm", "sleep", "hold", "off"}
    /\ wake \in {0, 1}
    /\ armed \subseteq 1 .. Len(created)
    /\ spent \in [Limited -> Nat]

TypeOK == StoreTypeOK /\ SpoolTypeOK /\ QueueTypeOK /\ LoopTypeOK

\* Where an execution stands agrees with what the job is and what it has done,
\* and a process that is down has nothing in memory.
StageOK ==
    /\ \A j \in Busy :
          /\ j \in jobs
          /\ stage[j] \in {"read", "copy", "refs"} => created[j].action = "commit"
          /\ stage[j] \in {"drop", "drop2"} => created[j].action = "delete_repo"
          /\ stage[j] = "ok" => j \in applied
    /\ phase = "down" => jobs = {} /\ inflight = {} /\ disp = "off"

\* "one at a time": no two claimed or running jobs touch the same repo on the
\* same target, and inflight is exactly the set of groups being worked on, so
\* no group is ever left marked busy with nobody working on it.
OneInFlightPerGroup ==
    /\ \A i, j \in Busy : Group(i) = Group(j) => i = j
    /\ inflight = {Group(j) : j \in Busy}

\* "a restart resumes exactly where it left off": while the process is up every
\* job in memory has its spool file, and every spool file without a job in
\* memory is either already applied (its removal failed) or was unreadable when
\* the spool was loaded.  No accepted job waits on disk unnoticed.
NoStrandedJob ==
    phase # "down" => /\ jobs \subseteq spool
                      /\ spool \ jobs \subseteq applied \cup unread

\* A manifest on a replica has all its blobs there ("copies whatever blobs the
\* target is missing", then PutManifest), through retries, crashes and restarts,
\* except while a delete of that repo is pending on that replica, and except the
\* manifests a delete that was cut and tried again left behind; main never leads
\* to one of those.
Whole(copy) ==
    /\ \A c \in copy.commits \ copy.left : FilesOf[c] \subseteq copy.blobs
    /\ copy.main # 0 => created[copy.main].commit \in copy.commits \ copy.left
Complete(t, r) == Whole(replica[t][r])
DeletePending(t, r) ==
    \E j \in spool : created[j].action = "delete_repo" /\ Group(j) = <<t, r>>
ReplicaComplete ==
    \A t \in Targets, r \in Repos : Complete(t, r) \/ DeletePending(t, r)

\* What a running copy has established on the target: the blobs it has dealt
\* with are there, then its manifest, and a delete that has finished left nothing
\* incomplete.
CopyOK ==
    \A j \in Busy :
        /\ stage[j] = "copy" => FilesOf[created[j].commit] \subseteq todo[j] \cup Copy(j).blobs
        /\ stage[j] = "refs" => created[j].commit \in Copy(j).commits \ Copy(j).left
        /\ stage[j] = "ok" /\ created[j].action = "delete_repo"
             => Whole(Copy(j))

\* The dispatcher never sleeps on a runnable job: when it waits with no token in
\* the wake channel and no goroutine about to kick it, every candidate is one
\* its timer was computed from.  (An enqueue that fails half-way does not kick;
\* its jobs wait for the timer's one-minute default.)
NoMissedWakeup ==
    disp = "sleep" /\ wake = 0 /\ releasing = 0 =>
        \A j \in Candidates \ armed : created[j].repo \in tainted

\* "Jobs for the same (target, repo) run in creation order": a job takes effect
\* only after every older job of its group has, except those an attempt of which
\* failed (they are in backoff) and those the spool could not give back.
CreationOrder ==
    [][\A j \in applied' \ applied : \A i \in 1 .. (j - 1) :
           Group(i) = Group(j) => i \in applied \cup failed \cup unread]_vars

\* "a newer commit can never be overtaken by an older one re-pointing a ref
\* backwards": a replica's main never moves to an older job's commit.
NeverBackwards ==
    [][\A t \in Targets, r \in Repos :
           replica'[t][r].main # 0 => replica'[t][r].main >= replica[t][r].main]_vars

\* Once the queue has drained, every replica's main is where the primary's is,
\* for the repos whose writes all reached the queue in the order they were made,
\* as long as no attempt and no access to the spool has failed: a job that is
\* retried, or found again by a later loadSpool, may move the ref back.
Converged ==
    phase = "running" /\ spool = {} /\ fanout = {} /\ failed = {} /\ spent["io"] = 0 =>
        \A r \in Repos \ tainted, t \in Targets :
            LET m == replica[t][r].main IN
            src[r].main = IF m = 0 THEN None ELSE created[m].commit

\* What the queue promises its callers: at-least-once delivery.
Contract == INSTANCE ReplicationContract
              WITH accepted <- 1 .. Len(created), pending <- spool

\* Accepted jobs stay pending through crashes, and are retired only once applied.
AtLeastOnce == Contract!Spec

\* Every accepted job is eventually applied and its spool file removed, unless
\* removing it failed or the file could not be read after a restart.
Drains ==
    \A j \in JobIds : j \in spool ~>
        (j \in applied /\ (j \notin spool \/ j \in failed)) \/ j \in unread
=============================================================================
