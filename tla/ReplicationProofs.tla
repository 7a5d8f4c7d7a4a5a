------------------------- MODULE ReplicationProofs -------------------------
(***************************************************************************)
(* Theorems about the replication queue, for every instance of Replication.*)
(* They are layered: TypeOK with StageOK is inductive, and the invariants  *)
(* after it are each inductive relative to the ones before.                *)
(***************************************************************************)
EXTENDS Replication, WellFoundedInduction, TLAPS

USE DEF Copies

-----------------------------------------------------------------------------
(* Lemmas about the operators the actions are built from *)

\* What enqueue does to the list of jobs: the old ones keep their number and the
\* new ones follow them.
LEMMA AppendJobs ==
    ASSUME NEW s \in Seq(Job), NEW k \in Nat, NEW f \in [1 .. k -> Job]
    PROVE  /\ s \o f \in Seq(Job)
           /\ Len(s \o f) = Len(s) + k
           /\ \A i \in 1 .. Len(s) : (s \o f)[i] = s[i]
           /\ \A i \in 1 .. k : (s \o f)[Len(s) + i] = f[i]
  <1>1. f \in Seq(Job) /\ Len(f) = k
    OBVIOUS
  <1> QED BY <1>1

\* A call becomes a well-formed job for each replica.
LEMMA NewJobs ==
    ASSUME NEW call \in Calls, NEW k \in 0 .. Len(Replicas)
    PROVE  [i \in 1 .. k |-> JobFor(call, Replicas[i])] \in [1 .. k -> Job]
  <1>1. \A i \in 1 .. k : Replicas[i] \in Targets
    BY ReplicasAssumption DEF Targets
  <1>2. \A t \in Targets : JobFor(call, t) \in Job
    BY DEF Calls, Job, JobFor
  <1> QED BY <1>1, <1>2

\* enqueue never changes a job that exists.
LEMMA EnqueueCreated ==
    ASSUME TypeOK, NEW call \in fanout, NEW k \in 0 .. Len(Replicas), Enqueue(call, k)
    PROVE  /\ call \in Calls /\ call.repo \in Repos
           /\ created' \in Seq(Job)
           /\ Len(created') = Len(created) + k
           /\ \A i \in 1 .. Len(created) : created'[i] = created[i]
  <1>1. call \in Calls /\ call.repo \in Repos
    BY DEF TypeOK, StoreTypeOK, Calls
  <1>2. created' = created \o [i \in 1 .. k |-> JobFor(call, Replicas[i])]
    BY DEF Enqueue
  <1>3. k \in Nat /\ created \in Seq(Job)
    BY ReplicasAssumption DEF TypeOK, SpoolTypeOK
  <1>4. [i \in 1 .. k |-> JobFor(call, Replicas[i])] \in [1 .. k -> Job]
    BY <1>1, NewJobs
  <1> QED BY <1>1, <1>2, <1>3, <1>4, AppendJobs

\* A job has a target, a repo, and a copy of that repo on that target.
LEMMA JobType ==
    ASSUME TypeOK, NEW j \in 1 .. Len(created)
    PROVE  /\ j \in JobIds
           /\ created[j] \in Job
           /\ created[j].target \in Targets /\ created[j].repo \in Repos
           /\ Group(j) \in Groups
           /\ created[j].action \in {"commit", "delete_repo"}
           /\ created[j].action = "commit" => created[j].commit \in Commits
           /\ Copy(j) \in Copies
  <1>1. created[j] \in Job /\ j \in JobIds
    BY BoundsAssumption DEF TypeOK, SpoolTypeOK, JobIds
  <1>2. created[j].target \in Targets /\ created[j].repo \in Repos
    BY <1>1 DEF Job
  <1> QED BY <1>1, <1>2 DEF Job, Group, Groups, Copy, TypeOK, StoreTypeOK

\* Spending from a bound keeps the account well-typed.
LEMMA SpendType ==
    ASSUME LoopTypeOK, NEW what \in Limited, Spend(what)
    PROVE  spent' \in [Limited -> Nat]
  BY DEF LoopTypeOK, Spend

-----------------------------------------------------------------------------
(* Types, and agreement of stages with jobs *)

Core == TypeOK /\ StageOK

\* The core invariant holds of a fresh queue.
LEMMA InitCore == Init => Core
  <1> SUFFICES ASSUME Init PROVE Core
    OBVIOUS
  <1>1. TypeOK
    BY BoundsAssumption DEF Init, TypeOK, StoreTypeOK, SpoolTypeOK, QueueTypeOK,
       LoopTypeOK, EmptyRepo, EmptyCopy, JobIds, Stages
  <1>2. StageOK
    BY DEF Init, StageOK, Busy
  <1> QED BY <1>1, <1>2 DEF Core

\* A write on the primary touches the queue's state nowhere.
LEMMA WriteCore ==
    ASSUME Core, NEW call \in Calls, Owe(call),
           src' \in [Repos -> [commits: SUBSET Commits, main: Commits \cup {None}]],
           spent' \in [Limited -> Nat]
    PROVE  Core'
  <1>1. StoreTypeOK'
    BY DEF Core, TypeOK, StoreTypeOK, Owe, Calls
  <1>2. UNCHANGED <<created, spool, phase, queue, loop, applied, unread, failed>>
    BY DEF Owe
  <1>3. SpoolTypeOK' /\ QueueTypeOK' /\ LoopTypeOK'
    BY <1>2 DEF Core, TypeOK, SpoolTypeOK, QueueTypeOK, LoopTypeOK, queue, loop
  <1>4. StageOK'
    BY <1>2 DEF Core, StageOK, Busy, queue, loop
  <1> QED BY <1>1, <1>3, <1>4 DEF Core, TypeOK

\* enqueue appends well-typed jobs to memory and spool.
LEMMA EnqueueCore ==
    ASSUME Core, NEW call \in fanout, NEW k \in 0 .. Len(Replicas), Enqueue(call, k)
    PROVE  Core'
  <1> USE ReplicasAssumption, BoundsAssumption
  <1>1. /\ call \in Calls /\ call.repo \in Repos
        /\ created' \in Seq(Job)
        /\ Len(created') = Len(created) + k
        /\ \A i \in 1 .. Len(created) : created'[i] = created[i]
    BY EnqueueCreated DEF Core
  <1>2. Len(created) \in Nat /\ k \in Nat
    BY DEF Core, TypeOK, SpoolTypeOK
  <1>3. spent' \in [Limited -> Nat] /\ tainted' \subseteq Repos /\ wake' \in {0, 1}
    BY <1>1, SpendType DEF Core, TypeOK, StoreTypeOK, LoopTypeOK, Enqueue, Limited, Kick
  <1>4. StoreTypeOK'
    BY <1>3 DEF Core, TypeOK, StoreTypeOK, Enqueue
  <1> DEFINE New == Len(created) + 1 .. Len(created) + k
  <1>a. /\ Len(created) + Len(Replicas) =< MaxJobs
        /\ spool' = spool \cup New /\ jobs' = jobs \cup New /\ due' = due \cup New
        /\ UNCHANGED <<phase, inflight, stage, todo, releasing, disp, armed, applied, unread, failed>>
    BY DEF Enqueue
  <1>b. New \subseteq 1 .. Len(created') /\ 1 .. Len(created) \subseteq 1 .. Len(created')
    BY <1>1, <1>2
  <1> HIDE DEF New
  <1>5. SpoolTypeOK'
    <2>1. Len(created') =< MaxJobs
      BY <1>1, <1>2, <1>a
    <2> QED BY <1>1, <1>a, <1>b, <2>1 DEF Core, TypeOK, SpoolTypeOK
  <1>6. QueueTypeOK'
    BY <1>a, <1>b DEF Core, TypeOK, QueueTypeOK
  <1>7. LoopTypeOK'
    BY <1>a, <1>b, <1>3 DEF Core, TypeOK, LoopTypeOK
  <1>8. StageOK'
    BY <1>1 DEF Core, TypeOK, QueueTypeOK, StageOK, Busy, Enqueue
  <1> QED BY <1>4, <1>5, <1>6, <1>7, <1>8 DEF Core, TypeOK

\* The dispatcher's steps.
LEMMA DispatchCore ==
    ASSUME Core, Dispatch
    PROVE  Core'
  <1>1. ASSUME NEW j \in JobIds, ClaimDue(j) PROVE Core'
    <2>1. j \in jobs /\ j \in 1 .. Len(created)
      BY <1>1 DEF ClaimDue, Oldest, Candidates, Core, TypeOK, QueueTypeOK
    <2>2. Group(j) \in Groups
      BY <2>1, JobType DEF Core
    <2>3. StoreTypeOK' /\ SpoolTypeOK'
      BY <1>1 DEF ClaimDue, Core, TypeOK, StoreTypeOK, SpoolTypeOK, store, past
    <2>4. QueueTypeOK'
      BY <1>1, <2>2 DEF ClaimDue, Core, TypeOK, QueueTypeOK, Stages
    <2>5. LoopTypeOK'
      BY <1>1 DEF ClaimDue, Core, TypeOK, LoopTypeOK
    <2>6. StageOK'
      BY <1>1, <2>1 DEF ClaimDue, Core, TypeOK, QueueTypeOK, StageOK, Busy, past
    <2> QED BY <2>3, <2>4, <2>5, <2>6 DEF Core, TypeOK
  <1>2. ASSUME NEW j \in JobIds, Start(j) PROVE Core'
    <2>1. j \in jobs /\ j \in 1 .. Len(created)
      BY <1>2 DEF Start, Core, TypeOK, QueueTypeOK, StageOK, Busy
    <2>2. StoreTypeOK' /\ SpoolTypeOK' /\ LoopTypeOK'
      BY <1>2 DEF Start, Core, TypeOK, StoreTypeOK, SpoolTypeOK, LoopTypeOK, store, past
    <2>3. QueueTypeOK'
      BY <1>2 DEF Start, Core, TypeOK, QueueTypeOK, Stages
    <2>4. created[j].action \in {"commit", "delete_repo"}
      BY <2>1, JobType DEF Core
    <2>5. StageOK'
      BY <1>2, <2>1, <2>4 DEF Start, Core, TypeOK, QueueTypeOK, StageOK, Busy, past
    <2> QED BY <2>2, <2>3, <2>5 DEF Core, TypeOK
  <1>3. CASE ClaimNone \/ NextDelay \/ WakeUp \/ TimerFires
    <2>1. UNCHANGED <<store, created, spool, phase, queue, past, spent>>
      BY <1>3 DEF ClaimNone, NextDelay, WakeUp, TimerFires
    <2>2. StoreTypeOK' /\ SpoolTypeOK' /\ QueueTypeOK'
      BY <2>1 DEF Core, TypeOK, StoreTypeOK, SpoolTypeOK, QueueTypeOK, store, queue, past
    <2>3. LoopTypeOK'
      BY <1>3, <2>1 DEF Core, TypeOK, LoopTypeOK, QueueTypeOK, ClaimNone, NextDelay, WakeUp, TimerFires
    <2>4. phase # "down"
      BY <1>3 DEF Core, StageOK, ClaimNone, NextDelay, WakeUp, TimerFires
    <2>5. StageOK'
      BY <2>1, <2>4 DEF Core, StageOK, Busy, queue, past
    <2> QED BY <2>2, <2>3, <2>5 DEF Core, TypeOK
  <1> QED BY <1>1, <1>2, <1>3 DEF Dispatch

\* A job being executed is in memory, so its fields are defined.
LEMMA BusyJob ==
    ASSUME Core, NEW j \in JobIds, stage[j] # "idle"
    PROVE  j \in jobs /\ j \in 1 .. Len(created)
  BY DEF Core, TypeOK, QueueTypeOK, StageOK, Busy

\* Replacing the copy a job works on by a well-typed one.
LEMMA SetCopyType ==
    ASSUME Core, NEW j \in 1 .. Len(created),
           NEW copy \in Copies,
           SetCopy(j, copy)
    PROVE  replica' \in [Targets -> [Repos -> Copies]]
  <1>1. created[j].target \in Targets /\ created[j].repo \in Repos
    BY JobType DEF Core
  <1> QED BY <1>1 DEF Core, TypeOK, StoreTypeOK, SetCopy

\* A step of runJob.
LEMMA RunJobCore ==
    ASSUME Core, NEW j \in JobIds,
           \/ ReadManifest(j) \/ PutManifest(j) \/ PointRef(j)
           \/ DropBlobs(j) \/ DropNothing(j) \/ DropRest(j) \/ \E b \in Blobs : CopyBlob(j, b)
    PROVE  Core'
  <1> USE BoundsAssumption
  <1>0. stage[j] # "idle"
    BY DEF ReadManifest, PutManifest, PointRef, DropBlobs, DropNothing, DropRest, CopyBlob, Goes
  <1>1. j \in jobs /\ j \in 1 .. Len(created)
    BY <1>0, BusyJob
  <1>2. /\ Copy(j) \in Copies
        /\ created[j].action = "commit" => created[j].commit \in Commits
    BY <1>1, JobType DEF Core
  <1>3. stage[j] \in {"read", "copy", "refs"} => created[j].action = "commit"
    BY <1>0 DEF Core, StageOK, Busy
  <1>4. UNCHANGED InRunJob
    BY DEF ReadManifest, PutManifest, PointRef, DropBlobs, DropNothing, DropRest, CopyBlob, InRunJob
  <1>5. StoreTypeOK'
    <2>1. CASE ReadManifest(j)
      BY <2>1, <1>4 DEF ReadManifest, InRunJob, Core, TypeOK, StoreTypeOK
    <2>2. CASE PutManifest(j)
      <3>1. [Copy(j) EXCEPT !.commits = @ \cup {created[j].commit}, !.left = @ \ {created[j].commit}]
              \in Copies
        BY <2>2, <1>2, <1>3 DEF PutManifest, Goes
      <3> QED BY <2>2, <3>1, <1>1, <1>4, SetCopyType
              DEF PutManifest, InRunJob, Core, TypeOK, StoreTypeOK
    <2>3. CASE PointRef(j)
      <3>1. [Copy(j) EXCEPT !.main = j]
              \in Copies
        BY <1>2 DEF JobIds
      <3> QED BY <2>3, <3>1, <1>1, <1>4, SetCopyType
              DEF PointRef, InRunJob, Core, TypeOK, StoreTypeOK
    <2>4. CASE DropBlobs(j)
      <3>1. PICK main \in {0, Copy(j).main} :
               SetCopy(j, [Copy(j) EXCEPT !.blobs = {}, !.main = main])
        BY <2>4 DEF DropBlobs
      <3>2. main \in 0 .. MaxJobs
        BY <1>2
      <3>3. [Copy(j) EXCEPT !.blobs = {}, !.main = main] \in Copies
        BY <1>2, <3>2
      <3> QED BY <3>1, <3>3, <1>1, <1>4, SetCopyType
              DEF InRunJob, Core, TypeOK, StoreTypeOK
    <2>7. CASE DropNothing(j)
      <3>1. [Copy(j) EXCEPT !.left = Copy(j).commits]
              \in Copies
        BY <1>2
      <3> QED BY <2>7, <3>1, <1>1, <1>4, SetCopyType
              DEF DropNothing, InRunJob, Core, TypeOK, StoreTypeOK
    <2>5. CASE DropRest(j)
      <3>1. EmptyCopy \in Copies
        BY DEF EmptyCopy
      <3> QED BY <2>5, <3>1, <1>1, <1>4, SetCopyType
              DEF DropRest, InRunJob, Core, TypeOK, StoreTypeOK
    <2>6. ASSUME NEW b \in Blobs, CopyBlob(j, b) PROVE StoreTypeOK'
      <3>1. [Copy(j) EXCEPT !.blobs = @ \cup {b}]
              \in Copies
        BY <1>2
      <3> QED BY <2>6, <3>1, <1>1, <1>4, SetCopyType
              DEF CopyBlob, InRunJob, Core, TypeOK, StoreTypeOK
    <2> QED BY <2>1, <2>2, <2>3, <2>4, <2>5, <2>6, <2>7
  <1>6. SpoolTypeOK'
    <2>1. applied' \subseteq applied \cup {j}
      BY DEF ReadManifest, PutManifest, PointRef, DropBlobs, DropNothing, DropRest, CopyBlob
    <2> QED BY <1>1, <1>4, <2>1 DEF InRunJob, Core, TypeOK, SpoolTypeOK
  <1>7. stage' \in [JobIds -> Stages] /\ todo' \in [JobIds -> SUBSET Blobs]
    BY <1>2, <1>3, FilesAssumption DEF ReadManifest, PutManifest, PointRef, DropBlobs,
       DropNothing, DropRest, CopyBlob, Goes, Core, TypeOK, QueueTypeOK, Stages
  <1>8. QueueTypeOK' /\ LoopTypeOK'
    BY <1>4, <1>7 DEF InRunJob, Core, TypeOK, QueueTypeOK, LoopTypeOK, loop
  <1>9. StageOK'
    <2>1. /\ \A i \in JobIds \ {j} : stage'[i] = stage[i]
          /\ stage'[j] \in {"copy", "refs", "drop2", "ok"}
          /\ applied \subseteq applied' /\ (stage'[j] = "ok" => j \in applied')
          /\ stage'[j] \in {"copy", "refs"} => stage[j] \in {"read", "copy"}
          /\ stage'[j] = "drop2" => stage[j] = "drop"
      BY DEF ReadManifest, PutManifest, PointRef, DropBlobs, DropNothing, DropRest, CopyBlob, Goes,
         Core, TypeOK, QueueTypeOK
    <2> QED BY <1>0, <1>1, <1>4, <2>1 DEF InRunJob, Core, StageOK, Busy, loop
  <1> QED BY <1>5, <1>6, <1>8, <1>9 DEF Core, TypeOK

\* A claim or an execution ends: the job's stage becomes idle.
LEMMA IdleCore ==
    ASSUME Core, NEW j \in JobIds,
           \/ ExecuteOK(j, TRUE) \/ ExecuteOK(j, FALSE) \/ ExecuteErr(j) \/ StopClaimed(j)
    PROVE  Core'
  <1>0. stage[j] # "idle"
    BY DEF ExecuteOK, ExecuteErr, StopClaimed, Goes, Running
  <1>1. j \in jobs /\ j \in 1 .. Len(created)
    BY <1>0, BusyJob
  <1>2. /\ stage' = [stage EXCEPT ![j] = "idle"]
        /\ UNCHANGED <<src, replica, fanout, created, phase, wake, armed, applied, unread, tainted>>
        /\ failed' \in {failed, failed \cup {j}}
        /\ spool' \subseteq spool /\ due' \subseteq jobs' /\ jobs' \subseteq jobs
        /\ jobs \ {j} \subseteq jobs' /\ inflight' \subseteq inflight
        /\ todo' \in {todo, [todo EXCEPT ![j] = {}]}
        /\ releasing' \in {releasing, releasing + 1}
        /\ disp' \in {disp, "off"}
    BY DEF ExecuteOK, ExecuteErr, StopClaimed, Goes, store, loop, past, Core, TypeOK,
         QueueTypeOK
  <1>3. spent' \in [Limited -> Nat]
    BY SpendType DEF ExecuteOK, ExecuteErr, StopClaimed, Core, TypeOK, LoopTypeOK, Limited
  <1>4. StoreTypeOK' /\ SpoolTypeOK'
    BY <1>1, <1>2 DEF Core, TypeOK, StoreTypeOK, SpoolTypeOK
  <1>5. QueueTypeOK'
    BY <1>2 DEF Core, TypeOK, QueueTypeOK, Stages
  <1>6. LoopTypeOK'
    BY <1>2, <1>3 DEF Core, TypeOK, LoopTypeOK
  <1>7. StageOK'
    BY <1>1, <1>2 DEF Core, TypeOK, QueueTypeOK, StageOK, Busy
  <1> QED BY <1>4, <1>5, <1>6, <1>7 DEF Core, TypeOK

\* Time passing, kicks, shutdown requests.
LEMMA TickCore ==
    ASSUME Core, Release \/ RetryNow \/ Shutdown \/ StopIdle \/ \E j \in JobIds : Expire(j)
    PROVE  Core'
  <1>1. /\ UNCHANGED <<store, created, spool, jobs, inflight, stage, todo, past>>
        /\ due' \subseteq jobs
        /\ releasing' \in Nat /\ wake' \in {0, 1}
        /\ armed' \in {armed, {}} /\ disp' \in {disp, "off"} /\ phase' \in {phase, "stopping"}
    <2> USE DEF Core, TypeOK, QueueTypeOK, LoopTypeOK
    <2>1. CASE Release
      BY <2>1 DEF Release, Kick
    <2>2. CASE RetryNow
      BY <2>2 DEF RetryNow, Kick
    <2>3. CASE Shutdown
      BY <2>3 DEF Shutdown, loop, queue
    <2>4. CASE StopIdle
      BY <2>4 DEF StopIdle, queue
    <2>5. CASE \E j \in JobIds : Expire(j)
      BY <2>5 DEF Expire, loop
    <2> QED BY <2>1, <2>2, <2>3, <2>4, <2>5
  <1>2. spent' \in [Limited -> Nat]
    BY SpendType DEF Release, RetryNow, Shutdown, StopIdle, Expire, Core, TypeOK, LoopTypeOK, Limited
  <1>3. StoreTypeOK' /\ SpoolTypeOK'
    BY <1>1 DEF Core, TypeOK, StoreTypeOK, SpoolTypeOK, store, past
  <1>4. QueueTypeOK'
    BY <1>1 DEF Core, TypeOK, QueueTypeOK
  <1>5. LoopTypeOK'
    BY <1>1, <1>2 DEF Core, TypeOK, LoopTypeOK
  <1>6. StageOK'
    BY <1>1 DEF Core, StageOK, Busy, past
  <1> QED BY <1>3, <1>4, <1>5, <1>6 DEF Core, TypeOK

\* The process ends, and a new one loads the spool.
LEMMA LifeCore ==
    ASSUME Core, Exit \/ Crash \/ \E bad \in SUBSET spool : LoadSpool(bad)
    PROVE  Core'
  <1>1. spent' \in [Limited -> Nat]
    BY SpendType DEF Exit, Crash, LoadSpool, Core, TypeOK, LoopTypeOK, Limited
  <1>2. CASE Exit \/ Crash
    <2>1. ProcessGone
      BY <1>2 DEF Exit, Crash
    <2>2. {x.repo : x \in fanout} \subseteq Repos
      BY DEF Core, TypeOK, StoreTypeOK, Calls
    <2>3. StoreTypeOK' /\ SpoolTypeOK'
      BY <2>1, <2>2 DEF ProcessGone, Core, TypeOK, StoreTypeOK, SpoolTypeOK
    <2>4. QueueTypeOK' /\ LoopTypeOK'
      BY <1>1, <2>1 DEF ProcessGone, Core, TypeOK, QueueTypeOK, LoopTypeOK, Stages
    <2>5. StageOK'
      BY <2>1 DEF ProcessGone, StageOK, Busy
    <2> QED BY <2>3, <2>4, <2>5 DEF Core, TypeOK
  <1>3. ASSUME NEW bad \in SUBSET spool, LoadSpool(bad) PROVE Core'
    <2>1. StoreTypeOK' /\ SpoolTypeOK'
      BY <1>3 DEF LoadSpool, store, Core, TypeOK, StoreTypeOK, SpoolTypeOK
    <2>2. QueueTypeOK' /\ LoopTypeOK'
      BY <1>1, <1>3 DEF LoadSpool, Core, TypeOK, SpoolTypeOK, QueueTypeOK, LoopTypeOK
    <2>3. StageOK'
      BY <1>3 DEF LoadSpool, Core, StageOK, Busy
    <2> QED BY <2>1, <2>2, <2>3 DEF Core, TypeOK
  <1> QED BY <1>2, <1>3

\* Every step of the system keeps the core.
LEMMA CoreStep == Core /\ [Next]_vars => Core'
  <1> SUFFICES ASSUME Core, [Next]_vars PROVE Core'
    OBVIOUS
  <1>1. ASSUME NEW r \in Repos, CreateRepo(r) PROVE Core'
    <2>1. CommitCall(r, InitCommit) \in Calls
      BY CommitsAssumption DEF CommitCall, Calls
    <2>2. src' \in [Repos -> [commits: SUBSET Commits, main: Commits \cup {None}]]
      BY <1>1, CommitsAssumption DEF CreateRepo, Core, TypeOK, StoreTypeOK
    <2>3. spent' \in [Limited -> Nat]
      BY <1>1, SpendType DEF CreateRepo, Core, TypeOK, Limited
    <2> QED BY <1>1, <2>1, <2>2, <2>3, WriteCore DEF CreateRepo
  <1>2. ASSUME NEW r \in Repos, NEW c \in Commits \ {InitCommit}, Commit(r, c) PROVE Core'
    <2>1. CommitCall(r, c) \in Calls
      BY DEF CommitCall, Calls
    <2>2. src' \in [Repos -> [commits: SUBSET Commits, main: Commits \cup {None}]]
      BY <1>2 DEF Commit, Core, TypeOK, StoreTypeOK
    <2>3. spent' \in [Limited -> Nat]
      BY <1>2, SpendType DEF Commit, Core, TypeOK, Limited
    <2> QED BY <1>2, <2>1, <2>2, <2>3, WriteCore DEF Commit
  <1>3. ASSUME NEW r \in Repos, DeleteRepo(r) PROVE Core'
    <2>1. DeleteCall(r) \in Calls
      BY DEF DeleteCall, Calls
    <2>2. src' \in [Repos -> [commits: SUBSET Commits, main: Commits \cup {None}]]
      BY <1>3 DEF DeleteRepo, EmptyRepo, Core, TypeOK, StoreTypeOK
    <2>3. spent' \in [Limited -> Nat]
      BY <1>3, SpendType DEF DeleteRepo, Core, TypeOK, Limited
    <2> QED BY <1>3, <2>1, <2>2, <2>3, WriteCore DEF DeleteRepo
  <1>4. ASSUME NEW j \in JobIds, Execute(j) \/ ExecuteOK(j, FALSE) \/ ExecuteErr(j) \/ StopClaimed(j)
        PROVE Core'
    BY <1>4, RunJobCore, IdleCore DEF Execute
  <1>5. CASE UNCHANGED vars
    <2>1. StoreTypeOK' /\ SpoolTypeOK'
      BY <1>5 DEF vars, store, past, Core, TypeOK, StoreTypeOK, SpoolTypeOK
    <2>2. QueueTypeOK' /\ LoopTypeOK'
      BY <1>5 DEF vars, queue, loop, Core, TypeOK, QueueTypeOK, LoopTypeOK
    <2>3. StageOK'
      BY <1>5 DEF vars, queue, loop, past, Core, StageOK, Busy
    <2> QED BY <2>1, <2>2, <2>3 DEF Core, TypeOK
  <1> QED BY <1>1, <1>2, <1>3, <1>4, <1>5, EnqueueCore, DispatchCore, TickCore, LifeCore DEF Next

\* The model is well typed: every reachable state of the queue, its spool and the
\* stores keeps to the values the code's structures can hold.
THEOREM TypeCorrect == Spec => []TypeOK
  <1>1. Core => TypeOK
    BY DEF Core
  <1> QED BY <1>1, InitCore, CoreStep, PTL DEF Spec

\* The steps that leave claims and executions alone.
Idling == \/ \E r \in Repos : CreateRepo(r) \/ DeleteRepo(r)
          \/ \E r \in Repos, c \in Commits \ {InitCommit} : Commit(r, c)
          \/ ClaimNone \/ NextDelay \/ WakeUp \/ TimerFires
          \/ StopIdle \/ Release \/ RetryNow \/ Shutdown
          \/ \E j \in JobIds : Expire(j)

\* The steps of runJob.
RunJob(j) == \/ ReadManifest(j) \/ PutManifest(j) \/ PointRef(j)
             \/ DropBlobs(j) \/ DropNothing(j) \/ DropRest(j)
             \/ \E b \in Blobs : CopyBlob(j, b)

\* What the proofs below need of each kind of step.
LEMMA IdlingFacts ==
    ASSUME Idling
    PROVE  /\ UNCHANGED <<replica, created, spool, jobs, inflight, stage, todo, applied, unread>>
           /\ phase' # phase => phase' = "stopping" /\ phase = "running"
  <1>1. ASSUME NEW r \in Repos, CreateRepo(r) \/ DeleteRepo(r)
        PROVE  UNCHANGED <<replica, created, spool, jobs, inflight, stage, todo, applied, unread, phase>>
    BY <1>1 DEF CreateRepo, DeleteRepo, Owe, queue
  <1>2. ASSUME NEW r \in Repos, NEW c \in Commits \ {InitCommit}, Commit(r, c)
        PROVE  UNCHANGED <<replica, created, spool, jobs, inflight, stage, todo, applied, unread, phase>>
    BY <1>2 DEF Commit, Owe, queue
  <1>3. ASSUME ClaimNone \/ NextDelay \/ WakeUp \/ TimerFires \/ StopIdle
        PROVE  UNCHANGED <<replica, created, spool, jobs, inflight, stage, todo, applied, unread, phase>>
    BY <1>3 DEF ClaimNone, NextDelay, WakeUp, TimerFires, StopIdle, store, queue, past
  <1>4. ASSUME Release \/ RetryNow \/ \E j \in JobIds : Expire(j)
        PROVE  UNCHANGED <<replica, created, spool, jobs, inflight, stage, todo, applied, unread, phase>>
    BY <1>4 DEF Release, RetryNow, Expire, store, past
  <1>5. ASSUME Shutdown
        PROVE  /\ UNCHANGED <<replica, created, spool, jobs, inflight, stage, todo, applied, unread>>
               /\ phase' = "stopping" /\ phase = "running"
    BY <1>5 DEF Shutdown, store, queue, past
  <1> QED BY <1>1, <1>2, <1>3, <1>4, <1>5 DEF Idling

\* What the steps of runJob may and may not touch.
LEMMA RunJobFacts ==
    ASSUME Core, NEW j \in JobIds, RunJob(j)
    PROVE  /\ UNCHANGED <<created, spool, phase, jobs, inflight, unread>>
           /\ stage[j] # "idle" /\ stage'[j] # "idle"
           /\ \A i \in JobIds \ {j} : stage'[i] = stage[i] /\ todo'[i] = todo[i]
           /\ j \in jobs /\ j \in 1 .. Len(created)
           /\ applied' = applied \/ applied' = applied \cup {j}
  <1>1. UNCHANGED <<created, spool, phase, jobs, inflight, unread>>
    BY DEF RunJob, ReadManifest, PutManifest, PointRef, DropBlobs, DropNothing, DropRest, CopyBlob, InRunJob
  <1>2. stage[j] # "idle" /\ stage'[j] # "idle"
    BY DEF RunJob, ReadManifest, PutManifest, PointRef, DropBlobs, DropNothing, DropRest, CopyBlob, Goes,
       Core, TypeOK, QueueTypeOK
  <1>3. \A i \in JobIds \ {j} : stage'[i] = stage[i] /\ todo'[i] = todo[i]
    BY DEF RunJob, ReadManifest, PutManifest, PointRef, DropBlobs, DropNothing, DropRest, CopyBlob, Goes,
       Core, TypeOK, QueueTypeOK
  <1>4. applied' = applied \/ applied' = applied \cup {j}
    BY DEF RunJob, ReadManifest, PutManifest, PointRef, DropBlobs, DropNothing, DropRest, CopyBlob
  <1> QED BY <1>1, <1>2, <1>3, <1>4, BusyJob

\* A claim is given up or an execution ends.
Ends(j) == ExecuteOK(j, TRUE) \/ ExecuteOK(j, FALSE) \/ ExecuteErr(j) \/ StopClaimed(j)

\* What an ending claim or execution leaves behind, whatever its outcome.
LEMMA EndsFacts ==
    ASSUME Core, NEW j \in JobIds, Ends(j)
    PROVE  /\ stage[j] # "idle" /\ j \in jobs /\ j \in 1 .. Len(created)
           /\ stage' = [stage EXCEPT ![j] = "idle"]
           /\ inflight' = inflight \ {Group(j)}
           /\ UNCHANGED <<replica, created, phase, applied, unread>>
           /\ \A i \in JobIds \ {j} : todo'[i] = todo[i]
           /\ \/ UNCHANGED <<jobs, spool>>
              \/ /\ jobs' = jobs \ {j} /\ spool' \in {spool, spool \ {j}}
                 /\ stage[j] = "ok" /\ j \in applied
  <1>1. stage[j] # "idle"
    BY DEF Ends, ExecuteOK, ExecuteErr, StopClaimed, Goes, Running
  <1>2. j \in jobs /\ j \in 1 .. Len(created) /\ (stage[j] = "ok" => j \in applied)
    BY <1>1, BusyJob DEF Core, StageOK, Busy
  <1>3. CASE ExecuteOK(j, TRUE) \/ ExecuteOK(j, FALSE)
    BY <1>1, <1>2, <1>3 DEF ExecuteOK, Goes, store, past
  <1>4. CASE ExecuteErr(j)
    BY <1>1, <1>2, <1>4 DEF ExecuteErr, store, past, Core, TypeOK, QueueTypeOK
  <1>5. CASE StopClaimed(j)
    BY <1>1, <1>2, <1>5 DEF StopClaimed, store, past
  <1> QED BY <1>3, <1>4, <1>5 DEF Ends

\* The actions, grouped by what they do to the jobs being worked on.
LEMMA Cases ==
    ASSUME [Next]_vars
    PROVE  \/ Idling
           \/ \E call \in fanout, k \in 0 .. Len(Replicas) : Enqueue(call, k)
           \/ \E j \in JobIds : ClaimDue(j) \/ Start(j) \/ RunJob(j) \/ Ends(j)
           \/ Exit \/ Crash \/ \E bad \in SUBSET spool : LoadSpool(bad)
           \/ UNCHANGED vars
  BY DEF Next, Dispatch, Execute, Idling, RunJob, Ends

-----------------------------------------------------------------------------
(* One job in flight per group *)

\* Every step keeps one job in flight per group, and inflight exact.
LEMMA OneInFlightStep ==
    ASSUME Core, Core', OneInFlightPerGroup, [Next]_vars
    PROVE  OneInFlightPerGroup'
  <1>1. CASE Idling \/ UNCHANGED vars
    <2>1. UNCHANGED <<created, inflight, stage>>
      BY <1>1, IdlingFacts DEF vars, queue
    <2> QED BY <2>1 DEF OneInFlightPerGroup, Busy, Group
  <1>2. ASSUME NEW call \in fanout, NEW k \in 0 .. Len(Replicas), Enqueue(call, k)
        PROVE OneInFlightPerGroup'
    <2>1. UNCHANGED <<inflight, stage>>
      BY <1>2 DEF Enqueue
    <2>2. \A j \in Busy : Group(j)' = Group(j)
      BY <1>2, EnqueueCreated, BusyJob DEF Core, Group, Busy
    <2> QED BY <2>1, <2>2 DEF OneInFlightPerGroup, Busy
  <1>3. ASSUME NEW j \in JobIds, ClaimDue(j) PROVE OneInFlightPerGroup'
    <2>1. /\ Group(j) \notin inflight /\ inflight' = inflight \cup {Group(j)}
          /\ stage' = [stage EXCEPT ![j] = "claimed"] /\ created' = created
      BY <1>3 DEF ClaimDue, Oldest, Candidates
    <2>2. Busy' = Busy \cup {j}
      BY <2>1 DEF Busy, Core, TypeOK, QueueTypeOK
    <2> QED BY <2>1, <2>2 DEF OneInFlightPerGroup, Group
  <1>4. ASSUME NEW j \in JobIds, Start(j) \/ RunJob(j) PROVE OneInFlightPerGroup'
    <2>1. UNCHANGED <<created, inflight>>
      BY <1>4, RunJobFacts DEF Start
    <2>2. Busy' = Busy
      BY <1>4, RunJobFacts DEF Start, Busy, Core, TypeOK, QueueTypeOK
    <2> QED BY <2>1, <2>2 DEF OneInFlightPerGroup, Group
  <1>5. ASSUME NEW j \in JobIds, Ends(j) PROVE OneInFlightPerGroup'
    <2>1. j \in Busy /\ created' = created /\ inflight' = inflight \ {Group(j)}
      BY <1>5, EndsFacts DEF Busy
    <2>2. Busy' = Busy \ {j}
      BY <1>5, EndsFacts DEF Busy, Core, TypeOK, QueueTypeOK
    <2> QED BY <2>1, <2>2 DEF OneInFlightPerGroup, Group
  <1>6. CASE Exit \/ Crash
    BY <1>6 DEF Exit, Crash, ProcessGone, OneInFlightPerGroup, Busy
  <1>7. ASSUME NEW bad \in SUBSET spool, LoadSpool(bad) PROVE OneInFlightPerGroup'
    BY <1>7 DEF LoadSpool, OneInFlightPerGroup, Busy, Group
  <1> QED BY <1>1, <1>2, <1>3, <1>4, <1>5, <1>6, <1>7, Cases

\* claimDue's inflight check serializes each (target, repo): in every reachable
\* state at most one job per group is claimed or running, and inflight records
\* exactly those groups, so no group is blocked by a job that is over.
THEOREM OneInFlight == Spec => []OneInFlightPerGroup
  <1>1. Init => OneInFlightPerGroup
    BY DEF Init, OneInFlightPerGroup, Busy
  <1> QED BY <1>1, InitCore, CoreStep, OneInFlightStep, PTL DEF Spec

-----------------------------------------------------------------------------
(* No accepted job is lost *)

\* Every step keeps memory and spool in agreement.
LEMMA NoStrandedStep ==
    ASSUME Core, NoStrandedJob, [Next]_vars
    PROVE  NoStrandedJob'
  <1>1. CASE Idling \/ UNCHANGED vars
    BY <1>1, IdlingFacts DEF vars, queue, past, NoStrandedJob
  <1>2. ASSUME NEW call \in fanout, NEW k \in 0 .. Len(Replicas), Enqueue(call, k)
        PROVE NoStrandedJob'
    BY <1>2 DEF Enqueue, NoStrandedJob
  <1>3. ASSUME NEW j \in JobIds, ClaimDue(j) \/ Start(j) PROVE NoStrandedJob'
    BY <1>3 DEF ClaimDue, Start, past, NoStrandedJob
  <1>4. ASSUME NEW j \in JobIds, RunJob(j) PROVE NoStrandedJob'
    BY <1>4, RunJobFacts DEF NoStrandedJob
  <1>5. ASSUME NEW j \in JobIds, Ends(j) PROVE NoStrandedJob'
    BY <1>5, EndsFacts DEF NoStrandedJob
  <1>6. CASE Exit \/ Crash
    BY <1>6 DEF Exit, Crash, ProcessGone, NoStrandedJob
  <1>7. ASSUME NEW bad \in SUBSET spool, LoadSpool(bad) PROVE NoStrandedJob'
    BY <1>7 DEF LoadSpool, NoStrandedJob
  <1> QED BY <1>1, <1>2, <1>3, <1>4, <1>5, <1>6, <1>7, Cases

\* While the process is up, every spooled job that has not taken effect yet is in
\* memory (or its file could not be read): persist-before-register in enqueue,
\* forget-then-remove in execute and loadSpool at start lose nothing.
THEOREM NoStranded == Spec => []NoStrandedJob
  <1>1. Init => NoStrandedJob
    BY DEF Init, NoStrandedJob
  <1> QED BY <1>1, InitCore, CoreStep, NoStrandedStep, PTL DEF Spec

-----------------------------------------------------------------------------
(* The queue implements at-least-once delivery *)

\* Every step of the queue is a step of the contract or leaves it unchanged.
LEMMA ContractStep ==
    ASSUME Core, NoStrandedJob, [Next]_vars
    PROVE  [Contract!Next]_(Contract!vars)
  <1> USE DEF Contract!vars
  <1>0. ASSUME UNCHANGED <<created, spool, applied>>
        PROVE  UNCHANGED Contract!vars
    BY <1>0
  <1>1. CASE Idling \/ UNCHANGED vars
    BY <1>0, <1>1, IdlingFacts DEF vars, past
  <1>2. ASSUME NEW call \in fanout, NEW k \in 0 .. Len(Replicas), Enqueue(call, k)
        PROVE Contract!Accept
    <2>1. Len(created') = Len(created) + k /\ Len(created) \in Nat /\ k \in Nat
      BY <1>2, EnqueueCreated, ReplicasAssumption DEF Core, TypeOK, SpoolTypeOK
    <2>2. (1 .. Len(created')) \ (1 .. Len(created)) = Len(created) + 1 .. Len(created) + k
      BY <2>1
    <2>3. spool' = spool \cup (Len(created) + 1 .. Len(created) + k) /\ applied' = applied
      BY <1>2 DEF Enqueue
    <2>4. 1 .. Len(created) \subseteq 1 .. Len(created')
      BY <2>1
    <2> QED BY <2>2, <2>3, <2>4 DEF Contract!Accept
  <1>3. ASSUME NEW j \in JobIds, ClaimDue(j) \/ Start(j) PROVE UNCHANGED Contract!vars
    BY <1>0, <1>3 DEF ClaimDue, Start, past
  <1>4. ASSUME NEW j \in JobIds, RunJob(j)
        PROVE  UNCHANGED Contract!vars \/ (j \in spool /\ Contract!Apply(j))
    <2>1. /\ UNCHANGED <<created, spool>> /\ j \in jobs
          /\ applied' = applied \/ applied' = applied \cup {j}
      BY <1>4, RunJobFacts
    <2>2. j \in spool
      BY <2>1 DEF Core, StageOK, NoStrandedJob
    <2> QED BY <1>0, <2>1, <2>2 DEF Contract!Apply
  <1>5. ASSUME NEW j \in JobIds, Ends(j)
        PROVE  UNCHANGED Contract!vars \/ (j \in spool /\ Contract!Retire(j))
    <2>1. /\ UNCHANGED <<created, applied>> /\ j \in jobs
          /\ UNCHANGED spool \/ (spool' = spool \ {j} /\ j \in applied)
      BY <1>5, EndsFacts
    <2>2. j \in spool
      BY <2>1 DEF Core, StageOK, NoStrandedJob
    <2> QED BY <1>0, <2>1, <2>2 DEF Contract!Retire
  <1>6. CASE Exit \/ Crash \/ \E bad \in SUBSET spool : LoadSpool(bad)
    BY <1>0, <1>6 DEF Exit, Crash, ProcessGone, LoadSpool
  <1> QED BY <1>1, <1>2, <1>3, <1>4, <1>5, <1>6, Cases DEF Contract!Next

\* "a restart resumes exactly where it left off": whatever fails, crashes or is
\* shut down, a job that was accepted stays pending until it has taken effect.
THEOREM QueueDelivers == Spec => AtLeastOnce
  <1>1. Init => Contract!Init
    BY DEF Init, Contract!Init
  <1>2. Init => NoStrandedJob
    BY DEF Init, NoStrandedJob
  <1> QED BY <1>1, <1>2, InitCore, CoreStep, NoStrandedStep, ContractStep, PTL
          DEF Spec, AtLeastOnce, Contract!Spec

-----------------------------------------------------------------------------
(* A replica's manifests are complete *)

\* Besides the two named invariants: main is the number of a job that exists.
RefsOK == \A t \in Targets, r \in Repos : replica[t][r].main =< Len(created)
CompleteInv == CopyOK /\ ReplicaComplete /\ RefsOK

\* Steps outside runJob keep the invariant, as long as no pending delete
\* disappears from a repo that needs the excuse.
LEMMA CompleteFrame ==
    ASSUME Core, CompleteInv, UNCHANGED replica,
           \A j \in JobIds : \/ stage'[j] \in {"idle", "claimed", "read", "drop"}
                             \/ stage'[j] = stage[j] /\ todo'[j] = todo[j],
           \A t \in Targets, r \in Repos :
               DeletePending(t, r) => DeletePending(t, r)' \/ Complete(t, r),
           Len(created) =< Len(created'), Len(created') \in Nat,
           \A j \in 1 .. Len(created) : created'[j] = created[j]
    PROVE  CompleteInv'
  <1>1. /\ Len(created) \in Nat
        /\ \A t \in Targets, r \in Repos : replica[t][r].main \in 0 .. Len(created)
    <2>1. \A t \in Targets, r \in Repos : replica[t][r] \in Copies
      BY DEF Core, TypeOK, StoreTypeOK
    <2> QED BY <2>1, BoundsAssumption DEF CompleteInv, RefsOK, Core, TypeOK, SpoolTypeOK
  <1>2. \A t \in Targets, r \in Repos : Complete(t, r)' <=> Complete(t, r)
    BY <1>1 DEF Complete, Whole
  <1>3. ReplicaComplete'
    BY <1>2 DEF CompleteInv, ReplicaComplete
  <1>4. RefsOK'
    BY <1>1 DEF RefsOK
  <1>5. ASSUME NEW j \in JobIds, stage'[j] \in {"copy", "refs", "ok"}
        PROVE  /\ stage'[j] = stage[j] /\ todo'[j] = todo[j] /\ j \in Busy
               /\ j \in 1 .. Len(created) /\ created'[j] = created[j]
    BY <1>5, BusyJob DEF Busy
  <1>6. CopyOK'
    <2> SUFFICES ASSUME NEW j \in JobIds, stage'[j] \in {"copy", "refs", "ok"}
                 PROVE  /\ stage'[j] = "copy" => FilesOf[created'[j].commit]
                                                   \subseteq todo'[j] \cup Copy(j)'.blobs
                        /\ stage'[j] = "refs" => created'[j].commit
                                                   \in Copy(j)'.commits \ Copy(j)'.left
                        /\ stage'[j] = "ok" /\ created'[j].action = "delete_repo"
                             => Whole(Copy(j))'
      BY DEF CopyOK, Busy
    <2>1. created[j].target \in Targets /\ created[j].repo \in Repos
      BY <1>5, JobType DEF Core
    <2>2. Copy(j)' = Copy(j) /\ Copy(j).main \in 0 .. Len(created)
      BY <1>1, <1>5, <2>1 DEF Copy
    <2>3. Whole(Copy(j)) => Whole(Copy(j))'
      BY <1>1, <2>2 DEF Whole
    <2> QED BY <1>5, <2>2, <2>3 DEF CompleteInv, CopyOK
  <1> QED BY <1>3, <1>4, <1>6 DEF CompleteInv

\* A step of runJob changes only the copy of its own group.
LEMMA SetCopyFrame ==
    ASSUME Core, NEW j \in 1 .. Len(created), NEW copy, SetCopy(j, copy)
    PROVE  /\ replica'[created[j].target][created[j].repo] = copy
           /\ \A t \in Targets, r \in Repos :
                 <<t, r>> # Group(j) => replica'[t][r] = replica[t][r]
  <1>1. created[j].target \in Targets /\ created[j].repo \in Repos
    BY JobType DEF Core
  <1> QED BY <1>1 DEF Core, TypeOK, StoreTypeOK, SetCopy, Group

\* A step of runJob that replaces the copy it works on: what must be shown of it.
LEMMA CompleteByCopy ==
    ASSUME Core, OneInFlightPerGroup, CompleteInv, NEW j \in JobIds, RunJob(j),
           NEW copy, SetCopy(j, copy), copy.main =< Len(created),
           Whole(copy) \/ DeletePending(created[j].target, created[j].repo),
           stage'[j] = "copy" => FilesOf[created[j].commit] \subseteq todo'[j] \cup copy.blobs,
           stage'[j] = "refs" => created[j].commit \in copy.commits \ copy.left,
           stage'[j] = "ok" /\ created[j].action = "delete_repo" => Whole(copy)
    PROVE  CompleteInv'
  <1>1. /\ UNCHANGED <<created, spool>>
        /\ j \in 1 .. Len(created) /\ stage[j] # "idle"
        /\ \A i \in JobIds \ {j} : stage'[i] = stage[i] /\ todo'[i] = todo[i]
    BY RunJobFacts
  <1>2. /\ replica'[created[j].target][created[j].repo] = copy
        /\ \A t \in Targets, r \in Repos :
              <<t, r>> # Group(j) => replica'[t][r] = replica[t][r]
    BY <1>1, SetCopyFrame
  <1>3. created[j].target \in Targets /\ created[j].repo \in Repos
    BY <1>1, JobType DEF Core
  <1>4. \A t \in Targets, r \in Repos :
           /\ <<t, r>> = Group(j) => (Complete(t, r)' <=> Whole(copy))
           /\ <<t, r>> # Group(j) => (Complete(t, r)' <=> Complete(t, r))
    <2>1. \A x : Whole(x)' <=> Whole(x)
      BY <1>1 DEF Whole
    <2>2. \A t \in Targets, r \in Repos : <<t, r>> = Group(j) => replica'[t][r] = copy
      BY <1>2 DEF Group
    <2> QED BY <1>2, <2>1, <2>2 DEF Complete
  <1>5. ReplicaComplete'
    <2> SUFFICES ASSUME NEW t \in Targets, NEW r \in Repos
                 PROVE  Complete(t, r)' \/ DeletePending(t, r)'
      BY DEF ReplicaComplete
    <2>1. DeletePending(t, r)' <=> DeletePending(t, r)
      BY <1>1 DEF DeletePending, Group
    <2>2. CASE <<t, r>> = Group(j)
      <3>1. t = created[j].target /\ r = created[j].repo
        BY <2>2 DEF Group
      <3> QED BY <1>4, <2>1, <2>2, <3>1
    <2>3. CASE <<t, r>> # Group(j)
      BY <1>4, <2>1, <2>3 DEF CompleteInv, ReplicaComplete
    <2> QED BY <2>2, <2>3
  <1>6. RefsOK'
    <2> SUFFICES ASSUME NEW t \in Targets, NEW r \in Repos
                 PROVE  replica'[t][r].main =< Len(created)
      BY <1>1 DEF RefsOK
    <2>1. CASE <<t, r>> = Group(j)
      BY <1>2, <2>1 DEF Group
    <2>2. CASE <<t, r>> # Group(j)
      BY <1>2, <2>2 DEF CompleteInv, RefsOK
    <2> QED BY <2>1, <2>2
  <1>7. CopyOK'
    <2> SUFFICES ASSUME NEW i \in JobIds, stage'[i] # "idle"
                 PROVE  /\ stage'[i] = "copy" =>
                             FilesOf[created[i].commit] \subseteq todo'[i] \cup Copy(i)'.blobs
                        /\ stage'[i] = "refs" =>
                             created[i].commit \in Copy(i)'.commits \ Copy(i)'.left
                        /\ stage'[i] = "ok" /\ created[i].action = "delete_repo"
                             => Whole(Copy(i))'
      BY <1>1 DEF CopyOK, Busy
    <2>1. CASE i = j
      BY <1>1, <1>2, <2>1 DEF Copy, Whole
    <2>2. CASE i # j
      <3>1. stage'[i] = stage[i] /\ todo'[i] = todo[i] /\ i \in Busy /\ j \in Busy
        BY <1>1, <2>2 DEF Busy
      <3>2. Group(i) # Group(j)
        BY <2>2, <3>1 DEF OneInFlightPerGroup
      <3>3. created[i].target \in Targets /\ created[i].repo \in Repos
        BY <3>1, BusyJob, JobType DEF Core, Busy
      <3>4. replica'[created[i].target][created[i].repo]
              = replica[created[i].target][created[i].repo]
        BY <1>2, <3>2, <3>3 DEF Group
      <3>5. Copy(i)' = Copy(i)
        BY <1>1, <3>4 DEF Copy
      <3>6. Whole(Copy(i)) => Whole(Copy(i))'
        BY <1>1, <3>5 DEF Whole
      <3> QED BY <1>1, <3>1, <3>5, <3>6 DEF CompleteInv, CopyOK
    <2> QED BY <2>1, <2>2
  <1> QED BY <1>5, <1>6, <1>7 DEF CompleteInv

\* Every step of runJob keeps the replicas' manifests complete.
LEMMA CompleteRun ==
    ASSUME Core, OneInFlightPerGroup, NoStrandedJob, CompleteInv, NEW j \in JobIds, RunJob(j)
    PROVE  CompleteInv'
  <1>1. /\ j \in Busy /\ j \in spool /\ j \in 1 .. Len(created)
        /\ UNCHANGED <<created, spool>> /\ Len(created) \in Nat
    BY RunJobFacts DEF Core, StageOK, NoStrandedJob, Busy, TypeOK, SpoolTypeOK
  <1>2. /\ created[j].target \in Targets /\ created[j].repo \in Repos
        /\ Copy(j) \in Copies
        /\ created[j].action = "commit" => created[j].commit \in Commits
    BY <1>1, JobType DEF Core
  <1>3. /\ Whole(Copy(j)) \/ DeletePending(created[j].target, created[j].repo)
        /\ Copy(j).main =< Len(created)
    BY <1>2 DEF CompleteInv, ReplicaComplete, Complete, RefsOK, Copy
  <1>4. created[j].action = "delete_repo" => DeletePending(created[j].target, created[j].repo)
    BY <1>1 DEF DeletePending, Group
  <1>5. CASE ReadManifest(j)
    <2>1. /\ UNCHANGED replica /\ stage'[j] = "copy"
          /\ todo'[j] = FilesOf[created[j].commit]
          /\ \A i \in JobIds \ {j} : stage'[i] = stage[i] /\ todo'[i] = todo[i]
      BY <1>5 DEF ReadManifest, Goes, Core, TypeOK, QueueTypeOK
    <2>2. CopyOK'
      BY <1>1, <2>1 DEF CompleteInv, CopyOK, Busy, Complete, Whole, Copy
    <2>3. ReplicaComplete' /\ RefsOK'
      BY <1>1, <2>1 DEF CompleteInv, ReplicaComplete, Complete, Whole, DeletePending, Group, RefsOK
    <2> QED BY <2>2, <2>3 DEF CompleteInv
  <1>6. ASSUME NEW b \in Blobs, CopyBlob(j, b) PROVE CompleteInv'
    <2> DEFINE copy == [Copy(j) EXCEPT !.blobs = @ \cup {b}]
    <2>1. /\ copy.commits = Copy(j).commits /\ copy.blobs = Copy(j).blobs \cup {b}
          /\ copy.left = Copy(j).left /\ copy.main = Copy(j).main
          /\ SetCopy(j, copy) /\ stage' = stage /\ stage[j] = "copy"
          /\ todo'[j] = todo[j] \ {b}
      BY <1>2, <1>6 DEF CopyBlob, Core, TypeOK, QueueTypeOK
    <2>2. FilesOf[created[j].commit] \subseteq todo'[j] \cup copy.blobs
      BY <1>1, <2>1 DEF CompleteInv, CopyOK
    <2> HIDE DEF copy
    <2>3. Whole(copy) \/ DeletePending(created[j].target, created[j].repo)
      BY <1>3, <2>1 DEF Whole
    <2> QED BY <1>3, <2>1, <2>2, <2>3, CompleteByCopy
  <1>7. CASE PutManifest(j)
    <2> DEFINE c == created[j].commit
    <2> DEFINE copy == [Copy(j) EXCEPT !.commits = @ \cup {c}, !.left = @ \ {c}]
    <2>1. /\ copy.commits = Copy(j).commits \cup {c}
          /\ copy.left = Copy(j).left \ {c}
          /\ copy.blobs = Copy(j).blobs /\ copy.main = Copy(j).main
      BY <1>2
    <2>2. SetCopy(j, copy) /\ stage[j] = "copy" /\ stage'[j] = "refs" /\ todo[j] = {}
      BY <1>7 DEF PutManifest, Goes, Core, TypeOK, QueueTypeOK
    <2>3. FilesOf[c] \subseteq copy.blobs
      BY <1>1, <2>1, <2>2 DEF CompleteInv, CopyOK
    <2> HIDE DEF copy
    <2>4. Whole(copy) \/ DeletePending(created[j].target, created[j].repo)
      BY <1>3, <2>1, <2>3 DEF Whole
    <2> QED BY <1>3, <2>1, <2>2, <2>3, <2>4, CompleteByCopy
  <1>8. CASE PointRef(j)
    <2> DEFINE copy == [Copy(j) EXCEPT !.main = j]
    <2>1. /\ copy.commits = Copy(j).commits /\ copy.blobs = Copy(j).blobs
          /\ copy.left = Copy(j).left /\ copy.main = j
          /\ SetCopy(j, copy) /\ stage[j] = "refs" /\ stage'[j] = "ok"
      BY <1>2, <1>8 DEF PointRef, Goes, Core, TypeOK, QueueTypeOK
    <2>2. created[j].action = "commit" /\ created[j].commit \in copy.commits \ copy.left
      BY <1>1, <2>1 DEF Core, StageOK, CompleteInv, CopyOK
    <2> HIDE DEF copy
    <2>3. Whole(copy) \/ DeletePending(created[j].target, created[j].repo)
      BY <1>3, <2>1, <2>2 DEF Whole
    <2>4. copy.main =< Len(created)
      BY <1>1, <2>1
    <2> QED BY <2>1, <2>2, <2>3, <2>4, CompleteByCopy
  <1>9. CASE DropBlobs(j)
    <2>1. PICK main \in {0, Copy(j).main} :
             SetCopy(j, [Copy(j) EXCEPT !.blobs = {}, !.main = main])
      BY <1>9 DEF DropBlobs
    <2> DEFINE copy == [Copy(j) EXCEPT !.blobs = {}, !.main = main]
    <2>2. stage[j] = "drop" /\ stage'[j] = "drop2"
      BY <1>9 DEF DropBlobs, Goes, Core, TypeOK, QueueTypeOK
    <2>3. copy.main =< Len(created)
      BY <1>1, <1>2, <1>3
    <2>4. SetCopy(j, copy)
      BY <2>1
    <2>5. DeletePending(created[j].target, created[j].repo)
      BY <1>1, <1>4, <2>2 DEF Core, StageOK
    <2> HIDE DEF copy
    <2> QED BY <2>2, <2>3, <2>4, <2>5, CompleteByCopy
  <1>10. CASE DropRest(j)
    <2>1. SetCopy(j, EmptyCopy) /\ stage'[j] = "ok"
      BY <1>10 DEF DropRest, Goes, Core, TypeOK, QueueTypeOK
    <2>2. Whole(EmptyCopy) /\ EmptyCopy.main =< Len(created)
      BY <1>1 DEF Whole, EmptyCopy
    <2> QED BY <2>1, <2>2, CompleteByCopy
  <1>11. CASE DropNothing(j)
    <2> DEFINE copy == [Copy(j) EXCEPT !.left = Copy(j).commits]
    <2>1. /\ copy.commits = Copy(j).commits /\ copy.left = Copy(j).commits
          /\ copy.main = Copy(j).main /\ Copy(j).main = 0
      BY <1>2, <1>11 DEF DropNothing
    <2>2. SetCopy(j, copy) /\ stage'[j] = "ok"
      BY <1>11 DEF DropNothing, Goes, Core, TypeOK, QueueTypeOK
    <2> HIDE DEF copy
    <2>3. Whole(copy) /\ copy.main =< Len(created)
      BY <1>3, <2>1 DEF Whole
    <2> QED BY <2>2, <2>3, CompleteByCopy
  <1> QED BY <1>5, <1>6, <1>7, <1>8, <1>9, <1>10, <1>11 DEF RunJob

\* Every step keeps the replicas' manifests complete.
LEMMA CompleteStep ==
    ASSUME Core, Core', OneInFlightPerGroup, NoStrandedJob, CompleteInv, [Next]_vars
    PROVE  CompleteInv'
  <1>0. Len(created) \in Nat /\ Len(created') \in Nat
    BY DEF Core, TypeOK, SpoolTypeOK
  <1>1. CASE Idling \/ UNCHANGED vars
    <2>1. UNCHANGED <<replica, stage, todo, spool, created>>
      BY <1>1, IdlingFacts DEF vars, queue, store
    <2> QED BY <1>0, <2>1, CompleteFrame DEF DeletePending, Group
  <1>2. ASSUME NEW call \in fanout, NEW k \in 0 .. Len(Replicas), Enqueue(call, k)
        PROVE CompleteInv'
    <2>1. UNCHANGED <<replica, stage, todo>> /\ spool \subseteq spool'
      BY <1>2 DEF Enqueue
    <2>2. /\ \A j \in 1 .. Len(created) : created'[j] = created[j]
          /\ Len(created') = Len(created) + k /\ k \in Nat
      BY <1>2, EnqueueCreated, ReplicasAssumption DEF Core
    <2>3. Len(created) =< Len(created')
      BY <1>0, <2>2
    <2>4. \A j \in spool : created'[j] = created[j]
      BY <2>2 DEF Core, TypeOK, SpoolTypeOK
    <2>5. \A t \in Targets, r \in Repos : DeletePending(t, r) => DeletePending(t, r)'
      BY <2>1, <2>4 DEF DeletePending, Group
    <2> QED BY <1>0, <2>1, <2>2, <2>3, <2>5, CompleteFrame
  <1>3. ASSUME NEW j \in JobIds, ClaimDue(j) \/ Start(j) PROVE CompleteInv'
    <2>1. /\ UNCHANGED <<replica, created, spool, todo>>
          /\ \A i \in JobIds \ {j} : stage'[i] = stage[i]
          /\ stage'[j] \in {"claimed", "read", "drop"}
      BY <1>3 DEF ClaimDue, Start, store, Core, TypeOK, QueueTypeOK
    <2> QED BY <1>0, <2>1, CompleteFrame DEF DeletePending, Group
  <1>4. ASSUME NEW j \in JobIds, RunJob(j) PROVE CompleteInv'
    BY <1>4, CompleteRun
  <1>5. ASSUME NEW j \in JobIds, Ends(j) PROVE CompleteInv'
    <2>1. /\ UNCHANGED <<replica, created>> /\ j \in Busy
          /\ stage' = [stage EXCEPT ![j] = "idle"]
          /\ \A i \in JobIds \ {j} : todo'[i] = todo[i]
          /\ spool' = spool \/ (spool' = spool \ {j} /\ stage[j] = "ok")
      BY <1>5, EndsFacts DEF Busy
    <2>2. \A i \in JobIds : stage'[i] = "idle" \/ (stage'[i] = stage[i] /\ todo'[i] = todo[i])
      BY <2>1 DEF Core, TypeOK, QueueTypeOK
    <2>3. ASSUME NEW t \in Targets, NEW r \in Repos, DeletePending(t, r)
          PROVE  DeletePending(t, r)' \/ Complete(t, r)
      <3>1. PICK i \in spool : created[i].action = "delete_repo" /\ Group(i) = <<t, r>>
        BY <2>3 DEF DeletePending
      <3>2. CASE i = j /\ stage[j] = "ok"
        BY <2>1, <3>1, <3>2 DEF CompleteInv, CopyOK, Group, Complete, Copy
      <3>3. CASE ~(i = j /\ stage[j] = "ok")
        BY <2>1, <3>1, <3>3 DEF DeletePending, Group
      <3> QED BY <3>2, <3>3
    <2> QED BY <1>0, <2>1, <2>2, <2>3, CompleteFrame
  <1>6. CASE Exit \/ Crash
    <2>1. UNCHANGED <<replica, created, spool>> /\ stage' = [j \in JobIds |-> "idle"]
      BY <1>6 DEF Exit, Crash, ProcessGone
    <2> QED BY <1>0, <2>1, CompleteFrame DEF DeletePending, Group
  <1>7. ASSUME NEW bad \in SUBSET spool, LoadSpool(bad) PROVE CompleteInv'
    <2>1. UNCHANGED <<replica, stage, todo, spool, created>>
      BY <1>7 DEF LoadSpool, store
    <2> QED BY <1>0, <2>1, CompleteFrame DEF DeletePending, Group
  <1> QED BY <1>1, <1>2, <1>3, <1>4, <1>5, <1>6, <1>7, Cases

\* Blobs before manifest before ref, and one job per group at a time: unless a
\* delete of the repo is still pending there, a replica's main leads to a
\* manifest it holds with all its blobs, and the only manifests whose blobs it
\* may lack are those that a delete tried again left behind, unreferenced.
THEOREM ReplicasComplete == Spec => []ReplicaComplete
  <1>1. Init => OneInFlightPerGroup /\ NoStrandedJob /\ CompleteInv
    BY DEF Init, OneInFlightPerGroup, NoStrandedJob, CompleteInv, CopyOK, ReplicaComplete,
       RefsOK, Busy, Complete, Whole, EmptyCopy
  <1>2. CompleteInv => ReplicaComplete
    BY DEF CompleteInv
  <1> QED BY <1>1, <1>2, InitCore, CoreStep, OneInFlightStep, NoStrandedStep, CompleteStep, PTL
          DEF Spec
-----------------------------------------------------------------------------
(* Jobs of a group take effect in creation order *)

\* A job that is over has been applied, one that is not due has failed, and for a
\* job being worked on every older one of its group is over, failed or unread.
Passed == applied \cup failed \cup unread
OrderInv == /\ (1 .. Len(created)) \ spool \subseteq applied
            /\ jobs \ due \subseteq failed
            /\ \A j \in Busy : \A i \in 1 .. (j - 1) : Group(i) = Group(j) => i \in Passed

\* Steps that begin no work and take nothing back keep the order.
LEMMA OrderFrame ==
    ASSUME Core, OrderInv, UNCHANGED <<created, unread>>,
           Busy' \subseteq Busy, applied \subseteq applied', failed \subseteq failed',
           jobs' \ due' \subseteq failed', spool \ spool' \subseteq applied
    PROVE  OrderInv'
  <1>1. Passed \subseteq Passed'
    BY DEF Passed
  <1> QED BY <1>1 DEF OrderInv, Group

\* The order survives every step; the claim is the step that establishes it.
LEMMA OrderStep ==
    ASSUME Core, Core', NoStrandedJob, OrderInv, [Next]_vars
    PROVE  OrderInv'
  <1>1. CASE Idling \/ UNCHANGED vars
    <2>1. UNCHANGED <<created, unread, stage, applied, jobs, spool>>
      BY <1>1, IdlingFacts DEF vars, queue, past
    <2>2. UNCHANGED failed
      BY <1>1 DEF Idling, CreateRepo, DeleteRepo, Commit, Owe, ClaimNone, NextDelay, WakeUp,
         TimerFires, StopIdle, Release, RetryNow, Shutdown, Expire, vars, past
    <2>3. due \subseteq due'
      BY <1>1 DEF Idling, CreateRepo, DeleteRepo, Commit, Owe, ClaimNone, NextDelay, WakeUp,
         TimerFires, StopIdle, Release, RetryNow, Shutdown, Expire, vars, queue,
         Core, TypeOK, QueueTypeOK
    <2> QED BY <2>1, <2>2, <2>3, OrderFrame DEF OrderInv, Busy
  <1>2. ASSUME NEW call \in fanout, NEW k \in 0 .. Len(Replicas), Enqueue(call, k)
        PROVE OrderInv'
    <2>1. /\ UNCHANGED <<stage, applied, failed, unread>>
          /\ spool' = spool \cup (Len(created) + 1 .. Len(created) + k)
          /\ jobs' \ due' \subseteq jobs \ due
      BY <1>2 DEF Enqueue
    <2>2. /\ Len(created) \in Nat /\ k \in Nat /\ Len(created') = Len(created) + k
          /\ \A i \in 1 .. Len(created) : created'[i] = created[i]
      BY <1>2, EnqueueCreated, ReplicasAssumption DEF Core, TypeOK, SpoolTypeOK
    <2>3. (1 .. Len(created')) \ spool' \subseteq (1 .. Len(created)) \ spool
      BY <2>1, <2>2
    <2>4. ASSUME NEW j \in Busy, NEW i \in 1 .. (j - 1)
          PROVE  Group(i)' = Group(i) /\ Group(j)' = Group(j)
      <3>1. j \in 1 .. Len(created)
        BY <2>4, BusyJob DEF Busy
      <3>2. i \in 1 .. Len(created)
        BY <2>2, <2>4, <3>1
      <3> QED BY <2>2, <3>1, <3>2 DEF Group
    <2> QED BY <2>1, <2>3, <2>4 DEF OrderInv, Busy, Passed
  <1>3. ASSUME NEW j \in JobIds, ClaimDue(j) PROVE OrderInv'
    <2>1. /\ UNCHANGED <<created, applied, failed, unread, spool, jobs, due>>
          /\ stage' = [stage EXCEPT ![j] = "claimed"]
          /\ j \in jobs /\ Group(j) \notin inflight
          /\ \A i \in Candidates : j =< i
          /\ phase # "down"
      BY <1>3 DEF ClaimDue, Oldest, Candidates, past, Core, StageOK
    <2>2. j \in 1 .. Len(created) /\ Len(created) \in Nat
      BY <2>1 DEF Core, TypeOK, SpoolTypeOK, QueueTypeOK
    <2>3. ASSUME NEW i \in 1 .. (j - 1), Group(i) = Group(j)
          PROVE  i \in Passed
      <3>1. i \in 1 .. Len(created) /\ ~(j =< i)
        BY <2>2, <2>3
      <3>2. CASE i \notin spool
        BY <3>1, <3>2 DEF OrderInv, Passed
      <3>3. CASE i \in spool \ jobs
        BY <2>1, <3>3 DEF NoStrandedJob, Passed
      <3>4. CASE i \in jobs
        <4>1. i \notin due
          BY <2>1, <2>3, <3>1, <3>4 DEF Candidates
        <4> QED BY <3>4, <4>1 DEF OrderInv, Passed
      <3> QED BY <3>2, <3>3, <3>4
    <2>4. Busy' = Busy \cup {j}
      BY <2>1 DEF Busy, Core, TypeOK, QueueTypeOK
    <2> QED BY <2>1, <2>3, <2>4 DEF OrderInv, Passed, Group
  <1>4. ASSUME NEW j \in JobIds, Start(j) \/ RunJob(j) PROVE OrderInv'
    <2>1. Busy' = Busy
      BY <1>4, RunJobFacts DEF Start, Busy, Core, TypeOK, QueueTypeOK
    <2>2. UNCHANGED <<created, unread, jobs, spool>> /\ applied \subseteq applied'
      BY <1>4, RunJobFacts DEF Start, past
    <2>3. UNCHANGED <<due, failed>>
      BY <1>4 DEF Start, past, RunJob, ReadManifest, PutManifest, PointRef, DropBlobs,
         DropNothing, DropRest, CopyBlob, InRunJob
    <2> QED BY <2>1, <2>2, <2>3, OrderFrame DEF OrderInv
  <1>5. ASSUME NEW j \in JobIds, Ends(j) PROVE OrderInv'
    <2>1. UNCHANGED <<created, unread, applied>> /\ spool \ spool' \subseteq applied
      BY <1>5, EndsFacts
    <2>2. Busy' \subseteq Busy
      BY <1>5, EndsFacts DEF Busy, Core, TypeOK, QueueTypeOK
    <2>3. failed \subseteq failed' /\ jobs' \ due' \subseteq (jobs \ due) \cup failed'
      BY <1>5 DEF Ends, ExecuteOK, ExecuteErr, StopClaimed, past
    <2> QED BY <2>1, <2>2, <2>3, OrderFrame DEF OrderInv
  <1>6. CASE Exit \/ Crash
    BY <1>6 DEF Exit, Crash, ProcessGone, OrderInv, Busy
  <1>7. ASSUME NEW bad \in SUBSET spool, LoadSpool(bad) PROVE OrderInv'
    <2>1. Busy = {}
      BY <1>7 DEF LoadSpool, Core, StageOK
    <2> QED BY <1>7, <2>1 DEF LoadSpool, OrderInv, Busy
  <1> QED BY <1>1, <1>2, <1>3, <1>4, <1>5, <1>6, <1>7, Cases

\* A job takes effect only while it is being worked on, so in its group's order.
LEMMA OrderedEffects ==
    ASSUME Core, OrderInv, [Next]_vars, NEW j \in applied' \ applied,
           NEW i \in 1 .. (j - 1), Group(i) = Group(j)
    PROVE  i \in applied \cup failed \cup unread
  <1> SUFFICES j \in Busy
    BY DEF OrderInv, Passed
  <1>1. CASE Idling \/ UNCHANGED vars
    BY <1>1, IdlingFacts DEF vars, past
  <1>2. CASE \E call \in fanout, k \in 0 .. Len(Replicas) : Enqueue(call, k)
    BY <1>2 DEF Enqueue
  <1>3. ASSUME NEW x \in JobIds, ClaimDue(x) \/ Start(x) PROVE FALSE
    BY <1>3 DEF ClaimDue, Start, past
  <1>4. ASSUME NEW x \in JobIds, RunJob(x) PROVE j \in Busy
    BY <1>4, RunJobFacts DEF Busy
  <1>5. ASSUME NEW x \in JobIds, Ends(x) PROVE FALSE
    BY <1>5, EndsFacts
  <1>6. CASE Exit \/ Crash \/ \E bad \in SUBSET spool : LoadSpool(bad)
    BY <1>6 DEF Exit, Crash, ProcessGone, LoadSpool
  <1> QED BY <1>1, <1>2, <1>3, <1>4, <1>5, <1>6, Cases

\* claimDue's sort and its inflight check give each (target, repo) its creation
\* order: nothing takes effect before an older job of its group has, unless an
\* attempt of that one failed or its spool file could not be read.
THEOREM OrderKept == Spec => CreationOrder
  <1>1. Init => NoStrandedJob /\ OrderInv
    BY DEF Init, NoStrandedJob, OrderInv, Busy
  <1>2. ASSUME Core, OrderInv, [Next]_vars
        PROVE  [\A j \in applied' \ applied : \A i \in 1 .. (j - 1) :
                   Group(i) = Group(j) => i \in applied \cup failed \cup unread]_vars
    BY <1>2, OrderedEffects
  <1> QED BY <1>1, <1>2, InitCore, CoreStep, NoStrandedStep, OrderStep, PTL
          DEF Spec, CreationOrder

-----------------------------------------------------------------------------
(* The dispatcher's sleep *)

\* A sleeping dispatcher whom nobody is about to wake knows all the jobs of idle
\* groups, due or not: NoMissedWakeup alone does not survive a job becoming due.
SleepInv ==
    disp = "sleep" /\ wake = 0 /\ releasing = 0 =>
        \A j \in jobs \ armed : Group(j) \in inflight \/ created[j].repo \in tainted

\* Steps that add no job and free no group, and leave the dispatcher asleep.
LEMMA SleepFrame ==
    ASSUME SleepInv, UNCHANGED <<created, jobs, inflight>>, tainted \subseteq tainted',
           disp' = "sleep" /\ wake' = 0 /\ releasing' = 0 =>
              disp = "sleep" /\ wake = 0 /\ releasing = 0 /\ armed' = armed
    PROVE  SleepInv'
  BY DEF SleepInv, Group

\* Every step that could surprise a sleeping dispatcher wakes it or is about to.
LEMMA SleepStep ==
    ASSUME Core, SleepInv, [Next]_vars
    PROVE  SleepInv'
  <1>1. CASE Idling
    <2>0. UNCHANGED <<created, jobs, inflight>>
      BY <1>1, IdlingFacts
    <2>1. ASSUME NEW r \in Repos, CreateRepo(r) \/ DeleteRepo(r) PROVE SleepInv'
      BY <2>0, <2>1, SleepFrame DEF CreateRepo, DeleteRepo, Owe, queue, loop
    <2>2. ASSUME NEW r \in Repos, NEW c \in Commits \ {InitCommit}, Commit(r, c) PROVE SleepInv'
      BY <2>0, <2>2, SleepFrame DEF Commit, Owe, queue, loop
    <2>3. CASE ClaimNone \/ WakeUp \/ TimerFires \/ StopIdle
      <3>1. disp' # "sleep"
        BY <2>3 DEF ClaimNone, WakeUp, TimerFires, StopIdle
      <3> QED BY <3>1 DEF SleepInv
    <2>4. CASE NextDelay
      <3>1. armed' = {j \in jobs : Group(j) \notin inflight}
        BY <2>4 DEF NextDelay
      <3> QED BY <2>0, <3>1 DEF SleepInv, Group
    <2>5. CASE Release \/ RetryNow
      <3>1. wake' = 1
        BY <2>5 DEF Release, RetryNow, Kick
      <3> QED BY <3>1 DEF SleepInv
    <2>6. CASE Shutdown
      BY <2>0, <2>6, SleepFrame DEF Shutdown, queue, loop, past
    <2>7. ASSUME NEW j \in JobIds, Expire(j) PROVE SleepInv'
      BY <2>0, <2>7, SleepFrame DEF Expire, loop, past
    <2> QED BY <1>1, <2>1, <2>2, <2>3, <2>4, <2>5, <2>6, <2>7 DEF Idling
  <1>2. CASE UNCHANGED vars
    BY <1>2, SleepFrame DEF vars, queue, loop, past
  <1>3. ASSUME NEW call \in fanout, NEW k \in 0 .. Len(Replicas), Enqueue(call, k) PROVE SleepInv'
    <2>1. /\ created' \in Seq(Job) /\ Len(created') = Len(created) + k
          /\ \A i \in 1 .. Len(created) : created'[i] = created[i]
      BY <1>3, EnqueueCreated DEF Core
    <2>2. CASE k = Len(Replicas)
      <3>1. wake' = 1 BY <1>3, <2>2 DEF Enqueue, Kick
      <3> QED BY <3>1 DEF SleepInv
    <2>3. CASE k # Len(Replicas)
      <3>1. /\ jobs' = jobs \cup (Len(created) + 1 .. Len(created) + k)
            /\ tainted' = tainted \cup {call.repo}
            /\ UNCHANGED <<wake, disp, armed, releasing, inflight>>
            /\ created' = created \o [i \in 1 .. k |-> JobFor(call, Replicas[i])]
        BY <1>3, <2>3 DEF Enqueue
      <3>2. jobs \subseteq 1 .. Len(created) /\ Len(created) \in Nat /\ k \in Nat
        BY ReplicasAssumption DEF Core, TypeOK, QueueTypeOK, SpoolTypeOK
      <3>3. \A j \in jobs : created'[j] = created[j]
        BY <2>1, <3>2
      <3>4. ASSUME NEW i \in 1 .. k PROVE created'[Len(created) + i].repo = call.repo
        <4>1. [x \in 1 .. k |-> JobFor(call, Replicas[x])] \in [1 .. k -> Job]
          BY <1>3, NewJobs, EnqueueCreated DEF Core
        <4>2. created'[Len(created) + i] = JobFor(call, Replicas[i])
          BY <3>1, <3>2, <4>1, AppendJobs DEF Core, TypeOK, SpoolTypeOK
        <4> QED BY <4>2 DEF JobFor
      <3>5. \A j \in Len(created) + 1 .. Len(created) + k : created'[j].repo = call.repo
        <4> SUFFICES ASSUME NEW j \in Len(created) + 1 .. Len(created) + k
                     PROVE  created'[j].repo = call.repo
          OBVIOUS
        <4>1. j - Len(created) \in 1 .. k /\ Len(created) + (j - Len(created)) = j
          BY <3>2
        <4> QED BY <3>4, <4>1
      <3> QED BY <3>1, <3>3, <3>5 DEF SleepInv, Group
    <2> QED BY <2>2, <2>3
  <1>4. ASSUME NEW j \in JobIds, ClaimDue(j) \/ Start(j) PROVE SleepInv'
    <2>1. disp' # "sleep"
      BY <1>4 DEF ClaimDue, Start
    <2> QED BY <2>1 DEF SleepInv
  <1>5. ASSUME NEW j \in JobIds, RunJob(j) PROVE SleepInv'
    <2>1. UNCHANGED <<created, jobs, inflight>>
      BY <1>5, RunJobFacts
    <2>2. UNCHANGED <<disp, wake, armed, releasing, tainted>>
      BY <1>5 DEF RunJob, ReadManifest, PutManifest, PointRef, DropBlobs, DropNothing, DropRest, CopyBlob, InRunJob, loop
    <2> QED BY <2>1, <2>2, SleepFrame
  <1>6. ASSUME NEW j \in JobIds, Ends(j) PROVE SleepInv'
    <2>1. releasing \in Nat BY DEF Core, TypeOK, QueueTypeOK
    <2>2. releasing' # 0 \/ disp' # "sleep"
      BY <1>6, <2>1 DEF Ends, ExecuteOK, ExecuteErr, StopClaimed
    <2> QED BY <2>2 DEF SleepInv
  <1>7. CASE Exit \/ Crash
    BY <1>7 DEF Exit, Crash, ProcessGone, SleepInv
  <1>8. ASSUME NEW bad \in SUBSET spool, LoadSpool(bad) PROVE SleepInv'
    BY <1>8 DEF LoadSpool, SleepInv
  <1> QED BY <1>1, <1>2, <1>3, <1>4, <1>5, <1>6, <1>7, <1>8, Cases

\* No lost wakeup: while the dispatcher waits in its select with an empty wake
\* channel and no worker about to kick it, its timer knows every runnable job.
THEOREM WakeupsNotMissed == Spec => []NoMissedWakeup
  <1>1. Init => SleepInv
    BY DEF Init, SleepInv
  <1>2. SleepInv => NoMissedWakeup
    BY DEF SleepInv, NoMissedWakeup, Candidates
  <1> QED BY <1>1, <1>2, InitCore, CoreStep, SleepStep, PTL DEF Spec

-----------------------------------------------------------------------------
(* A drained queue leaves every replica where the primary is *)

\* A bounded set of numbers has a greatest one.
LEMMA GreatestNat ==
    ASSUME NEW n \in Nat, NEW T \in SUBSET (1 .. n), T # {}
    PROVE  \E m \in T : \A k \in T : k =< m
  <1> DEFINE D == {n - x : x \in T}
  <1>0. \A x \in T : x \in Nat /\ x =< n
    OBVIOUS
  <1>1. D \subseteq Nat /\ D # {}
    <2>1. \A x \in T : n - x \in Nat
      BY <1>0
    <2> QED BY <2>1
  <1>2. \E x \in D : \A y \in D : ~ (<<y, x>> \in OpToRel(<, Nat))
    <2> HIDE DEF D
    <2> QED BY <1>1, NatLessThanWellFounded, WFMin, Zenon
  <1>3. \A x, y \in Nat : x < y => <<x, y>> \in OpToRel(<, Nat)
    BY DEF OpToRel
  <1>4. \E R : /\ \E x \in D : \A y \in D : ~ (<<y, x>> \in R)
               /\ \A x, y \in Nat : x < y => <<x, y>> \in R
    <2> HIDE DEF D
    <2> QED BY <1>2, <1>3, Zenon
  <1>5. PICK d \in D : \A y \in D : ~ (y < d)
    <2> HIDE DEF D
    <2>1. PICK R : /\ \E x \in D : \A y \in D : ~ (<<y, x>> \in R)
                   /\ \A x, y \in Nat : x < y => <<x, y>> \in R
      BY <1>4, Zenon
    <2>2. PICK x \in D : \A y \in D : ~ (<<y, x>> \in R)
      BY <2>1, Zenon
    <2>3. \A y \in D : ~ (y < x)
      BY <1>1, <2>1, <2>2
    <2> QED BY <2>3
  <1>6. PICK m \in T : d = n - m
    BY <1>5
  <1>7. ASSUME NEW k \in T PROVE k =< m
    <2>1. ~ (n - k < n - m)
      BY <1>5, <1>6
    <2> QED BY <1>0, <2>1
  <1> QED BY <1>7

\* The newest job of a group among those of S.
Newest(j, S, t, r) == /\ j \in S /\ Group(j) = <<t, r>>
                      /\ \A k \in S : Group(k) = <<t, r>> => k =< j

\* A group of which some job is in S has a newest one there.
LEMMA NewestExists ==
    ASSUME Core, NEW S \in SUBSET (1 .. Len(created)), NEW t, NEW r,
           \E j \in S : Group(j) = <<t, r>>
    PROVE  \E j \in S : Newest(j, S, t, r)
  <1> DEFINE T == {j \in S : Group(j) = <<t, r>>}
  <1>1. Len(created) \in Nat
    BY DEF Core, TypeOK, SpoolTypeOK
  <1>2. T \in SUBSET (1 .. Len(created)) /\ T # {}
    OBVIOUS
  <1>3. PICK m \in T : \A k \in T : k =< m
    <2> HIDE DEF T
    <2> QED BY <1>1, <1>2, GreatestNat
  <1> QED BY <1>3 DEF Newest

\* Of a repo whose writes reach the queue in order: the call still owed is for the
\* primary's present state, and when none is owed the newest job of each group is.
OwedOK ==
    \A r \in Repos \ tainted :
        /\ \A x \in fanout : x.repo = r => x.commit = src[r].main
        /\ (\A x \in fanout : x.repo # r) => \A t \in Targets :
              /\ \A j \in 1 .. Len(created) :
                    Newest(j, 1 .. Len(created), t, r) => created[j].commit = src[r].main
              /\ (\A j \in 1 .. Len(created) : Group(j) # <<t, r>>) => src[r].main = None

\* Nothing has failed: no attempt at a job, no access to the spool.
Calm == failed = {} /\ spent["io"] = 0

\* No job of a group is begun or applied while an older one is still spooled.
OrderedOK ==
    \A i \in spool, j \in 1 .. Len(created) :
        i < j /\ Group(i) = Group(j) => j \notin applied \cup Busy

\* A replica's main is where the newest applied job of its group has put it, or a
\* delete that is not over yet has removed it.
MainAt(t, r, main) ==
    /\ \A j \in applied : Newest(j, applied, t, r)
          => main = IF created[j].action = "commit" THEN j ELSE 0
    /\ (\A j \in applied : Group(j) # <<t, r>>) => main = 0
MainOK ==
    \A t \in Targets, r \in Repos :
        \/ MainAt(t, r, replica[t][r].main)
        \/ /\ replica[t][r].main = 0
           /\ \E i \in spool \ applied : Group(i) = <<t, r>>

CalmInv == Calm => (phase # "down" => jobs = spool) /\ OrderedOK /\ MainOK

\* Steps that touch neither the primary nor the calls it owes.
LEMMA OwedFrame ==
    ASSUME OwedOK, UNCHANGED <<src, fanout, created, tainted>>
    PROVE  OwedOK'
  BY DEF OwedOK, Newest, Group

\* A primary write owes a call for the state it leaves behind.
LEMMA OwedWrite ==
    ASSUME Core, OwedOK, NEW call \in Calls, Owe(call),
           src'[call.repo].main = call.commit,
           \A r \in Repos : r # call.repo => src'[r] = src[r]
    PROVE  OwedOK'
  <1>1. /\ fanout' = fanout \cup {call} /\ created' = created
        /\ tainted' = IF \E x \in fanout : x.repo = call.repo
                      THEN tainted \cup {call.repo} ELSE tainted
    BY DEF Owe
  <1> SUFFICES ASSUME NEW r \in Repos \ tainted'
               PROVE  /\ \A x \in fanout' : x.repo = r => x.commit = src'[r].main
                      /\ (\A x \in fanout' : x.repo # r) => \A t \in Targets :
                            /\ \A j \in 1 .. Len(created) :
                                  Newest(j, 1 .. Len(created), t, r)
                                     => created[j].commit = src'[r].main
                            /\ (\A j \in 1 .. Len(created) : Group(j) # <<t, r>>)
                                  => src'[r].main = None
    BY <1>1 DEF OwedOK, Newest, Group
  <1>2. r \in Repos \ tainted
    BY <1>1
  <1>3. CASE r # call.repo
    BY <1>1, <1>2, <1>3 DEF OwedOK
  <1>4. CASE r = call.repo
    BY <1>1, <1>2, <1>4
  <1> QED BY <1>3, <1>4

\* The jobs enqueue adds are for the call's repo and commit, one for each target
\* when all of them could be persisted.
LEMMA EnqueueNew ==
    ASSUME Core, NEW call \in fanout, NEW k \in 0 .. Len(Replicas), Enqueue(call, k)
    PROVE  /\ \A j \in Len(created) + 1 .. Len(created) + k :
                 created'[j].repo = call.repo /\ created'[j].commit = call.commit
           /\ k = Len(Replicas) => \A t \in Targets :
                 \E j \in Len(created) + 1 .. Len(created) + k : created'[j].target = t
  <1>1. Len(created) \in Nat /\ k \in Nat
    BY ReplicasAssumption DEF Core, TypeOK, SpoolTypeOK
  <1>2. ASSUME NEW i \in 1 .. k PROVE created'[Len(created) + i] = JobFor(call, Replicas[i])
    <2>1. [x \in 1 .. k |-> JobFor(call, Replicas[x])] \in [1 .. k -> Job]
      BY NewJobs, EnqueueCreated DEF Core
    <2> QED BY <1>1, <2>1, AppendJobs DEF Core, TypeOK, SpoolTypeOK, Enqueue
  <1>3. ASSUME NEW j \in Len(created) + 1 .. Len(created) + k
        PROVE  created'[j].repo = call.repo /\ created'[j].commit = call.commit
    <2>1. j - Len(created) \in 1 .. k /\ Len(created) + (j - Len(created)) = j
      BY <1>1
    <2>2. created'[Len(created) + (j - Len(created))] = JobFor(call, Replicas[j - Len(created)])
      BY <1>2, <2>1, Zenon
    <2>3. created'[j] = JobFor(call, Replicas[j - Len(created)])
      BY <2>1, <2>2
    <2> QED BY <2>3 DEF JobFor
  <1>4. ASSUME k = Len(Replicas), NEW t \in Targets
        PROVE  \E j \in Len(created) + 1 .. Len(created) + k : created'[j].target = t
    <2>1. PICK i \in 1 .. k : t = Replicas[i]
      BY <1>4 DEF Targets
    <2>2. Len(created) + i \in Len(created) + 1 .. Len(created) + k
      BY <1>1
    <2>3. created'[Len(created) + i] = JobFor(call, Replicas[i])
      BY <1>2, Zenon
    <2>4. created'[Len(created) + i].target = t
      BY <2>1, <2>3 DEF JobFor
    <2> QED BY <2>2, <2>4
  <1> QED BY <1>3, <1>4

\* enqueue turns the call that is owed into the newest job of each group.
LEMMA OwedEnqueue ==
    ASSUME Core, OwedOK, NEW call \in fanout, NEW k \in 0 .. Len(Replicas), Enqueue(call, k)
    PROVE  OwedOK'
  <1>1. /\ fanout' = fanout \ {call} /\ UNCHANGED src /\ tainted \subseteq tainted'
        /\ k # Len(Replicas) => call.repo \in tainted'
    BY DEF Enqueue
  <1>2. /\ Len(created) \in Nat /\ k \in Nat /\ Len(created') = Len(created) + k
        /\ \A i \in 1 .. Len(created) : created'[i] = created[i]
    BY EnqueueCreated, ReplicasAssumption DEF Core, TypeOK, SpoolTypeOK
  <1> DEFINE New == Len(created) + 1 .. Len(created) + k
  <1>3. /\ \A j \in New : created'[j].repo = call.repo /\ created'[j].commit = call.commit
        /\ k = Len(Replicas) => \A t \in Targets : \E j \in New : created'[j].target = t
    BY EnqueueNew
  <1>4. 1 .. Len(created') = (1 .. Len(created)) \cup New
    BY <1>2
  <1>5. \A i \in 1 .. Len(created), j \in New : ~ (j =< i)
    BY <1>2
  <1> HIDE DEF New
  <1>6. \A i \in 1 .. Len(created) : Group(i)' = Group(i)
    BY <1>2 DEF Group
  <1> SUFFICES ASSUME NEW r \in Repos \ tainted'
               PROVE  /\ \A x \in fanout' : x.repo = r => x.commit = src'[r].main
                      /\ (\A x \in fanout' : x.repo # r) => \A t \in Targets :
                            /\ \A j \in 1 .. Len(created') :
                                  Newest(j, 1 .. Len(created), t, r)'
                                     => created'[j].commit = src'[r].main
                            /\ (\A j \in 1 .. Len(created') : Group(j)' # <<t, r>>)
                                  => src'[r].main = None
    BY DEF OwedOK, Newest
  <1>7. r \in Repos \ tainted
    BY <1>1
  <1>8. \A x \in fanout' : x.repo = r => x.commit = src'[r].main
    BY <1>1, <1>7 DEF OwedOK
  <1>9. ASSUME \A x \in fanout' : x.repo # r, NEW t \in Targets
        PROVE  /\ \A j \in 1 .. Len(created') : Newest(j, 1 .. Len(created), t, r)'
                     => created'[j].commit = src'[r].main
               /\ (\A j \in 1 .. Len(created') : Group(j)' # <<t, r>>) => src'[r].main = None
    <2>1. CASE r # call.repo
      <3>1. \A x \in fanout : x.repo # r
        BY <1>1, <1>9, <2>1
      <3>2. \A j \in New : Group(j)' # <<t, r>>
        BY <1>3, <2>1 DEF Group
      <3>3. /\ \A j \in 1 .. Len(created) : Newest(j, 1 .. Len(created), t, r)
                  => created[j].commit = src[r].main
            /\ (\A j \in 1 .. Len(created) : Group(j) # <<t, r>>) => src[r].main = None
        BY <1>7, <3>1 DEF OwedOK
      <3>4. ASSUME NEW j \in 1 .. Len(created'), Newest(j, 1 .. Len(created), t, r)'
            PROVE  created'[j].commit = src'[r].main
        <4>1. Group(j)' = <<t, r>> /\ \A i \in 1 .. Len(created') : Group(i)' = <<t, r>> => i =< j
          BY <3>4 DEF Newest
        <4>2. j \in 1 .. Len(created)
          BY <1>4, <3>2, <4>1
        <4>3. Newest(j, 1 .. Len(created), t, r)
          BY <1>4, <1>6, <4>1, <4>2 DEF Newest
        <4> QED BY <1>1, <1>2, <3>3, <4>2, <4>3
      <3>5. ASSUME \A j \in 1 .. Len(created') : Group(j)' # <<t, r>>
            PROVE  src'[r].main = None
        BY <1>1, <1>4, <1>6, <3>3, <3>5
      <3> QED BY <3>4, <3>5
    <2>2. CASE r = call.repo
      <3>1. k = Len(Replicas) /\ call.commit = src[r].main
        BY <1>1, <1>7, <2>2 DEF OwedOK
      <3>2. PICK i \in New : created'[i].target = t
        BY <1>3, <3>1
      <3>3. i \in 1 .. Len(created') /\ Group(i)' = <<t, r>>
        BY <1>3, <1>4, <2>2, <3>2 DEF Group
      <3>4. ASSUME NEW j \in 1 .. Len(created'), Newest(j, 1 .. Len(created), t, r)'
            PROVE  created'[j].commit = src'[r].main
        <4>1. i =< j
          BY <3>3, <3>4 DEF Newest
        <4>2. j \in New
          BY <1>4, <1>5, <4>1
        <4> QED BY <1>1, <1>3, <3>1, <4>2
      <3> QED BY <3>3, <3>4
    <2> QED BY <2>1, <2>2
  <1> QED BY <1>8, <1>9

\* Every step keeps what is owed in agreement with the primary.
LEMMA OwedStep ==
    ASSUME Core, OwedOK, [Next]_vars
    PROVE  OwedOK'
  <1>1. CASE Idling
    <2>1. ASSUME NEW r \in Repos, CreateRepo(r) PROVE OwedOK'
      <3>1. CommitCall(r, InitCommit) \in Calls
        BY CommitsAssumption DEF CommitCall, Calls
      <3>2. /\ src' = [src EXCEPT ![r] = [commits |-> {InitCommit}, main |-> InitCommit]]
            /\ Owe(CommitCall(r, InitCommit))
        BY <2>1 DEF CreateRepo
      <3>3. /\ src'[r].main = InitCommit
            /\ \A q \in Repos : q # r => src'[q] = src[q]
        BY <3>2 DEF Core, TypeOK, StoreTypeOK
      <3>4. CommitCall(r, InitCommit).repo = r /\ CommitCall(r, InitCommit).commit = InitCommit
        BY DEF CommitCall
      <3> QED BY <3>1, <3>2, <3>3, <3>4, OwedWrite
    <2>2. ASSUME NEW r \in Repos, NEW c \in Commits \ {InitCommit}, Commit(r, c) PROVE OwedOK'
      <3>1. CommitCall(r, c) \in Calls
        BY DEF CommitCall, Calls
      <3>2. /\ src' = [src EXCEPT ![r] = [commits |-> @.commits \cup {c}, main |-> c]]
            /\ Owe(CommitCall(r, c))
        BY <2>2 DEF Commit
      <3>3. /\ src'[r].main = c
            /\ \A q \in Repos : q # r => src'[q] = src[q]
        BY <3>2 DEF Core, TypeOK, StoreTypeOK
      <3>4. CommitCall(r, c).repo = r /\ CommitCall(r, c).commit = c
        BY DEF CommitCall
      <3> QED BY <3>1, <3>2, <3>3, <3>4, OwedWrite
    <2>3. ASSUME NEW r \in Repos, DeleteRepo(r) PROVE OwedOK'
      <3>1. DeleteCall(r) \in Calls
        BY DEF DeleteCall, Calls
      <3>2. src' = [src EXCEPT ![r] = EmptyRepo] /\ Owe(DeleteCall(r))
        BY <2>3 DEF DeleteRepo
      <3>3. /\ src'[r].main = None
            /\ \A q \in Repos : q # r => src'[q] = src[q]
        BY <3>2 DEF Core, TypeOK, StoreTypeOK, EmptyRepo
      <3>4. DeleteCall(r).repo = r /\ DeleteCall(r).commit = None
        BY DEF DeleteCall
      <3> QED BY <3>1, <3>2, <3>3, <3>4, OwedWrite
    <2>4. CASE \/ ClaimNone \/ NextDelay \/ WakeUp \/ TimerFires \/ StopIdle
               \/ Release \/ RetryNow \/ Shutdown \/ \E j \in JobIds : Expire(j)
      <3>1. UNCHANGED <<src, fanout, created, tainted>>
        BY <2>4 DEF ClaimNone, NextDelay, WakeUp, TimerFires, StopIdle, Release, RetryNow,
           Shutdown, Expire, store, past
      <3> QED BY <3>1, OwedFrame
    <2> QED BY <1>1, <2>1, <2>2, <2>3, <2>4 DEF Idling
  <1>2. CASE \E call \in fanout, k \in 0 .. Len(Replicas) : Enqueue(call, k)
    BY <1>2, OwedEnqueue
  <1>3. ASSUME NEW j \in JobIds, ClaimDue(j) \/ Start(j) \/ RunJob(j) \/ Ends(j) PROVE OwedOK'
    <2>1. CASE ClaimDue(j) \/ Start(j) \/ Ends(j)
      <3>1. UNCHANGED <<src, fanout, created, tainted>>
        BY <2>1 DEF ClaimDue, Start, Ends, ExecuteOK, ExecuteErr, StopClaimed, store, past
      <3> QED BY <3>1, OwedFrame
    <2>2. CASE RunJob(j)
      <3>1. UNCHANGED <<src, fanout, created, tainted>>
        BY <2>2 DEF RunJob, ReadManifest, PutManifest, PointRef, DropBlobs, DropNothing, DropRest,
           CopyBlob, InRunJob
      <3> QED BY <3>1, OwedFrame
    <2> QED BY <1>3, <2>1, <2>2
  <1>4. CASE Exit \/ Crash
    <2>1. /\ fanout' = {} /\ tainted' = tainted \cup {x.repo : x \in fanout}
          /\ UNCHANGED <<src, created>>
      BY <1>4 DEF Exit, Crash, ProcessGone
    <2>2. \A r \in Repos \ tainted' : r \in Repos \ tainted /\ \A x \in fanout : x.repo # r
      BY <2>1
    <2> QED BY <2>1, <2>2 DEF OwedOK, Newest, Group
  <1>5. CASE (\E bad \in SUBSET spool : LoadSpool(bad)) \/ UNCHANGED vars
    <2>1. UNCHANGED <<src, fanout, created, tainted>>
      BY <1>5 DEF LoadSpool, vars, store, past
    <2> QED BY <2>1, OwedFrame
  <1> QED BY <1>1, <1>2, <1>3, <1>4, <1>5, Cases

\* A failure is never forgotten.
LEMMA CalmBefore ==
    ASSUME Core, [Next]_vars, Calm'
    PROVE  Calm
  <1>0. spent \in [Limited -> Nat]
    BY DEF Core, TypeOK, LoopTypeOK
  <1>1. ASSUME NEW w \in Limited, Spend(w) PROVE spent'["io"] = 0 => spent["io"] = 0
    BY <1>0, <1>1 DEF Spend, Limited
  <1>2. spent' = spent \/ \E w \in Limited : Spend(w)
    <2>1. {"write", "delete", "failure", "io", "crash"} \subseteq Limited
      BY DEF Limited
    <2>2. CASE Idling \/ UNCHANGED vars
      BY <2>1, <2>2 DEF Idling, CreateRepo, DeleteRepo, Commit, ClaimNone, NextDelay, WakeUp,
         TimerFires, StopIdle, Release, RetryNow, Shutdown, Expire, vars
    <2>3. CASE \E call \in fanout, k \in 0 .. Len(Replicas) : Enqueue(call, k)
      BY <2>1, <2>3 DEF Enqueue
    <2>4. ASSUME NEW j \in JobIds, ClaimDue(j) \/ Start(j) \/ Ends(j)
          PROVE  spent' = spent \/ \E w \in Limited : Spend(w)
      BY <2>1, <2>4 DEF ClaimDue, Start, Ends, ExecuteOK, ExecuteErr, StopClaimed
    <2>5. ASSUME NEW j \in JobIds, RunJob(j) PROVE spent' = spent
      BY <2>5 DEF RunJob, ReadManifest, PutManifest, PointRef, DropBlobs, DropNothing, DropRest,
         CopyBlob, InRunJob
    <2>6. CASE Exit \/ Crash \/ \E bad \in SUBSET spool : LoadSpool(bad)
      BY <2>1, <2>6 DEF Exit, Crash, LoadSpool
    <2> QED BY <2>2, <2>3, <2>4, <2>5, <2>6, Cases
  <1>3. failed \subseteq failed'
    <2>1. CASE Idling \/ UNCHANGED vars
      BY <2>1 DEF Idling, CreateRepo, DeleteRepo, Commit, Owe, ClaimNone, NextDelay, WakeUp,
         TimerFires, StopIdle, Release, RetryNow, Shutdown, Expire, vars, past
    <2>2. CASE \E call \in fanout, k \in 0 .. Len(Replicas) : Enqueue(call, k)
      BY <2>2 DEF Enqueue
    <2>3. ASSUME NEW j \in JobIds, ClaimDue(j) \/ Start(j) \/ Ends(j) PROVE failed \subseteq failed'
      BY <2>3 DEF ClaimDue, Start, Ends, ExecuteOK, ExecuteErr, StopClaimed, past
    <2>4. ASSUME NEW j \in JobIds, RunJob(j) PROVE failed \subseteq failed'
      BY <2>4 DEF RunJob, ReadManifest, PutManifest, PointRef, DropBlobs, DropNothing, DropRest,
         CopyBlob, InRunJob
    <2>5. CASE Exit \/ Crash \/ \E bad \in SUBSET spool : LoadSpool(bad)
      BY <2>5 DEF Exit, Crash, ProcessGone, LoadSpool
    <2> QED BY <2>1, <2>2, <2>3, <2>4, <2>5, Cases
  <1> QED BY <1>1, <1>2, <1>3 DEF Calm

\* Steps that begin no work, apply nothing and spool nothing.
LEMMA CalmFrame ==
    ASSUME OrderedOK, MainOK, UNCHANGED <<created, applied, replica>>,
           Busy' \subseteq Busy, spool' \subseteq spool, spool \ applied \subseteq spool'
    PROVE  OrderedOK' /\ MainOK'
  <1>1. OrderedOK'
    BY DEF OrderedOK, Group
  <1>2. MainOK'
    BY DEF MainOK, MainAt, Newest, Group
  <1> QED BY <1>1, <1>2

\* The step that applies job x: no newer job of its group was applied before, so
\* main is where x puts it.
LEMMA ApplyMain ==
    ASSUME Core, OrderedOK, MainOK, NEW x \in Busy, x \in spool, NEW copy, SetCopy(x, copy),
           copy.main = (IF created[x].action = "commit" THEN x ELSE 0),
           applied' = applied \cup {x}, UNCHANGED <<created, spool>>
    PROVE  MainOK'
  <1>1. x \in 1 .. Len(created) /\ applied \subseteq 1 .. Len(created) /\ Len(created) \in Nat
    BY BusyJob DEF Busy, Core, TypeOK, SpoolTypeOK
  <1>2. \A k \in applied : Group(k) = Group(x) => k =< x
    BY <1>1 DEF OrderedOK
  <1>3. /\ replica'[created[x].target][created[x].repo] = copy
        /\ \A t \in Targets, r \in Repos : <<t, r>> # Group(x) => replica'[t][r] = replica[t][r]
    BY <1>1, SetCopyFrame
  <1> SUFFICES ASSUME NEW t \in Targets, NEW r \in Repos,
                      <<t, r>> = Group(x) \/ MainAt(t, r, replica[t][r].main)
               PROVE  MainAt(t, r, replica[t][r].main)'
    <2>1. \A t \in Targets, r \in Repos :
             \/ <<t, r>> = Group(x)
             \/ MainAt(t, r, replica[t][r].main)
             \/ replica'[t][r].main = 0 /\ \E i \in spool' \ applied' : Group(i)' = <<t, r>>
      <3> SUFFICES ASSUME NEW t \in Targets, NEW r \in Repos, <<t, r>> # Group(x),
                          ~MainAt(t, r, replica[t][r].main)
                   PROVE  /\ replica'[t][r].main = 0
                          /\ \E i \in spool' \ applied' : Group(i)' = <<t, r>>
        OBVIOUS
      <3>1. replica[t][r].main = 0 /\ \E i \in spool \ applied : Group(i) = <<t, r>>
        BY DEF MainOK
      <3>2. PICK i \in spool \ applied : Group(i) = <<t, r>>
        BY <3>1
      <3>3. i \in spool' \ applied' /\ Group(i)' = Group(i)
        BY <3>2 DEF Group
      <3> QED BY <1>3, <3>1, <3>2, <3>3
    <2> QED BY <2>1 DEF MainOK
  <1> SUFFICES /\ \A j \in applied' : Newest(j, applied', t, r)
                    => replica'[t][r].main = IF created[j].action = "commit" THEN j ELSE 0
               /\ (\A j \in applied' : Group(j) # <<t, r>>) => replica'[t][r].main = 0
    BY DEF MainAt, Newest, Group
  <1>4. CASE <<t, r>> = Group(x)
    <2>1. replica'[t][r] = copy
      BY <1>3, <1>4 DEF Group
    <2>2. ASSUME NEW j \in applied', Newest(j, applied', t, r) PROVE j = x
      <3>1. x =< j /\ (j = x \/ j \in applied) /\ Group(j) = Group(x)
        BY <1>4, <2>2 DEF Newest
      <3>2. j =< x /\ j \in Nat /\ x \in Nat
        BY <1>1, <1>2, <3>1
      <3> QED BY <3>1, <3>2
    <2> QED BY <1>4, <2>1, <2>2
  <1>5. CASE <<t, r>> # Group(x)
    <2>1. replica'[t][r] = replica[t][r]
      BY <1>3, <1>5
    <2>2. \A j \in applied' : Newest(j, applied', t, r) => j \in applied /\ Newest(j, applied, t, r)
      BY <1>5 DEF Newest
    <2>3. \A j \in applied' : Newest(j, applied', t, r)
             => replica'[t][r].main = IF created[j].action = "commit" THEN j ELSE 0
      <3>1. \A j \in applied : Newest(j, applied, t, r)
               => replica[t][r].main = IF created[j].action = "commit" THEN j ELSE 0
        BY <1>5 DEF MainAt
      <3> QED BY <2>1, <2>2, <3>1
    <2>4. (\A j \in applied' : Group(j) # <<t, r>>) => replica'[t][r].main = 0
      BY <1>5, <2>1 DEF MainAt
    <2> QED BY <2>3, <2>4
  <1> QED BY <1>4, <1>5

\* A step of runJob that applies nothing leaves the main of its copy alone, unless
\* it begins a delete.
LEMMA KeepMain ==
    ASSUME Core, MainOK, NEW x \in Busy, NEW copy, SetCopy(x, copy),
           copy.main = Copy(x).main \/ (copy.main = 0 /\ x \in spool \ applied),
           UNCHANGED <<created, applied, spool>>
    PROVE  MainOK'
  <1>1. x \in 1 .. Len(created)
    BY BusyJob DEF Busy
  <1>2. /\ replica'[created[x].target][created[x].repo] = copy
        /\ \A t \in Targets, r \in Repos : <<t, r>> # Group(x) => replica'[t][r] = replica[t][r]
    BY <1>1, SetCopyFrame
  <1>3. \A t \in Targets, r \in Repos :
           \/ replica'[t][r].main = replica[t][r].main
           \/ replica'[t][r].main = 0 /\ x \in spool \ applied /\ Group(x) = <<t, r>>
    BY <1>2 DEF Group, Copy
  <1> QED BY <1>3 DEF MainOK, MainAt, Newest, Group

\* While nothing has failed, jobs are begun, applied and retired in order.
LEMMA CalmStep ==
    ASSUME Core, Core', OrderInv, CalmInv, [Next]_vars
    PROVE  CalmInv'
  <1> SUFFICES ASSUME Calm'
               PROVE  (phase' # "down" => jobs' = spool') /\ OrderedOK' /\ MainOK'
    BY DEF CalmInv
  <1>0. Calm /\ (phase # "down" => jobs = spool) /\ OrderedOK /\ MainOK
    BY CalmBefore DEF CalmInv
  <1>a. /\ stage \in [JobIds -> Stages] /\ Len(created) \in Nat
        /\ applied \subseteq 1 .. Len(created) /\ spool \subseteq 1 .. Len(created)
        /\ Busy \subseteq 1 .. Len(created)
    BY BusyJob DEF Busy, Core, TypeOK, QueueTypeOK, SpoolTypeOK
  <1>1. CASE Idling \/ UNCHANGED vars
    <2>1. /\ UNCHANGED <<replica, created, spool, jobs, stage, applied>>
          /\ phase' # "down" => phase # "down"
      BY <1>1, IdlingFacts DEF vars, store, queue, past
    <2>2. OrderedOK' /\ MainOK'
      BY <1>0, <2>1, CalmFrame DEF Busy
    <2> QED BY <1>0, <2>1, <2>2
  <1>2. ASSUME NEW call \in fanout, NEW k \in 0 .. Len(Replicas), Enqueue(call, k)
        PROVE  (phase' # "down" => jobs' = spool') /\ OrderedOK' /\ MainOK'
    <2>1. /\ UNCHANGED <<replica, stage, applied, phase>> /\ phase # "down"
          /\ spool' = spool \cup (Len(created) + 1 .. Len(created) + k)
          /\ jobs' = jobs \cup (Len(created) + 1 .. Len(created) + k)
      BY <1>2 DEF Enqueue
    <2>2. /\ k \in Nat /\ Len(created') = Len(created) + k
          /\ \A i \in 1 .. Len(created) : created'[i] = created[i]
      BY <1>2, EnqueueCreated, ReplicasAssumption DEF Core
    <2>3. \A i \in 1 .. Len(created) : Group(i)' = Group(i)
      BY <2>2 DEF Group
    <2>4. ASSUME NEW i \in spool', NEW j \in 1 .. Len(created'), i < j, Group(i)' = Group(j)',
                 j \in applied \cup Busy
          PROVE  FALSE
      <3>1. j \in 1 .. Len(created)
        BY <1>a, <2>4
      <3>2. i \in spool
        BY <1>a, <2>1, <2>2, <2>4, <3>1
      <3>3. Group(i) = Group(j)
        BY <1>a, <2>3, <2>4, <3>1, <3>2
      <3> QED BY <1>0, <2>4, <3>1, <3>2, <3>3 DEF OrderedOK
    <2>5. OrderedOK'
      BY <2>1, <2>4 DEF OrderedOK, Busy
    <2>6. \A j \in applied : Group(j)' = Group(j) /\ created'[j] = created[j]
      BY <1>a, <2>2, <2>3
    <2>7. MainOK'
      <3>1. \A i \in spool \ applied : i \in spool' \ applied' /\ Group(i)' = Group(i)
        BY <1>a, <2>1, <2>3
      <3> QED BY <1>0, <2>1, <2>6, <3>1 DEF MainOK, MainAt, Newest
    <2> QED BY <1>0, <2>1, <2>5, <2>7
  <1>3. ASSUME NEW j \in JobIds, ClaimDue(j)
        PROVE  (phase' # "down" => jobs' = spool') /\ OrderedOK' /\ MainOK'
    <2>1. /\ UNCHANGED <<created, applied, replica, spool, jobs, phase>>
          /\ stage' = [stage EXCEPT ![j] = "claimed"]
          /\ Group(j) \notin inflight
          /\ \A i \in Candidates : j =< i
          /\ phase # "down"
      BY <1>3 DEF ClaimDue, Oldest, Candidates, past, store, Core, StageOK
    <2>2. jobs = spool /\ jobs \subseteq due
      BY <1>0, <2>1 DEF OrderInv, Calm
    <2>3. ASSUME NEW i \in spool, i < j, Group(i) = Group(j) PROVE FALSE
      <3>1. i \in Candidates
        BY <2>1, <2>2, <2>3 DEF Candidates
      <3> QED BY <1>a, <2>1, <2>3, <3>1 DEF JobIds
    <2>4. Busy' = Busy \cup {j}
      BY <1>a, <2>1 DEF Busy
    <2>5. OrderedOK'
      BY <1>0, <2>1, <2>3, <2>4 DEF OrderedOK, Group
    <2>6. MainOK'
      BY <1>0, <2>1 DEF MainOK, MainAt, Newest, Group
    <2> QED BY <1>0, <2>1, <2>5, <2>6
  <1>4. ASSUME NEW j \in JobIds, Start(j)
        PROVE  (phase' # "down" => jobs' = spool') /\ OrderedOK' /\ MainOK'
    <2>1. UNCHANGED <<created, applied, replica, spool, jobs, phase>> /\ Busy' \subseteq Busy
      BY <1>4, <1>a DEF Start, Busy, past, store
    <2> QED BY <1>0, <2>1, CalmFrame
  <1>5. ASSUME NEW j \in JobIds, RunJob(j)
        PROVE  (phase' # "down" => jobs' = spool') /\ OrderedOK' /\ MainOK'
    <2>1. /\ UNCHANGED <<created, spool, phase, jobs>>
          /\ stage[j] # "idle" /\ stage'[j] # "idle"
          /\ \A i \in JobIds \ {j} : stage'[i] = stage[i]
          /\ j \in jobs /\ j \in 1 .. Len(created)
          /\ applied' = applied \/ applied' = applied \cup {j}
      BY <1>5, RunJobFacts
    <2>2. j \in Busy /\ Busy' = Busy
      BY <2>1 DEF Busy
    <2>3. j \in spool
      BY <1>0, <2>1 DEF Core, StageOK
    <2>4. OrderedOK'
      BY <1>0, <2>1, <2>2 DEF OrderedOK, Group
    <2>t. /\ Copy(j) \in Copies
          /\ stage[j] = "refs" => created[j].action = "commit"
          /\ stage[j] \in {"drop", "drop2"} => created[j].action = "delete_repo"
      BY <2>1, <2>2, JobType DEF Core, StageOK
    <2>5. CASE ReadManifest(j)
      <3>1. UNCHANGED <<created, applied, replica, spool>> /\ Busy' \subseteq Busy
        BY <2>1, <2>2, <2>5 DEF ReadManifest
      <3> QED BY <1>0, <2>1, <3>1, CalmFrame
    <2>6. CASE PutManifest(j)
      <3> DEFINE copy == [Copy(j) EXCEPT !.commits = @ \cup {created[j].commit},
                                         !.left = @ \ {created[j].commit}]
      <3>1. SetCopy(j, copy) /\ UNCHANGED applied
        BY <2>6 DEF PutManifest
      <3>2. copy.main = Copy(j).main
        BY <2>t
      <3> HIDE DEF copy
      <3> QED BY <1>0, <2>1, <2>2, <2>4, <3>1, <3>2, KeepMain
    <2>7. ASSUME NEW b \in Blobs, CopyBlob(j, b) PROVE MainOK'
      <3> DEFINE copy == [Copy(j) EXCEPT !.blobs = @ \cup {b}]
      <3>1. SetCopy(j, copy) /\ UNCHANGED applied
        BY <2>7 DEF CopyBlob
      <3>2. copy.main = Copy(j).main
        BY <2>t
      <3> HIDE DEF copy
      <3> QED BY <1>0, <2>1, <2>2, <3>1, <3>2, KeepMain
    <2>8. CASE DropBlobs(j)
      <3>1. PICK main \in {0, Copy(j).main} :
               SetCopy(j, [Copy(j) EXCEPT !.blobs = {}, !.main = main])
        BY <2>8 DEF DropBlobs
      <3> DEFINE copy == [Copy(j) EXCEPT !.blobs = {}, !.main = main]
      <3>2. SetCopy(j, copy) /\ UNCHANGED applied /\ stage[j] = "drop"
        BY <2>8, <3>1 DEF DropBlobs, Goes
      <3>3. copy.main \in {0, Copy(j).main}
        BY <2>t
      <3> HIDE DEF copy
      <3>u. UNCHANGED <<created, applied, spool>>
        BY <2>1, <3>2
      <3>4. CASE j \notin applied
        <4>1. copy.main = Copy(j).main \/ (copy.main = 0 /\ j \in spool \ applied)
          BY <2>3, <3>3, <3>4
        <4> QED BY <1>0, <2>1, <2>2, <2>4, <3>2, <3>u, <4>1, KeepMain
      <3>5. CASE j \in applied
        <4> DEFINE t == created[j].target  r == created[j].repo
        <4>1. Newest(j, applied, t, r)
          BY <1>0, <1>a, <2>1, <2>3, <3>5 DEF OrderedOK, Newest, Group
        <4>2. t \in Targets /\ r \in Repos /\ created[j].action = "delete_repo"
          BY <2>1, <2>t, <3>2, JobType DEF Core
        <4>3. MainAt(t, r, Copy(j).main) \/ Copy(j).main = 0
          BY <1>0, <4>2 DEF MainOK, Copy
        <4>4. Copy(j).main = 0
          BY <3>5, <4>1, <4>2, <4>3 DEF MainAt
        <4>5. copy.main = Copy(j).main
          BY <3>3, <4>4
        <4> QED BY <1>0, <2>1, <2>2, <2>4, <3>2, <3>u, <4>5, KeepMain
      <3> QED BY <3>4, <3>5
    <2>9. CASE PointRef(j)
      <3> DEFINE copy == [Copy(j) EXCEPT !.main = j]
      <3>1. SetCopy(j, copy) /\ applied' = applied \cup {j} /\ stage[j] = "refs"
        BY <2>9 DEF PointRef, Goes
      <3>2. copy.main = IF created[j].action = "commit" THEN j ELSE 0
        BY <2>t, <3>1
      <3> HIDE DEF copy
      <3> QED BY <1>0, <2>1, <2>2, <2>3, <2>4, <3>1, <3>2, ApplyMain
    <2>10. CASE DropRest(j)
      <3>1. SetCopy(j, EmptyCopy) /\ applied' = applied \cup {j} /\ stage[j] = "drop2"
        BY <2>10 DEF DropRest, Goes
      <3>2. EmptyCopy.main = IF created[j].action = "commit" THEN j ELSE 0
        BY <2>t, <3>1 DEF EmptyCopy
      <3> QED BY <1>0, <2>1, <2>2, <2>3, <2>4, <3>1, <3>2, ApplyMain
    <2>11. CASE DropNothing(j)
      <3> DEFINE copy == [Copy(j) EXCEPT !.left = Copy(j).commits]
      <3>1. /\ SetCopy(j, copy) /\ applied' = applied \cup {j} /\ stage[j] = "drop"
            /\ Copy(j).main = 0
        BY <2>11 DEF DropNothing, Goes
      <3>2. copy.main = IF created[j].action = "commit" THEN j ELSE 0
        BY <2>t, <3>1
      <3> HIDE DEF copy
      <3> QED BY <1>0, <2>1, <2>2, <2>3, <2>4, <3>1, <3>2, ApplyMain
    <2>12. MainOK'
      BY <1>5, <2>5, <2>6, <2>7, <2>8, <2>9, <2>10, <2>11 DEF RunJob
    <2> QED BY <1>0, <2>1, <2>4, <2>12
  <1>6. ASSUME NEW j \in JobIds, Ends(j)
        PROVE  (phase' # "down" => jobs' = spool') /\ OrderedOK' /\ MainOK'
    <2>1. /\ UNCHANGED <<replica, created, phase, applied>>
          /\ stage' = [stage EXCEPT ![j] = "idle"]
      BY <1>6, EndsFacts
    <2>2. Busy' \subseteq Busy
      BY <1>a, <2>1 DEF Busy
    <2>3. \/ UNCHANGED <<jobs, spool>>
          \/ jobs' = jobs \ {j} /\ spool' = spool \ {j} /\ j \in applied
      BY <1>6, EndsFacts DEF Ends, ExecuteOK, ExecuteErr, StopClaimed, Calm
    <2> QED BY <1>0, <2>1, <2>2, <2>3, CalmFrame
  <1>7. CASE Exit \/ Crash
    <2>1. UNCHANGED <<replica, created, spool, applied>> /\ phase' = "down" /\ Busy' \subseteq Busy
      BY <1>7 DEF Exit, Crash, ProcessGone, Busy
    <2> QED BY <1>0, <2>1, CalmFrame
  <1>8. ASSUME NEW bad \in SUBSET spool, LoadSpool(bad)
        PROVE  (phase' # "down" => jobs' = spool') /\ OrderedOK' /\ MainOK'
    <2>1. /\ UNCHANGED <<replica, created, spool, applied, stage>>
          /\ jobs' = spool \ bad
      BY <1>8 DEF LoadSpool, store
    <2>2. spent \in [Limited -> Nat]
      BY DEF Core, TypeOK, LoopTypeOK
    <2>3. bad = {}
      BY <1>0, <1>8, <2>2 DEF LoadSpool, Spend, Calm, Limited
    <2>4. OrderedOK' /\ MainOK'
      BY <1>0, <2>1, CalmFrame DEF Busy
    <2> QED BY <2>1, <2>3, <2>4
  <1> QED BY <1>1, <1>2, <1>3, <1>4, <1>5, <1>6, <1>7, <1>8, Cases

\* Of a drained queue the three parts give the replicas' refs.
LEMMA DrainedMain ==
    ASSUME Core, OrderInv, OwedOK, CalmInv
    PROVE  Converged
  <1> SUFFICES ASSUME phase = "running", spool = {}, fanout = {}, failed = {}, spent["io"] = 0,
                      NEW r \in Repos \ tainted, NEW t \in Targets
               PROVE  src[r].main = IF replica[t][r].main = 0 THEN None
                                    ELSE created[replica[t][r].main].commit
    BY DEF Converged
  <1>1. MainAt(t, r, replica[t][r].main)
    BY DEF CalmInv, Calm, MainOK
  <1>2. applied = 1 .. Len(created)
    BY DEF OrderInv, Core, TypeOK, SpoolTypeOK
  <1>3. /\ \A j \in 1 .. Len(created) :
              Newest(j, 1 .. Len(created), t, r) => created[j].commit = src[r].main
        /\ (\A j \in 1 .. Len(created) : Group(j) # <<t, r>>) => src[r].main = None
    BY DEF OwedOK
  <1>4. CASE \A j \in 1 .. Len(created) : Group(j) # <<t, r>>
    BY <1>1, <1>2, <1>3, <1>4 DEF MainAt
  <1>5. CASE \E j \in 1 .. Len(created) : Group(j) = <<t, r>>
    <2>1. PICK j \in 1 .. Len(created) : Newest(j, 1 .. Len(created), t, r)
      BY <1>5, NewestExists
    <2>2. /\ created[j].commit = src[r].main
          /\ replica[t][r].main = IF created[j].action = "commit" THEN j ELSE 0
      BY <1>1, <1>2, <1>3, <2>1 DEF MainAt
    <2>3. created[j] \in Job /\ j # 0
      BY JobType DEF Core
    <2>4. created[j].action # "commit" => created[j].commit = None
      BY <2>3 DEF Job
    <2> QED BY <2>2, <2>3, <2>4
  <1> QED BY <1>4, <1>5

\* Convergence: once everything accepted has been carried out, and as long as no
\* attempt and no spool access failed, each replica's main is the primary's,
\* through crashes, restarts and deletes, for every repo whose enqueue calls all
\* came through in order.
THEOREM DrainedConverged == Spec => []Converged
  <1>1. Init => NoStrandedJob /\ OrderInv /\ OwedOK /\ CalmInv
    <2> SUFFICES ASSUME Init PROVE NoStrandedJob /\ OrderInv /\ OwedOK /\ CalmInv
      OBVIOUS
    <2>1. NoStrandedJob /\ OrderInv
      BY DEF Init, NoStrandedJob, OrderInv, Busy
    <2>2. OwedOK
      BY DEF Init, OwedOK, EmptyRepo
    <2>3. CalmInv
      BY DEF Init, CalmInv, OrderedOK, MainOK, MainAt, EmptyCopy
    <2> QED BY <2>1, <2>2, <2>3
  <1> QED BY <1>1, InitCore, CoreStep, NoStrandedStep, OrderStep, OwedStep, CalmStep,
             DrainedMain, PTL DEF Spec

=============================================================================
