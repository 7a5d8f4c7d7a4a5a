# Shpiel: a TLA+ verification project

Shpiel is a server that speaks the Hugging Face Hub API and stores model
repositories in backends (an OCI registry, a file system, S3). This project
models the parts of it whose correctness depends on concurrency, failure and
order, model-checks them with TLC and proves the most important invariants
with TLAPS. `PROJECT.json` ties every definition to the lines it models, every
property to a run and a mutant that breaks it, and every theorem to a property.

## 1. Inventory

Paths are relative to `src/internal/`.

| Component | State it keeps | Operations | Hard behaviour | What makes it correct |
|---|---|---|---|---|
| Replication queue `replication/` | spool directory (durable); jobs, inflight groups, wake channel, timer, worker slots (memory) | EnqueueCommit, EnqueueDeleteRepo, claimDue, unclaim, nextDelay, execute, RetryNow, loadSpool | dispatcher against workers, enqueue calls and shutdown; lost wake-ups; crash between an effect and its record; backoff against order | at-least-once delivery, one job per (target, repo), order, complete replicas, the queue drains |
| Relay write path `relay/write.go`, `server/write_handlers.go` | per-repo mutexes (memory) | CreateRepo, DeleteRepo, Commit, PutLFSBlob, fan-out | only Commit takes the mutex; client retries after a lost reply; crash between manifest, ref and fan-out | acknowledged commits stay on the branch, the head can be served, retries converge, jobs are enqueued in order |
| OCI backend `backend/ocibackend/` | registry tags and blobs, index artifact (durable); pending flags, per-repo mutexes (memory) | PutManifest (stage or publish), PutBlob (promote), DeleteRepo | a commit staged while its last blob lands; mutex given up during an upload; failed and lost requests; restart | published commits can be served, refs resolve, staged commits are promoted with their refs |
| Filesystem backend `backend/fsbackend/` | manifests, refs, blobs, snapshot links | CreateRepo, DeleteRepo, PutManifest, PutBlob | no lock at all: stat before mkdir, delete in two parts, link scan against blob arrival | what a ref names can be read; every blob of a snapshot is linked |
| Relay read path `relay/relay.go` | singleflight groups, cached manifests | ResolveManifest, EnsureEntry, OpenFile, fetchBlob | leaders and followers with different manifest copies, read-modify-write of a manifest | every request sees a digest its blob is stored under; re-keyed entries are not lost |
| S3 backend and client `backend/s3backend/`, `s3client/` | objects; a reader's stream and position; cached credentials | the backend interface; paged listings; ranged reads; refresh | several objects per operation and no lock; pages listed while keys come and go; failed requests | readers never see a ref without its manifest, no corrupt blob becomes visible, a delete reaches every page, a ranged reader delivers the right bytes |
| Xet service `xet/` | xorbs, layouts, file records, sha256 mappings, shards, chunk pointers | xorb and shard upload, chunk query, reconstruction, token and URL signing | several objects per upload; two goroutines on an unbuffered pipe; byte-range arithmetic over chunks | what is advertised can be fetched, a reconstruction returns exactly the bytes asked for, acknowledged files are materialised |
| HTTP server `server/` | transfer slots, verdict cache | reads, uploads, admin, authorisation, shutdown | limits, clients that leave, expiry, chains of credentials | slots are returned, every request is answered, access ends with the credentials' lives |
| Upstream client, Hub types, configuration, audit, metrics, wiring | none that behaviour depends on | conversions | - | - |

How they interact: an HTTP handler calls the relay; the relay writes to the
route's primary backend and then calls the replication queue, whose workers
read the primary and write the replicas through the same backend interface.
Nothing but the backends and the spool survives a restart.

## 2. Plan

1. *Replication* with its contract, runs and proofs (done).
2. *OCIStaging* with its runs and proofs (done).
3. *RelayWrite* over the filesystem backend with its runs and proofs (done).
4. *FsSnapshot*: PutManifest and PutBlob linking snapshots without a lock, with its proofs (done).
5. *PullThrough*: the read path with singleflight, re-keying and revalidation
   (done, with its proofs; its composition with OCIStaging's view of a staged commit is left).
6. *S3Backend*: the order of object writes and deletes, paged listings, the ranged reader, with its proofs (done).
7. *XetRange* and *Xet*: the reconstruction ranges as a pure algorithm against a reference
   definition; ingest and materialisation as a state machine, with its proofs (done).
8. *ServerGate*: the verdict cache, Xet credentials, transfer slots and shutdown, with its proofs (done).
9. Every safety property that a run checks is a theorem (done); liveness stays with TLC.
10. Left: chunked upload sessions and token refresh of the OCI registry client, the web-identity
   credential cache of the S3 client, pagination of the tree listing, and the composition of PullThrough's lost
   re-key with OCIStaging's view of a staged commit.

One run per question: the runs of section 4 combine properties that ask about the
same instance.

## 3. Modules

| Module | Models | Notes |
|---|---|---|
| `Replication` | the queue, the primary's writes that feed it, the replicas it feeds | one action per critical section or backend request |
| `ReplicationContract` | what the queue promises: accepted jobs stay pending until applied | abstract specification; `Replication` implements it |
| `ReplicationProofs` | theorems about `Replication` | |
| `OCIStaging` | one repo of the OCI backend, both formats | one action per registry request or mutex section |
| `OCIStagingProofs` | theorems about `OCIStaging` | |
| `RelayWrite` | one repo of the relay's write path over the filesystem backend, and the HTTP clients | one action per file operation or mutex section |
| `RelayWriteProofs` | theorems about `RelayWrite` | |
| `FsSnapshot` | one repo of the filesystem backend: PutManifest, PutBlob and the snapshot links | one action per file operation |
| `FsSnapshotProofs` | theorems about `FsSnapshot` | |
| `PullThrough` | one repo of the relay's read path with an upstream | one action per backend or upstream request and per write to a shared manifest |
| `PullThroughProofs` | theorems about `PullThrough` | |
| `XetRange` | the arithmetic of the Xet service: chunk layouts, records, byte ranges | operators only |
| `Xet` | the Xet store and its upload handlers, over `XetRange` | one action per object written or looked up |
| `XetProofs` | theorems about `Xet` | |
| `S3Backend` | one repo of the S3 backend, and readers of it | one action per request to the bucket |
| `S3BackendProofs` | theorems about `S3Backend` | |
| `ServerGate` | token check and verdict cache, Xet credentials, transfer slots, shutdown | one action per critical section, upstream request or channel operation |
| `ServerGateProofs` | theorems about `ServerGate` | |
| `MC*` | small instances | constants and bounds only |

Operators whose comment starts with "Mutant" are deliberately wrong variants of
the definition that follows them. No specification uses them.

### Replication

`spool` is the spool directory, `jobs` and `due` are `Queue.jobs` and those whose
`NextTry` has passed, `inflight` is `Queue.inflight`, `disp`, `wake` and `armed` are
the state of `Run`'s loop, its wake channel and its timer, and `stage[j]` is where the
goroutine of job `j` stands in `execute` and `runJob`. A job's number is its place in
creation order (`CreatedAt`; enqueue holds the queue's lock while it stamps jobs).
Backoff durations are abstracted: a failed job is not due until time (`Expire`) or
`RetryNow` makes it so. `src` is the primary as the relay's writes leave it,
`fanout` the enqueue calls the relay still owes, `replica` what the jobs have written.
`tainted` names the repos whose enqueue calls were lost or overlapped, about which
the queue can promise nothing. A replica's copy has two parts, as `fsbackend` removes them one after the other: `commits` with the blobs and
refs, and `left`, manifests whose repo directory an interrupted delete has already removed. The retry of that delete finds no directory
(`DropNothing`), which counts as success, so the job is retired and `left` stays. `failed` names the jobs an attempt of which ended in an error, which
is what allows a younger job of the same group to go first.

### OCIStaging

The registry holds tags of four kinds: commits (`published`), staged commits
(`staged`, with their file list and refs), refs (`refTag`) and the tar-layers `index`.
A file of a manifest is a blob digest or `Unkeyed`, an entry the relay has not yet
re-keyed to a sha256. `Versions[c]` lists the file lists callers may put for a commit.
A caller's `pc` names the next request; `Critical` are the points under the repo mutex.
A request that fails after it took effect is a failure at the following point.
`torn` records that a `DeleteRepo` has removed some tags and not all, and `late` which staged commits had all their files
present when they were staged: `layersFor` had looked before the last of them landed.

### RelayWrite

A commit id is the sequence of trees from the initial commit, which is what
`mintCommitSHA` hashes, so equal parents and equal edits give equal ids. A client has one request
at a time, may lose its reply and may send the request again. `effect` is the first commit a
request put on the branch, `acked` the commits clients were told of since the last delete.

### FsSnapshot

`stored` and `keyed` are the manifest files and, per manifest, the paths whose entry has the digest
its blob is stored under; `main` is the ref; `blob` says of each blob file whether it is absent, intact or
damaged; `link` says of each snapshot file whether it is missing, a symbolic link, a hard link or a copy.
A caller's `op` holds its arguments and what its loops have still to do. Names are made by `Symlink` and
`Link` only where there is none; `os.Create`, in `copyFile`, follows what is there. The file system is one
with symbolic links. `cut` is a history variable: the files a call that failed, died, or passed over a manifest it could not read (`SkipManifest`), had still to link.

### PullThrough

`stored`, `files`, `ref` and `blobs` are the backend; `head` is upstream's branch. A manifest entry's digest is
`sha1` or `sha256` (of its content), `zero` (listed without details), `absent` (no such file) or `torn` (half
written). `heap[r]` is the manifest object that request `r` decoded or fetched, and `obj[r]` whose object `r`
works on (a manifest has some content at every path: `UpstreamAssumption`): `singleflight` hands the leader's pointer to every follower, and `backfillDigest` and
`storeRegularBlob` write through it without a lock. A Go string is two words, so such a write is two steps
(`Rekey`; `fill` to `keep` for the first digest), and a reader in between sees a torn value or, where there
was no string before, may panic. `mflight` and `bflight` are the two singleflight groups. `singleflight` and
the upstream Hub are external. A request is one call of `handleResolve`; the handlers that only list files
take the same steps as a HEAD request.

### XetRange and Xet

A chunk is a model value with a length and a packed length, a byte of a file a pair of a chunk and a position, a
hash the thing it is the hash of. `WalkChunks`, `RecordFromShardFile`, `ParseByteRange` and `Reconstruction` are the
functions of the code; `Assembled` is what a client makes of an answer by fetching the signed byte ranges and decoding
them, and `RangeExact` compares it with the file's content cut by its definition.

In `Xet` the variables `layouts`, `xorbs`, `files`, `sha256`, `shards` and `chunks` are the kinds of keys of the store (a directory
or a bucket; a write is atomic in both), `mu` is `Store.mu`, and `blobs` the routed backend. `gor` is the goroutine that runs
`reconstruct` and writes to the pipe `PutLFSBlob` reads. A client may upload a shard at any time, also before the xorbs it refers to: `HandleShardUpload` looks for none of them.
`hasty` is history: the shards that came before their client was told, by an acknowledged upload or a dedup answer, of all the xorbs they need. Their terms lie within their xorbs, have the length their chunks unpack to, and the files of its shards
have the content they are named by (`ShardAssumption`, what a client of the protocol sends; the code does not check it, and `Reconstruction` says what it answers outside it: an
error or, where it panics, nothing). The pointers of a shard are written in
any order: nothing depends on it.

### S3Backend

`bucket` maps keys to objects. A caller's `op` holds its arguments and, for `DeleteRepo`, the page it works on (`keys`) and the
continuation token; keys are numbered in the order the bucket lists them. A reader's `pos` and `cur` are `rangedReader.pos` and
the position of its open stream; `got` is what it has read since its last seek. History: `intact` says that no delete has
removed an object since the put behind the ref began (flags are 0 or 1 in all modules), `doomed` and `escaped` what a `DeleteRepo` found and should have removed. The
bucket is external, strongly consistent, and lists pages in key order.

### ServerGate

`entries` is the verdict cache of passthrough mode, `sem` the two channels of slots, `minted` and `urls` the Xet
token and data URL in clients' hands. Both are signed and the server keeps no record of them, so it is enough that the clients hold
some earlier one of each. Every credential carries as history the upstream answer it goes back to and when it was
put into the cache, and `last`, the answer of the last step, why it was given: a refusal may also have no answer of upstream behind it. `upstream` says whether one is configured. A request answered in the step it comes in leaves no state; only those that ask upstream or transfer are numbered.
The write endpoints that take no slot (commit, create, delete, preupload, LFS batch) pass the same `authorizeWrite` as the
ones modelled. `Shutdown` cancels every request's context, because `Run`'s context is the server's `BaseContext`.

## 4. Runs

| Run | Shows |
|---|---|
| MCReplicationFaults | one replica, two workers, one commit beside the initial one; a failed job, an I/O error on the spool, a delete, a crash or shutdown: nothing stranded or lost (`NoStrandedJob`, and `AtLeastOnce`, the contract), replicas complete but for what a cut and retried delete leaves, creation order kept except past failed or unreadable jobs, and the replica agrees with the primary once the queue drained without a failure, restarts included |
| MCReplicationDrains | two replicas, one worker slot, fair; a failure and an I/O error: one job per group, no missed wake-up, every job is applied in the end |
| MCReplicationBackwards | *violation* of `NeverBackwards`: an older job in backoff is overtaken and later moves the ref back |
| MCOCIStagingIndex | tar-layers, two callers, delete and failed request, fair: published commits servable, refs resolve, the index loses nothing, no promotion is missed, calls return |
| MCOCIStagingRestart | modelpack, two callers, restart, delete and failed request: acknowledged blobs promote their commits, unless these were staged after their blobs landed; refs are merged |
| MCRelayWriteRetries | a create, two commits, an upload, a delete, a lost reply and retries, a failure, a crash: acknowledged commits stay, the head is servable until a delete runs, retries converge, commits are enqueued in order, no return path keeps the lock |
| MCFsSnapshotLinks | two callers, two commits sharing a blob, an I/O error or an unreadable manifest, a crash: whichever of manifest and blob comes second, the snapshot has its link; `main` names a stored manifest |
| MCFsSnapshotTruncate | *violation* of `BlobsImmutable`: two callers link the same file, and the slower one's copy truncates the blob through the faster one's link |
| MCPullThroughReads | two requests, a push, a failure, a crash, fair: blobs are keyed by sha256, re-keyed entries have their blob, a request with its own manifest and download is served, each revision and digest is fetched by one request at a time and nobody waits for a fetch that has ended (`FlightsLed`), every request ends |
| MCXetUploads | two clients, two xorbs, two shards that describe one file differently and may come before their xorbs, an empty file and one without sha256, a failure, a crash, fair: advertised files can be fetched and dedup pointers lead to stored xorbs, except through a hasty shard; every range is exact, acknowledged files are materialised, uploads are answered |
| MCS3BackendCalls | two callers and a reader, pages of two keys, a create, a delete, puts of one commit, good and corrupt blobs, a seek, a failed request or a crash: refs have their manifests unless a delete came in between, blobs are good, deletes are complete, reads are exact |
| MCServerGateRequests | two requests under way, one upload slot and no download limit, lives of one tick, a cache cap of zero, failures, clients that leave, a revocation, a shutdown, with an upstream or none, fair: access ends and refusals have their reasons, the cache is bounded, slots are returned, requests are answered |

**Bounds.** Two replicas or two workers, two callers or clients, two commits sharing a
blob, and one fault of each kind: every hazard in `PROJECT.json` needs at most two
actors and one fault, and the counterexamples of the violation runs are well within
the bounds of the passing ones. `Limit` bounds calls and faults, `MaxJobs` jobs. In
`RelayWrite` and `PullThrough` `MaxUpsets` bounds deletes, pushes and faults together, to any two of them; in
`ServerGate` failures, clients that leave and revocations. `MaxTime` is one tick more than the three lives of a credential
chain together, so that access past its end would be seen; a token, the missing one of a read-token request and a cap of zero make the cache overflow.
In `S3Backend` four keys on pages of two make a delete take several pages. The file contents of `MCXet` have chunk lengths 1, 2 and 3 so that
ranges begin and end inside, at and across chunks and terms; every range of every file is compared.
The violation runs' counterexamples need at most one.

**Conditions.** Where the code does not keep a promise under every fault, the property
states under which conditions it does: `CreationOrder` exempts jobs that failed or whose spool file
could not be read, `Converged` speaks of runs without a failed attempt or a failed access to the spool (a file that one restart cannot read and the next one can is a job
out of its turn, which may point the ref back), `AckedPromoted` and
`RefsKept` of the time before the first failed request (`AckedPromoted` exempts commits in `late`, and is checked without a crash in
tar-layers format), `BranchKeepsAcked`,
`RetryContains` and `CommitsInOrder` of a `Calm` repo (no second creation, no delete), and
`HeadServableUndeleted` of a repo no delete has touched. `ReplicaComplete` exempts the manifests in `left`. `Advertised` and `PointerUsable` exempt what a hasty shard describes or declares. `ReadersFindManifest` exempts readers and refs a delete has come in between. `SnapshotLinked` exempts the files in `cut`:
a retried `PutBlob` returns early, and only a later `PutManifest` of the commit links them. `KeyedBySha256` exempts
files listed without details, where a late backfill can put the sha1 digest back into a shared entry between two
reads of it. `SoloServed` exempts requests that joined a download, share their manifest object or met a torn
digest stored by one that does. `Drains` is checked without crashes:
that a restart takes every spooled job up again is `NoStrandedJob`, which is checked with them and proved.

**Types.** `TypeOK` is proved for every module with proofs, as the ground of the others. The runs check it for the queue; elsewhere
they are spent on what the code could get wrong.

**Deadlock.** The queue never stops: its dispatcher's timer always fires, and its runs check for
deadlock. The other models stop when the bounded calls are used up, so their
configurations say `CHECK_DEADLOCK FALSE`; that calls return is a property of its own.

**Symmetry.** Clients are interchangeable in `RelayWrite`, and callers in `FsSnapshot` and `S3Backend`; their runs, which check
only invariants, use it. Runs with a liveness property do not.

**Fairness.** Queue: goroutines, timers and backoffs make progress, a stopping process
exits and a dead one is restarted (its supervisor's job); no fairness on writes,
failures or crashes, which are bounded. `OCIStaging`: goroutines make
progress (weak fairness), and `sync.Mutex` hands itself to a waiter after a
millisecond of starvation (strong fairness on taking it). `PullThrough`: handlers make progress; upstream and
backend requests end, with an answer or an error, because their contexts do. None on failures, panics, pushes or crashes.
`Xet`: the goroutines of an upload make progress. `ServerGate`: a handler's goroutine runs on, upstream answers, and a client that holds a slot sends or takes its bytes, without which a slot
could indeed be held for ever. The last two are assumptions about the other side: the code sets no deadline on transfers or on `WhoAmI`, and a request
to a silent upstream ends only when its client leaves. Weak fairness is enough for the wait for a slot, because the
run's requests are finite.

## 5. Theorems

All proofs hold for every value of the constants that satisfies the modules' named
assumptions: any number of repos, replicas, workers, jobs, callers, commits, blobs and faults.

*ReplicationProofs.* `Core` = `TypeOK /\ StageOK`; `StageOK` ties each running stage to
the job's action and to `applied` and says a dead process has nothing in memory.
On top of it, each step is put in one of a few cases (idle for the jobs, enqueue, claim,
a step of runJob, an end, a process end) and five results follow:

- `OneInFlight`: `OneInFlightPerGroup` is inductive relative to `Core`.
- `NoStranded`: `NoStrandedJob` likewise; an ending job was applied, by `StageOK`.
- `QueueDelivers`: every step implements a step of `ReplicationContract` or a stutter.
- `ReplicasComplete`: needs `OneInFlightPerGroup` (nobody else works on the copy), and
  `CopyOK`, which says which blobs a running copy has dealt with; that only deletes take
  blobs away, and a delete in progress is still spooled, closes the induction. Manifests
  move to `left` together with their blobs' removal and come back only through `PutManifest`, after their blobs.
- `OrderKept`: `CreationOrder` is an action property; `OrderInv` carries it. A job that left
  the spool was applied, a job in memory that is not due has failed, and hence, when `claimDue` picks the
  oldest candidate of an idle group, every older job of the group is applied, failed or unread
  (`NoStrandedJob` covers those on disk only); nothing takes that back while the job runs.

- `WakeupsNotMissed`: `NoMissedWakeup` speaks of runnable jobs and is not inductive, since a job in memory becomes due without anybody
  kicking. `SleepInv` says it of all the jobs of idle groups, due or not: `nextDelay` arms the timer for all of them, and whatever adds a job or
  frees a group kicks or is a worker about to.
- `DrainedConverged`: three invariants meet when the spool is empty. `OwedOK` ties the primary to the queue: of a repo that is not tainted,
  the call still owed is for the primary's present state, and if none is owed the newest job of each group is. `OrderedOK`: without failures no job is begun or applied while an
  older one of its group is spooled, since then memory and spool agree, also after a restart. `MainOK` ties the queue to the replica: `main` is where the newest applied job of the group put it; it
  is kept because, by `OrderedOK`, the job that takes effect is newer than all applied ones.

*OCIStagingProofs.* `Core` = `TypeOK /\ OpOK /\ MutexOK`: the mutex is held by exactly the
caller in a critical section. `TagInv` adds what a caller about to publish knows
(its files are present), and one about to tag refs (its commit is published); both survive other callers'
steps because tags are removed only under the mutex and blobs only arrive. `Servable`
and `RefsResolve` follow.

- `RefsMerged`: only `stage` writes the refs of a commit, and its merge can lose refs only when the GET of the staged tag fails.
- `TarPromoted`, `PackPromoted`: `AckedPromoted` speaks of rest, so each invariant says who will still promote. A caller whose blob has landed
  *visits* a staged commit as long as it has not listed the tags, has the commit on its list, or is publishing it (`Visits`, `PackVisits`). In tar-layers the blob is indexed, the tags
  are listed and the commits published under one hold of the mutex that `stage` takes too, so that no commit is staged late and one whose files the index has is visited by somebody (`TarBody`).
  A crash takes the visitor away and the retried blob is found in the index, hence `Limit["crash"] = 0`. In modelpack the pending check runs without the mutex, so that a commit can be
  staged late, and those are exempt. Of any other, the last blob landed after the staging, and its `PutBlob` finds the pending flag or the staged tag and then lists the tags (`PackBody`);
  a blob is acknowledged only after the visits, so that a commit left by a crash still misses an acknowledged blob. Both hold for any number of overlapping callers.

*RelayWriteProofs.* `Inv` conjoins, beside types and the mutex, three groups. `PointOK` says what a request is at each point of its handler.
`DiskOK` says what a handler has checked or stored by then: the blobs of the parent it works on, of the commit it has minted, and
its manifest; all this holds until a delete. `BranchOK`, of a calm repo, ties handlers to the branch: a commit past `ResolveRef` holds the mutex and works on the
head, only one creation is under way and finds no head, and whatever was put on the branch, acknowledged or enqueued is an ancestor of the head. Commits are
sequences of trees, so that ancestry is a partial order and the one new commit is above them all.

- `MutexByCommit`: one conjunct per return path; each gives the mutex back.
- `HeadAlwaysServable`: from `DiskOK`; manifest and blobs are there before `PointRef`.
- `AckedStayOnBranch`, `RetryConverges`, `QueueInOrder`: the head only moves to a child of itself, since nobody else works on it; the answer and the enqueue call name the head.

*FsSnapshotProofs.* `Core` = `TypeOK /\ OpOK /\ RefStored`: a caller that links for a manifest has stored it, one that links a blob
has it. `LinkInv` generalises `SnapshotLinked` to all moments: a file of a stored manifest whose blob is there is linked, in `cut`, or
`Pending` at some caller, that is, on its list, being linked, or to be found by its scan. Whichever of manifest and blob comes second makes the file due, and whoever
brings it looks for the other one after that; a caller drops a file from its list only when its name is taken, its blob is missing, or its manifest cannot be read, which puts it into `cut`. At rest nothing is pending: `SnapshotsComplete`. `RefsStored` is part of `Core`.

*S3BackendProofs.* `Inv` says what each call has made sure of (`CallsOK`), that the manifest behind the ref is there until a
delete removes something (`RefOK`), and what a reader knows of its manifest and its stream (`ReadersOK`).

- `ManifestFound`, `BlobsVerified`: the manifest is put before the ref, and the spooled bytes are verified before a put, in every order of calls.
- `DeleteComplete`: of the keys a delete found and nobody has put again, those not yet removed are on its page or behind it (`DoomOf`). The lemmas on pages hold for any listing order and any page size: a page is a
  prefix of what is behind the token and its last key the next token, so nothing lies between pages.
- `ReadsExact`: the open stream stands at the reader's position unless a seek has dropped it, and the position is the last seek plus what was delivered (`StreamOf`).

*PullThroughProofs.* A request has its own manifest object until its flight has landed and then one whose maker is done with it (`ObjOK`). `FilesOK` says of every manifest, saved, in memory or kept as a stale copy, that only an entry listed without details has no digest
and a regular file has a sha256 one only if that blob is stored; it survives because blobs are only added and `storeRegularBlob` puts the blob before it writes the entry.
`PointsOK` says what a request at each point knows of its entry, whoever writes to the shared object.

- `StorageKeyed`: a digest that is not the sha256 at the moment of `PutBlob` belongs to a file listed without details.
- `RekeyAfterBlob`: from `FilesOK`.
- `SoloAnswered`: a request alone with its object finds there what it wrote (`SoloOf`), so it can end in an error only after a failure.
- `FlightsHaveLeaders`: `FlightsLed` is inductive relative to the rest. It equates the entry of a flight with the request between the two ends of its fetch; a flight ends, with an
  answer or an error, by releasing its leader and all its followers in one step.

*XetProofs.* Objects are never removed, so every claim is one about the order in which they are written. `Core` = `TypeOK`, `StoreOK` and `ReqOK`: `StoreOK` says what the
objects promise of each other (a layout before its xorb, a record before its sha256, a shard before its pointers, and the xorbs of a record or shard that is not hasty before that), `ReqOK` what a
request has found or written by each of its points. Both survive other clients' steps because the store only grows (`Grow`), whatever record an upload of the same file writes over another's.

- `AdvertisedStored`, `PointersUsable`: from `StoreOK`; every record is one that some shard describes its file by, and a client is told of stored xorbs only, so that a shard that waits for the answers names stored ones.
- `AckedDone`: `WorkOK` says that an upload has done all files before the one it is at, and all of them when it registers the shard; `PutBlobPresent` and `BlobLands` are the
  only ways past a file with a sha256, and both find or leave its blob.
- `NobodyWaitsForNothing`: the safety half of `UploadsEnd`. Whoever is in `PutFile` holds `mu` and nobody else does, so a client that waits for it waits for one that waits for nobody; and while
  `PutLFSBlob` is at the reading end of the pipe the goroutine at the other end is at a term of the file, has finished, or has closed the pipe.
- `RangesExact`: by `StoreOK` a stored record is one some shard gave, so it is enough that every description is right (`DescriptionsExact`), whatever the xorbs,
  their chunk lengths, the cut into terms and the range. Four facts carry the argument. A chunk has a header, so offsets in a xorb grow strictly and the ends of a
  term's chunks are no other chunk's: the byte range of `UrlRange` decodes to the term (`TermFetched`). The running sums of the unpacked lengths are the places where the terms
  begin in the file (`FlattenLen`). The terms the loop keeps reach from the one with the first byte asked for to the one with the last (`PickedTerms`), so that the file is
  what comes before them, they, and the rest (`FlattenConcat`), and the range lies in the middle part (`MiddleCut`). `ParseByteRange` cuts an open or overlong range to
  the file and refuses an empty one. `Sums` and `FlattenSeq` are recursive functions. That they satisfy their recursion and the
  laws above on every input is induction over data, made with sets in the place of predicates: `WFMin` gives a set of numbers its least element (`LeastNat`),
  hence a set with 0 and all successors is everything (`NatSet`), and a function of the first N steps is extended by one more (`SumsStep`, `FlattenSteps`).

*ServerGateProofs.* `Core` = `Types /\ CredentialsOK /\ AskersOK`. `AccessEnds` speaks of the last answer only and is not
inductive: what makes it so is that every credential still in someone's hands is bounded by the upstream answer it goes back to. `CredentialsOK`
says so for each sort (a verdict expires one `TTL` after its answer; a Xet token, minted on a live verdict, one `TokenTTL` later; a signed URL,
handed out on a live token, one `DataURLTTL` later) and that an accepting one goes back to a 200; it survives the clock because expiries are fixed when a credential is made.
`AskersOK` says that only endpoints behind the Hub token ask upstream. Four results follow:

- `AccessEnding`: a credential that opens is not expired, so its answer is within the horizon; a refusal without an answer is given at three places, each with its reason.
- `SlotsCounted`: `SlotsOK` equates each limited semaphore with the number of requests in transfer, and says an unlimited one is never touched; a step adds a request
  to that set with its slot, takes it away with the deferred release, or leaves both alone.
- `TypeCorrect`: from `Core` and `SlotsOK`.
- `CacheLimited`: `put` evicts everything past the cap, so at most `MaxEntries` verdicts are there when it adds one; `get` only takes away.

**Only model-checked.** Liveness (`Drains`, `CallsReturn`, `RequestsEnd`, `UploadsEnd`) and the absence of deadlock, which need fairness and
ENABLED and are beyond the proof system.

## 6. Behaviour worth knowing

The two violation runs show where the code and its comments disagree; `PROJECT.json`
quotes the comments. Six more formulas of the modules state what a comment says and do not hold. Each can be seen by
checking it as an invariant with the constants of the module's passing run (the first with those of `MCOCIStagingRestart`):

- *Missed promotion* (`NeverLate` of `OCIStaging`). In modelpack format `hasPending` runs without the repo mutex
  (ocibackend/write.go:477): between `layersFor` and `stage` of a concurrent `PutManifest` it sees no staged tag, and the last blob's `PutBlob`
  returns without promoting. The commit is staged with all its blobs there, and nothing promotes it until another `PutBlob` or `PutManifest` comes along.
- *Lost job* (`AckedEnqueued` of `RelayWrite`). A crash after `PutManifest` and before `fanOutCommit` loses the enqueue call, and the client's
  retry is answered by the no-op path (relay/write.go:261), which enqueues nothing.
- *Follower of a download* (`FollowerServed` of `PullThrough`). The leader of a blob flight re-keys the entry of its own manifest object; a
  follower that decoded its own keeps the sha1 digest (relay.go:300) and answers "vanished after pull-through" although the blob is stored.
- *Goroutine left behind* (`NoOrphan` of `Xet`). When another upload stores the same blob between `HasLFSBlob` and `PutLFSBlob`, the
  latter returns nil without reading the pipe; `materialize` closes the pipe only on an error (xet/service.go:337), and the
  goroutine that runs `reconstruct` waits on it for ever.
- *Ref without a manifest* (`NeverDangling` of `S3Backend`). `DeleteRepo` removes keys in listing order, manifests before refs
  (s3backend.go:162), so a reader that resolves a ref meanwhile finds no manifest; a delete that fails half-way leaves it so.
- *Shutdown cancels* (`DrainsGracefully` of `ServerGate`). `Run` "drains gracefully" (server.go:220), but its context is every request's
  parent (server.go:232): requests under way see a cancelled context at once, and one that waits for a slot may be answered 503 although its client is there and
  a slot is free.

The models also contain the following behaviours, which follow from
the code as written and have no run of their own:

- *Creation without the lock.* `relay.CreateRepo` (relay/write.go:37) takes no repo lock and the
  filesystem backend's check is a stat before an idempotent mkdir. Of two overlapping creations the
  second re-points `main` at the initial commit, possibly behind an acknowledged commit; and the
  initial commit is enqueued (write.go:56) possibly after a commit made on top of it. Hence `Calm`.
- *Half-created repo.* A crash or error between `backend.CreateRepo` and the first `PutManifest`
  (write.go:52) leaves a repo without `main`; a retried creation is answered "exists".
- *Delete without the lock.* `DeleteRepo` (write.go:83) may remove blobs and manifests between the
  steps of a commit, which then points `main` at what is gone. Hence `HeadServableUndeleted`.
- *Pinned parent.* A retried commit that names its parent is refused with a mismatch when its first
  attempt succeeded (write.go:185), because that check precedes the no-op check.
- *tar-layers retry.* A process that dies between `saveIndex` and `promoteStaged` leaves the commit staged,
  and the retried `PutBlob` returns early because the index has the blob (ocibackend/write.go:440).
- *Refs of an earlier staging.* `stage` merges them only if the GET succeeds; any error, not
  only not-found, drops them (ocibackend/write.go:206).
- *Late promotion.* Promoting an older staged commit takes a ref from a newer one put meanwhile
  (ocibackend/write.go:288).
- *Interrupted delete of a replica.* `fsbackend.DeleteRepo` removes the repo directory and then its metadata (fsbackend.go:97, :100). A job that fails
  or dies in between is retried, finds no directory, gets `ErrRepoNotFound` (fsbackend.go:94), which counts as success (replication.go:374), and is retired: the
  manifests stay, without blobs or refs, until a later delete of a repo of that name. The relay's own delete leaves them likewise (`RelayWrite.RemoveContent`).
- *Removal that failed.* A finished job whose spool file could not be removed runs again after a
  restart and may move a ref back (replication.go:232).
- *Late upload.* An LFS upload that arrives after a delete re-creates the repo directory without refs
  (fsbackend.go:240); a later creation is answered "exists".
- *Interrupted linking.* A `PutBlob` that fails or dies after the rename leaves snapshot files unlinked, and its
  retry returns early because the blob is there (fsbackend.go:237).
- *Unreadable manifests.* `PutBlob` passes over a manifest it cannot read while it looks for snapshots to link (fsbackend.go:326) and succeeds; those files stay unlinked
  as after an interrupted linking.
- *Revalidation forgets re-keys.* `fetchManifest` writes the listing over the stored manifest (relay.go:184), with
  sha1 digests for regular files and none for files without details: their blobs are in the backend under keys that
  no entry names, so they are downloaded again, and cannot be served while upstream is down.
- *Lost re-key.* Two requests with their own copies of a manifest re-key different files, and the second
  `PutManifest` (relay.go:360) undoes the first.
- *Repeated download.* A request that looked for the blob before a flight ended and calls `Do` after it downloads
  the file again (relay.go:246, :300).
- *Shared manifest objects.* Requests of one manifest flight write the entries of one object without a lock
  (relay.go:274, :358), a data race in Go's terms.
- *Refusals are cached.* Any answer of upstream but 200, a 429 or 503 too, is a verdict and refuses the token for the cache's
  whole TTL (authz.go:96).
- *Late verdicts.* Two requests may ask upstream about one token at the same time, and the older answer may be put last
  (authz.go:106); a revocation seen by one request can be forgotten until that entry expires.
- *Authorised before the wait.* An upload is authorised before it waits for a slot (write_handlers.go:253), so it may start long after
  its verdict has expired.
- *Empty files.* A reconstruction query for an empty file is answered 416 "range beyond end of file", with or without a Range header
  (xet/service.go:469).
- *Shards before their xorbs.* `HandleShardUpload` looks for no xorb a shard names. A file whose xorbs are missing is refused with a 400 (xet/service.go:308), but its record and
  sha256 mapping are already written (xet/store.go:182) and nothing takes them back: `resolve` advertises a file that cannot be fetched, until its xorbs come. A
  file without sha256, or whose blob is already in the backend, is not reconstructed at all, so that such a shard is accepted and registers pointers to xorbs that were
  never stored (xet/service.go:273).
- *Terms outside their xorbs.* A term's bounds are not checked when the shard is uploaded, and a reconstruction compares only `ChunkEnd` with the number of chunks (xet/service.go:450): a
  `ChunkStart` at or past the end, or a `ChunkEnd` of 0, is an index out of range (xet/service.go:464, :465), which net/http turns into a closed connection.
- *Refusals without an answer.* A read-token request whose validation fails for want of an answer is refused with 401 "Invalid user token." (handlers.go:309), where a write is answered 502
  (authz.go:75); with no upstream configured every token is refused (authz.go:89).
- *Puts behind a delete.* A `DeleteRepo` on S3 does not see keys put behind its continuation token (s3backend.go:157); they survive a delete that
  reports success.

## 7. What is not modelled

Planned (section 2): sessions and token refresh of the OCI client, the web-identity cache, tree pagination. `ServerGate` has only the passthrough mode: mode
`none` asks nothing. `Xet` has one repo and one backend, in which `PutBlob` behaves as `fsbackend`'s.
`S3Backend` has one ref per repo. `FsSnapshot` has no `DeleteRepo`, which
`RelayWrite` has without snapshots.
Left out for good: HTTP and JSON formats, request signing, hashing (digests are
model values), tar and chunk bytes, logging, metrics, audit output, configuration
parsing, registry garbage collection (the registry's own policy), test doubles, charts and the website.
The registry, the file system and the clients are external: the first two are modelled by
what a completed or failed operation leaves behind, the clients by the requests they may send.
