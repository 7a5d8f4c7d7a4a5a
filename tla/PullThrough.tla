---------------------------- MODULE PullThrough ----------------------------
(***************************************************************************)
(* The relay's read path (internal/relay/relay.go) for one repository with *)
(* an upstream: resolving a revision to a manifest, backfilling and        *)
(* re-keying its entries, and pulling blobs through, as handleResolve      *)
(* calls them.                                                             *)
(*                                                                         *)
(* A manifest is an object in memory.  A request that reads the backend    *)
(* decodes an object of its own; the requests of one manifest flight share *)
(* their leader's, and write its entries without a lock.  Such a write     *)
(* stores a string, pointer and length, in two steps: in between another   *)
(* request sees a torn digest, or, when there was none before, still none  *)
(* or a length without a pointer, which makes it panic.                    *)
(*                                                                         *)
(* A backend call is one step here (FsSnapshot and OCIStaging take them    *)
(* apart).  Whether a cached ref is stale depends on the clock and is left *)
(* open.  Each request is made once.                                       *)
(***************************************************************************)
EXTENDS Naturals, FiniteSets, Functions

CONSTANTS
    Requests,   \* HTTP requests to resolve/{rev}/{path}
    Commits,    \* upstream's commits
    Paths,      \* file paths
    Contents,   \* file contents
    ContentAt,  \* ContentAt[c][p]: what path p of commit c holds
    Identity,   \* Identity[c][p]: sha256 for an LFS file, sha1 for a regular one
    Listed,     \* Listed[c][p]: what model info says: that digest, zero, or absent
    Main,       \* the branch; a revision that is not a commit
    None,       \* no commit, no request, no manifest
    Limit,      \* bounds on failures, pushes upstream and crashes
    MaxUpsets   \* bound on all of these together

Limited == {"failure", "push", "crash"}
Algos == {"sha1", "sha256"}
Digests == Algos \cup {"zero", "torn", "absent"}

ASSUME UpstreamAssumption ==
    /\ Contents # {}
    /\ ContentAt \in [Commits -> [Paths -> Contents]]
    /\ Identity \in [Commits -> [Paths -> Algos]]
    /\ Listed \in [Commits -> [Paths -> Algos \cup {"zero", "absent"}]]
    /\ \A c \in Commits, p \in Paths : Listed[c][p] \in {Identity[c][p], "zero", "absent"}
ASSUME NoneAssumption == Main \notin Commits /\ None \notin Requests \cup Commits \cup {Main}
ASSUME LimitAssumption == Limit \in [Limited -> Nat] /\ MaxUpsets \in Nat

VARIABLES
    head,       \* upstream's main
    stored,     \* backend: commits with a manifest ...
    files,      \* ... and the digests of its entries
    ref,        \* backend: the commit main is cached as
    blobs,      \* backend: blobs, by algorithm and content
    want,       \* per request: revision, path and method
    pc,         \* per request: its next step, or how it ended
    cached,     \* per request: the commit of the stale local manifest ...
    heap,       \* per request: the manifest object it made ...
    obj,        \* ... and whose object it works on
    mflight,    \* manifestSF: the leader per revision
    bflight,    \* blobSF: the leader per digest
    key,        \* per request: the blob flight it leads or joined
    joined,     \* history: requests that joined another one's blob flight
    spent       \* how much of each Limit has been used

backend == <<stored, files, ref, blobs>>
flights == <<mflight, bflight, key, joined>>
vars == <<head, backend, want, pc, cached, heap, obj, flights, spent>>

-----------------------------------------------------------------------------
Revisions == Commits \cup {Main}
Keys == Digests \X Contents
Manifest == [commit: Commits \cup {None}, files: [Paths -> Digests]]
NoManifest == [commit |-> None, files |-> [p \in Paths |-> "absent"]]
Want == [rev: Revisions \cup {None}, path: Paths \cup {None}, method: {"GET", "HEAD"}]

Ended == {"served", "notfound", "error", "lost"}
Points == {"new", "resolve", "wait", "info", "put", "entry", "stat", "fill", "keep",
           "open", "fetch", "join", "download", "algo", "verify", "rekey", "rekeyed", "save",
           "putBlob", "reopen"} \cup Ended

Spend(what) == /\ spent[what] < Limit[what]
               /\ SumFunction(spent) < MaxUpsets
               /\ spent' = [spent EXCEPT ![what] = @ + 1]
At(r, point) == pc[r] = point
Goto(r, point) == pc' = [pc EXCEPT ![r] = point]

\* The object a request works on, its file's entry there, and its content.
Object(r) == heap[obj[r]]
Entry(r) == Object(r).files[want[r].path]
Content(r) == ContentAt[Object(r).commit][want[r].path]
Held(r) == <<Entry(r), Content(r)>> \in blobs

SetEntry(r, digest) == heap' = [heap EXCEPT ![obj[r]].files[want[r].path] = digest]

Init ==
    /\ head \in Commits
    /\ stored = {} /\ files = [c \in Commits |-> NoManifest.files]
    /\ ref = None /\ blobs = {}
    /\ want = [r \in Requests |-> [rev |-> None, path |-> None, method |-> "GET"]]
    /\ pc = [r \in Requests |-> "new"]
    /\ cached = [r \in Requests |-> NoManifest]
    /\ heap = [r \in Requests |-> NoManifest]
    /\ obj = [r \in Requests |-> r]
    /\ mflight = [v \in Revisions |-> None]
    /\ bflight = [k \in Keys |-> None]
    /\ key = [r \in Requests |-> <<"zero", CHOOSE x \in Contents : TRUE>>]
    /\ joined = {}
    /\ spent = [w \in Limited |-> 0]

-----------------------------------------------------------------------------
(* ResolveManifest *)

Request(r, v, p, method) ==
    /\ At(r, "new")
    /\ want' = [want EXCEPT ![r] = [rev |-> v, path |-> p, method |-> method]]
    /\ Goto(r, "resolve")
    /\ UNCHANGED <<head, backend, cached, heap, obj, flights, spent>>

\* The commit a revision names in the backend.
Local(v) == IF v = Main THEN ref ELSE IF v \in stored THEN v ELSE None
Decoded(c) == [commit |-> c, files |-> files[c]]

\* localManifest serves: the revision is a commit, or the cached ref is fresh.
LocalHit(r) ==
    /\ At(r, "resolve")
    /\ Local(want[r].rev) # None
    /\ heap' = [heap EXCEPT ![r] = Decoded(Local(want[r].rev))]
    /\ Goto(r, "entry")
    /\ UNCHANGED <<head, backend, want, cached, obj, flights, spent>>

\* manifestSF.Do, as leader or as follower of a flight.
FetchManifest(r) ==
    LET v == want[r].rev IN
    /\ IF mflight[v] = None
       THEN mflight' = [mflight EXCEPT ![v] = r] /\ Goto(r, "info")
       ELSE UNCHANGED mflight /\ Goto(r, "wait")
    /\ UNCHANGED <<head, backend, want, heap, obj, bflight, key, joined>>

\* A miss, or a stale ref.
LocalMiss(r) ==
    LET v == want[r].rev IN
    /\ At(r, "resolve")
    /\ v = Main \/ Local(v) = None
    /\ cached' = IF Local(v) = None THEN cached ELSE [cached EXCEPT ![r] = Decoded(Local(v))]
    /\ FetchManifest(r)
    /\ UNCHANGED spent

\* Any error of the backend counts as a miss.
LocalFails(r) ==
    /\ At(r, "resolve")
    /\ Spend("failure")
    /\ FetchManifest(r)
    /\ UNCHANGED cached

\* The flight of r's revision is over for its leader and everyone who waits.
Flight(r) == {q \in Requests : At(q, "wait") /\ want[q].rev = want[r].rev} \cup {r}

ManifestFromModelInfo(c) == [commit |-> c, files |-> Listed[c]]

GetModelInfo(r) ==
    LET c == IF want[r].rev = Main THEN head ELSE want[r].rev IN
    /\ At(r, "info")
    /\ heap' = [heap EXCEPT ![r] = ManifestFromModelInfo(c)]
    /\ Goto(r, "put")
    /\ UNCHANGED <<head, backend, want, cached, obj, flights, spent>>

\* bk.PutManifest(m, refs), and everyone gets the leader's object.
PutFetched(r) ==
    LET c == heap[r].commit IN
    /\ At(r, "put")
    /\ stored' = stored \cup {c} /\ files' = [files EXCEPT ![c] = heap[r].files]
    /\ ref' = IF want[r].rev = Main THEN c ELSE ref
    /\ mflight' = [mflight EXCEPT ![want[r].rev] = None]
    /\ obj' = [q \in Requests |-> IF q \in Flight(r) THEN r ELSE obj[q]]
    /\ pc' = [q \in Requests |-> IF q \in Flight(r) THEN "entry" ELSE pc[q]]
    /\ UNCHANGED <<head, blobs, want, cached, heap, bflight, key, joined, spent>>

\* The fetch fails: who has a stale copy serves it, the others fail.
FetchFails(r) ==
    /\ pc[r] \in {"info", "put"}
    /\ Spend("failure")
    /\ mflight' = [mflight EXCEPT ![want[r].rev] = None]
    /\ heap' = [q \in Requests |-> IF q \in Flight(r) THEN cached[q] ELSE heap[q]]
    /\ pc' = [q \in Requests |-> IF q \notin Flight(r) THEN pc[q]
                                 ELSE IF cached[q] # NoManifest THEN "entry" ELSE "error"]
    /\ UNCHANGED <<head, backend, want, cached, obj, bflight, key, joined>>

-----------------------------------------------------------------------------
(* EnsureEntry, backfillDigest *)

EnsureEntry(r) ==
    /\ At(r, "entry")
    /\ Goto(r, CASE Entry(r) = "absent" -> "notfound"
                 [] Entry(r) = "zero" -> "stat"
                 [] OTHER -> IF want[r].method = "HEAD" THEN "served" ELSE "open")
    /\ UNCHANGED <<head, backend, want, cached, heap, obj, flights, spent>>

StatFile(r) ==
    /\ At(r, "stat")
    /\ Goto(r, "fill")
    /\ UNCHANGED <<head, backend, want, cached, heap, obj, flights, spent>>

\* entry.Digest = ...
WriteEntry(r, from, to, digest) ==
    /\ At(r, from)
    /\ SetEntry(r, digest)
    /\ Goto(r, to)
    /\ UNCHANGED <<head, backend, want, cached, obj, flights, spent>>
Backfill(r) == WriteEntry(r, "fill", "keep", Identity[Object(r).commit][want[r].path])

\* bk.PutManifest(m, nil): the whole object, as it is in memory now.
Persist(r) == /\ stored' = stored \cup {Object(r).commit}
              /\ files' = [files EXCEPT ![Object(r).commit] = Object(r).files]

PersistBackfill(r) ==
    /\ At(r, "keep")
    /\ Persist(r)
    /\ Goto(r, IF want[r].method = "HEAD" THEN "served" ELSE "open")
    /\ UNCHANGED <<head, ref, blobs, want, cached, heap, obj, flights, spent>>

\* Upstream or the backend fails, or there is no download slot for the request.
EntryFails(r) ==
    /\ pc[r] \in {"stat", "keep", "open"}
    /\ Spend("failure")
    /\ Goto(r, "error")
    /\ UNCHANGED <<head, backend, want, cached, heap, obj, flights>>

-----------------------------------------------------------------------------
(* OpenFile, fetchBlob, storeRegularBlob *)

OpenBlob(r) ==
    /\ At(r, "open")
    /\ Goto(r, IF Held(r) THEN "served" ELSE "fetch")
    /\ UNCHANGED <<head, backend, want, cached, heap, obj, flights, spent>>

\* Mutant: everybody downloads.
FetchBlobAlways(r) ==
    LET k == <<Entry(r), Content(r)>> IN
    /\ At(r, "fetch")
    /\ key' = [key EXCEPT ![r] = k]
    /\ bflight' = [bflight EXCEPT ![k] = r]
    /\ Goto(r, "download")
    /\ UNCHANGED <<head, backend, want, cached, heap, obj, mflight, joined, spent>>

\* blobSF.Do, under the digest the entry has now.
FetchBlob(r) ==
    LET k == <<Entry(r), Content(r)>> IN
    /\ At(r, "fetch")
    /\ key' = [key EXCEPT ![r] = k]
    /\ IF bflight[k] = None
       THEN bflight' = [bflight EXCEPT ![k] = r] /\ Goto(r, "download") /\ UNCHANGED joined
       ELSE UNCHANGED bflight /\ Goto(r, "join") /\ joined' = joined \cup {r}
    /\ UNCHANGED <<head, backend, want, cached, heap, obj, mflight, spent>>

\* Mutant: only the leader goes on.
LandAlone(r, point) ==
    /\ bflight' = [bflight EXCEPT ![key[r]] = None]
    /\ Goto(r, point)
    /\ UNCHANGED <<mflight, key, joined>>

\* The blob flight that r leads ends, and so does the waiting of its followers.
Land(r, point) ==
    /\ bflight' = [bflight EXCEPT ![key[r]] = None]
    /\ pc' = [q \in Requests |->
                IF q = r \/ (At(q, "join") /\ key[q] = key[r]) THEN point ELSE pc[q]]
    /\ UNCHANGED <<mflight, key, joined>>

\* upstream.OpenFile at the object's commit.
OpenUpstream(r) ==
    /\ At(r, "download")
    /\ Goto(r, "algo")
    /\ UNCHANGED <<head, backend, want, cached, heap, obj, flights, spent>>

\* Mutant: regular files are stored under the digest they are listed with.
AlgoIgnored(r) ==
    /\ At(r, "algo")
    /\ Goto(r, "putBlob")
    /\ UNCHANGED <<head, backend, want, cached, heap, obj, flights, spent>>

\* A torn digest may start either way.
Algo(r) ==
    /\ At(r, "algo")
    /\ \/ Entry(r) \in {"sha1", "torn"} /\ Goto(r, "verify")
       \/ Entry(r) # "sha1" /\ Goto(r, "putBlob")
    /\ UNCHANGED <<head, backend, want, cached, heap, obj, flights, spent>>

\* A digest that the content does not have is refused.
PutBlob(r) ==
    /\ At(r, "putBlob")
    /\ IF Entry(r) = "torn"
       THEN Land(r, "error") /\ UNCHANGED blobs
       ELSE Land(r, "reopen") /\ blobs' = blobs \cup {<<Entry(r), Content(r)>>}
    /\ UNCHANGED <<head, stored, files, ref, want, cached, heap, obj, spent>>

\* Mutant: an error of PutBlob is ignored.
StoreRegularAnyhow(r) ==
    /\ At(r, "verify")
    /\ IF Entry(r) = "sha1"
       THEN /\ blobs' \in {blobs, blobs \cup {<<"sha256", Content(r)>>}}
            /\ Goto(r, "rekey") /\ UNCHANGED flights
       ELSE Land(r, "error") /\ UNCHANGED blobs
    /\ UNCHANGED <<head, stored, files, ref, want, cached, heap, obj, spent>>

\* storeRegularBlob: the git OID is compared with the entry's, the content is
\* stored under its sha256, the entry re-keyed and the manifest saved.
StoreRegular(r) ==
    /\ At(r, "verify")
    /\ IF Entry(r) = "sha1"
       THEN /\ blobs' = blobs \cup {<<"sha256", Content(r)>>}
            /\ Goto(r, "rekey") /\ UNCHANGED flights
       ELSE Land(r, "error") /\ UNCHANGED blobs
    /\ UNCHANGED <<head, stored, files, ref, want, cached, heap, obj, spent>>

\* Mutant: the entry keeps its digest.
RekeyForgotten(r) == /\ At(r, "rekey")
                     /\ Goto(r, "save")
                     /\ UNCHANGED <<head, backend, want, cached, heap, obj, flights, spent>>

Rekey(r) == \/ WriteEntry(r, "rekey", "rekeyed", "torn")
            \/ WriteEntry(r, "rekeyed", "save", "sha256")

SaveRekeyed(r) ==
    /\ At(r, "save")
    /\ Persist(r)
    /\ Land(r, "reopen")
    /\ UNCHANGED <<head, ref, blobs, want, cached, heap, obj, spent>>

\* A request to upstream or to the backend fails, or the leader's client goes
\* away and its context with it.
BlobFails(r) ==
    /\ pc[r] \in {"download", "verify", "save", "putBlob"}
    /\ Spend("failure")
    /\ Land(r, "error")
    /\ UNCHANGED <<head, backend, want, cached, heap, obj>>

\* A request reads an entry, or encodes the object, that another one is giving
\* its first digest.
Panic(r) ==
    /\ \E q \in Requests \ {r} : obj[q] = obj[r] /\ At(q, "fill")
    /\ \/ pc[r] \in {"entry", "open", "fetch", "keep"} /\ Goto(r, "error") /\ UNCHANGED flights
       \/ At(r, "save") /\ Land(r, "error")
    /\ UNCHANGED <<head, backend, want, cached, heap, obj, spent>>

Reopen(r) ==
    /\ At(r, "reopen")
    /\ Goto(r, IF Held(r) THEN "served" ELSE "error")
    /\ UNCHANGED <<head, backend, want, cached, heap, obj, flights, spent>>

-----------------------------------------------------------------------------
(* Upstream and the process *)

Push(c) ==
    /\ c # head
    /\ Spend("push")
    /\ head' = c
    /\ UNCHANGED <<backend, want, pc, cached, heap, obj, flights>>

\* Only the backend survives.
Crash ==
    /\ Spend("crash")
    /\ pc' = [r \in Requests |-> IF pc[r] \in Ended \cup {"new"} THEN pc[r] ELSE "lost"]
    /\ mflight' = [v \in Revisions |-> None]
    /\ bflight' = [k \in Keys |-> None]
    /\ UNCHANGED <<head, backend, want, cached, heap, obj, key, joined>>

Step(r) == \/ LocalHit(r) \/ LocalMiss(r) \/ GetModelInfo(r) \/ PutFetched(r)
           \/ EnsureEntry(r) \/ StatFile(r) \/ Backfill(r) \/ PersistBackfill(r)
           \/ OpenBlob(r) \/ FetchBlob(r) \/ OpenUpstream(r) \/ Algo(r) \/ PutBlob(r)
           \/ StoreRegular(r) \/ Rekey(r) \/ SaveRekeyed(r) \/ Reopen(r)

Next ==
    \/ \E r \in Requests :
          \/ \E v \in Revisions, p \in Paths, method \in {"GET", "HEAD"} :
                Request(r, v, p, method)
          \/ Step(r) \/ Panic(r) \/ LocalFails(r) \/ FetchFails(r) \/ EntryFails(r) \/ BlobFails(r)
    \/ \E c \in Commits : Push(c)
    \/ Crash

\* Handlers run on: upstream and the backend answer, with a result or an error.
Fairness == \A r \in Requests : WF_vars(Step(r))

Spec == Init /\ [][Next]_vars
FairSpec == Spec /\ Fairness

-----------------------------------------------------------------------------
(* Correctness *)

\* Every variable ranges over the values its Go counterpart can take.
TypeOK ==
    /\ head \in Commits /\ stored \subseteq Commits
    /\ files \in [Commits -> [Paths -> Digests]]
    /\ ref \in Commits \cup {None} /\ blobs \subseteq Keys
    /\ want \in [Requests -> Want] /\ pc \in [Requests -> Points]
    /\ cached \in [Requests -> Manifest] /\ heap \in [Requests -> Manifest]
    /\ obj \in [Requests -> Requests]
    /\ mflight \in [Revisions -> Requests \cup {None}]
    /\ bflight \in [Keys -> Requests \cup {None}]
    /\ key \in [Requests -> Keys] /\ joined \subseteq Requests
    /\ spent \in [Limited -> Nat]

\* "Storage invariant: blobs are always keyed by their content sha256", for the
\* files whose listing had blob details: a late backfill may put the sha1 digest
\* back into a shared entry between the reads of it.
KeyedBySha256 ==
    \A k \in blobs : k[1] = "sha256" \/ \E c \in Commits, p \in Paths :
                         ContentAt[c][p] = k[2] /\ Listed[c][p] = "zero"

\* A regular file's entry gets its sha256 key only once the blob is stored under
\* it, so a manifest never names a key for content that was not pulled yet.
RekeyedPresent ==
    \A c \in stored, p \in Paths :
        files[c][p] = "sha256" /\ Identity[c][p] = "sha1"
            => <<"sha256", ContentAt[c][p]>> \in blobs

\* Between the calls of Do and the return of their functions a request fetches.
Fetching == {"info", "put"}
Pulling == {"download", "algo", "verify", "rekey", "rekeyed", "save", "putBlob"}

\* "Concurrent misses for the same object are collapsed with singleflight": at any
\* time at most one request fetches the manifest of a revision, and at most one the
\* blob of a digest; and whoever waits for a fetch waits for one that is under way,
\* whatever has failed.
FlightsLed ==
    /\ \A v \in Revisions, r \in Requests : mflight[v] = r <=> pc[r] \in Fetching /\ want[r].rev = v
    /\ \A k \in Keys, r \in Requests : bflight[k] = r <=> pc[r] \in Pulling /\ key[r] = k
    /\ \A r \in Requests : /\ At(r, "wait") => mflight[want[r].rev] # None
                           /\ At(r, "join") => bflight[key[r]] # None

Shares(r) == \E q \in Requests \ {r} : obj[q] = obj[r]

\* While nothing fails, a request that works on a manifest object of its own,
\* without a torn entry, and runs its own download is answered.
SoloServed ==
    spent["failure"] = 0 =>
        \A r \in Requests : At(r, "error") => r \in joined \/ Shares(r) \/ Entry(r) = "torn"

\* "Concurrent misses for the same object are collapsed with singleflight": while
\* nothing fails, joining another request's download is as good as one's own.
\* It is not kept: README, section 6.
FollowerServed ==
    spent["failure"] = 0 =>
        \A r \in Requests : At(r, "error") => Shares(r) \/ Entry(r) = "torn"

\* In the end every request that was made (and none is made twice) is answered or
\* its process has died: no follower outlives its flight.
RequestsEnd == <>[](\A r \in Requests : pc[r] \in Ended \cup {"new"})
=============================================================================
