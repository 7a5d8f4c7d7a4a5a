----------------------------- MODULE S3Backend ----------------------------
(***************************************************************************)
(* One repository of the S3 backend (internal/backend/s3backend, over      *)
(* internal/s3client): a prefix of a bucket with a marker, blobs,          *)
(* manifests and refs, and no lock.                                        *)
(*                                                                         *)
(* A step is one request to the bucket, which is strongly consistent and   *)
(* lists keys in lexicographic order, a page at a time.  A request may     *)
(* fail before or after it took effect.  Readers follow a ref to its       *)
(* manifest and read a blob through rangedReader.                          *)
(***************************************************************************)
EXTENDS Naturals, Sequences, FiniteSets

CONSTANTS
    Callers,    \* goroutines, of one process or of several sharing the bucket
    Readers,
    Commits,    \* commit ids, which also name the manifests' keys
    Blobs,      \* digests, which also name the blobs' keys
    Marker,     \* the key CreateRepo writes
    Ref,        \* the key of the one ref
    Order,      \* the keys in lexicographic order
    PageSize,   \* keys per page of a listing
    BlobSize,   \* bytes in a blob
    None,
    Limit       \* bounds on calls, seeks, and failures or crashes

Keys == {Marker, Ref} \cup Commits \cup Blobs
Limited == {"create", "delete", "put", "blob", "seek", "failure"}

ASSUME OrderAssumption == Order \in Seq(Keys) /\ \A k \in Keys : \E i \in DOMAIN Order : Order[i] = k
ASSUME KeysAssumption ==
    /\ Marker \notin Commits \cup Blobs \cup {Ref} /\ Ref \notin Commits \cup Blobs
    /\ Commits \cap Blobs = {} /\ None \notin Keys \cup {"marker", "manifest", "good", "bad"}
ASSUME SizesAssumption == PageSize \in Nat \ {0} /\ BlobSize \in Nat
ASSUME LimitAssumption == Limit \in [Limited -> Nat]

VARIABLES
    bucket,     \* per key: what is stored there, or None
    pc,         \* per caller: its next request
    op,         \* per caller: its arguments and what a listing gave it
    rd,         \* per reader: where it is and what it has read
    intact,     \* history: 1 while no DeleteRepo ran since the manifest behind the ref was put
    escaped,    \* history: keys a DeleteRepo that succeeded should have removed
    spent

vars == <<bucket, pc, op, rd, intact, escaped, spent>>

-----------------------------------------------------------------------------
Bodies == {"good", "bad"}       \* an upload has the content of its digest, or not
Objects == {"marker", "manifest"} \cup Bodies \cup Commits

Points == {"idle", "exists", "marker", "list", "delete", "manifest", "ref", "head", "spool", "put"}
Op == [key: Keys \cup {None}, ref: {0, 1}, body: Bodies, keys: SUBSET Keys,
       token: 0..Len(Order), next: 0..Len(Order), found: {0, 1}, undisturbed: {0, 1},
       doomed: SUBSET Keys]
NoOp == [key |-> None, ref |-> 0, body |-> "good", keys |-> {}, token |-> 0, next |-> 0,
         found |-> 0, undisturbed |-> 1, doomed |-> {}]

Rd == [at: {"idle", "manifest", "open", "read", "eof", "dangling"}, commit: Commits \cup {None},
       intact: {0, 1}, key: Blobs \cup {None}, pos: 0..BlobSize, cur: (0..BlobSize) \cup {None},
       from: 0..BlobSize, got: Seq(0..BlobSize)]
NoRd == [at |-> "idle", commit |-> None, intact |-> 1, key |-> None, pos |-> 0, cur |-> None,
         from |-> 0, got |-> <<>>]

Index(k) == CHOOSE i \in DOMAIN Order : Order[i] = k
Stored == {k \in Keys : bucket[k] # None}

Spend(what) == /\ spent[what] < Limit[what]
               /\ spent' = [spent EXCEPT ![what] = @ + 1]

At(k, point) == pc[k] = point
Goto(k, point) == pc' = [pc EXCEPT ![k] = point]
Call(k, what, point, o) ==
    /\ At(k, "idle")
    /\ Spend(what)
    /\ Goto(k, point)
    /\ op' = [op EXCEPT ![k] = o]

\* client.Put: the object is there from now on; no DeleteRepo can be blamed for it.
Put(key, value, o) ==
    /\ bucket' = [bucket EXCEPT ![key] = value]
    /\ op' = [j \in Callers |-> [o[j] EXCEPT !.doomed = @ \ {key}]]

Returned(k) == [op EXCEPT ![k] = NoOp]

Init ==
    /\ bucket = [k \in Keys |-> None]
    /\ pc = [k \in Callers |-> "idle"] /\ op = [k \in Callers |-> NoOp]
    /\ rd = [r \in Readers |-> NoRd]
    /\ intact = 1 /\ escaped = {}
    /\ spent = [w \in Limited |-> 0]

-----------------------------------------------------------------------------
(* CreateRepo *)

CreateRepo(k) ==
    /\ Call(k, "create", "exists", NoOp)
    /\ UNCHANGED <<bucket, rd, intact, escaped>>

\* repoExists: ErrRepoExists when the prefix has any object.
RepoExists(k) ==
    /\ At(k, "exists")
    /\ Goto(k, IF Stored # {} THEN "idle" ELSE "marker")
    /\ UNCHANGED <<bucket, op, rd, intact, escaped, spent>>

PutMarker(k) ==
    /\ At(k, "marker")
    /\ Put(Marker, "marker", Returned(k))
    /\ Goto(k, "idle")
    /\ UNCHANGED <<rd, intact, escaped, spent>>

-----------------------------------------------------------------------------
(* DeleteRepo: list a page, delete its keys one by one, list the next *)

DeleteRepo(k) ==
    /\ Call(k, "delete", "list", [NoOp EXCEPT !.doomed = Stored])
    /\ UNCHANGED <<bucket, rd, intact, escaped>>

\* Mutant: the truncation mark of a page is overlooked.
ListFirstPage(k) ==
    LET rest == {key \in Stored : Index(key) > op[k].token}
        page == {key \in rest : Cardinality({j \in rest : Index(j) < Index(key)}) < PageSize}
    IN /\ At(k, "list")
       /\ Goto(k, "delete")
       /\ op' = [op EXCEPT ![k].keys = page, ![k].next = 0]
       /\ UNCHANGED <<bucket, rd, intact, escaped, spent>>

\* client.List: the first keys after the token, and a token when there are more.
ListPage(k) ==
    LET rest == {key \in Stored : Index(key) > op[k].token}
        page == {key \in rest : Cardinality({j \in rest : Index(j) < Index(key)}) < PageSize}
        last == CHOOSE key \in page : \A j \in page : Index(j) <= Index(key)
    IN /\ At(k, "list")
       /\ Goto(k, "delete")
       /\ op' = [op EXCEPT ![k].keys = page,
                           ![k].next = IF page = rest THEN 0 ELSE Index(last)]
       /\ UNCHANGED <<bucket, rd, intact, escaped, spent>>

\* client.Delete of the next key of the page; a missing one is deleted as well.
DeleteKey(k) ==
    /\ At(k, "delete")
    /\ \E key \in op[k].keys :
          /\ \A j \in op[k].keys : Index(key) <= Index(j)
          /\ bucket' = [bucket EXCEPT ![key] = None]
          /\ op' = [j \in Callers |->
                      [op[j] EXCEPT !.undisturbed = IF op[j] = NoOp THEN 1 ELSE 0,
                                    !.keys = IF j = k THEN @ \ {key} ELSE @,
                                    !.found = IF j = k THEN 1 ELSE @]]
    /\ intact' = 0
    /\ rd' = [r \in Readers |-> [rd[r] EXCEPT !.intact = IF rd[r] = NoRd THEN 1 ELSE 0]]
    /\ UNCHANGED <<pc, escaped, spent>>

\* The page is done: the next one, or return.
PageDone(k) ==
    /\ At(k, "delete")
    /\ op[k].keys = {}
    /\ IF op[k].next # 0
       THEN /\ Goto(k, "list")
            /\ op' = [op EXCEPT ![k].token = op[k].next]
            /\ UNCHANGED escaped
       ELSE /\ Goto(k, "idle")
            /\ op' = Returned(k)
            /\ escaped' = IF op[k].found = 1 THEN escaped \cup (op[k].doomed \cap Stored) ELSE escaped
    /\ UNCHANGED <<bucket, rd, intact, spent>>

-----------------------------------------------------------------------------
(* PutManifest and PutBlob *)

PutManifest(k, c, ref) ==
    /\ Call(k, "put", "manifest", [NoOp EXCEPT !.key = c, !.ref = ref])
    /\ UNCHANGED <<bucket, rd, intact, escaped>>

\* Mutant: the ref goes first.
PutManifestObjectLast(k) ==
    /\ At(k, "manifest")
    /\ IF op[k].ref = 1 /\ bucket[Ref] # op[k].key
       THEN Put(Ref, op[k].key, op) /\ UNCHANGED pc
       ELSE Put(op[k].key, "manifest", Returned(k)) /\ Goto(k, "idle")
    /\ intact' = IF op[k].ref = 1 THEN op[k].undisturbed ELSE intact
    /\ UNCHANGED <<rd, escaped, spent>>

PutManifestObject(k) ==
    /\ At(k, "manifest")
    /\ IF op[k].ref = 1
       THEN Put(op[k].key, "manifest", op) /\ Goto(k, "ref")
       ELSE Put(op[k].key, "manifest", Returned(k)) /\ Goto(k, "idle")
    /\ UNCHANGED <<rd, intact, escaped, spent>>

PutRef(k) ==
    /\ At(k, "ref")
    /\ Put(Ref, op[k].key, Returned(k))
    /\ Goto(k, "idle")
    /\ intact' = op[k].undisturbed
    /\ UNCHANGED <<rd, escaped, spent>>

PutBlob(k, b, body) ==
    /\ Call(k, "blob", "head", [NoOp EXCEPT !.key = b, !.body = body])
    /\ UNCHANGED <<bucket, rd, intact, escaped>>

\* client.Head: "already have it"; any error is taken for a miss.
HeadBlob(k) ==
    /\ At(k, "head")
    /\ IF bucket[op[k].key] # None
       THEN \/ Goto(k, "idle") /\ op' = Returned(k) /\ UNCHANGED spent
            \/ Spend("failure") /\ Goto(k, "spool") /\ UNCHANGED op
       ELSE Goto(k, "spool") /\ UNCHANGED <<op, spent>>
    /\ UNCHANGED <<bucket, rd, intact, escaped>>

\* Mutant: the content is not compared with the digest.
SpoolOnly(k) ==
    /\ At(k, "spool")
    /\ Goto(k, "put")
    /\ UNCHANGED <<bucket, op, rd, intact, escaped, spent>>

\* spoolAndVerify: content that does not have the digest goes no further.
SpoolAndVerify(k) ==
    /\ At(k, "spool")
    /\ IF op[k].body = "good"
       THEN Goto(k, "put") /\ UNCHANGED op
       ELSE Goto(k, "idle") /\ op' = Returned(k)
    /\ UNCHANGED <<bucket, rd, intact, escaped, spent>>

PutBlobObject(k) ==
    /\ At(k, "put")
    /\ Put(op[k].key, op[k].body, Returned(k))
    /\ Goto(k, "idle")
    /\ UNCHANGED <<rd, intact, escaped, spent>>

-----------------------------------------------------------------------------
(* Readers: ResolveRef, GetManifest, OpenBlob and rangedReader *)

ResolveRef(r) ==
    /\ rd[r].at = "idle"
    /\ bucket[Ref] # None
    /\ rd' = [rd EXCEPT ![r] = [NoRd EXCEPT !.at = "manifest", !.commit = bucket[Ref], !.intact = intact]]
    /\ UNCHANGED <<bucket, pc, op, intact, escaped, spent>>

GetManifest(r) ==
    /\ rd[r].at = "manifest"
    /\ rd' = [rd EXCEPT ![r].at = IF bucket[rd[r].commit] # None THEN "open" ELSE "dangling"]
    /\ UNCHANGED <<bucket, pc, op, intact, escaped, spent>>

\* OpenRanged: HEAD fixes the size.
OpenBlob(r, b) ==
    /\ rd[r].at = "open"
    /\ rd' = [rd EXCEPT ![r] = IF bucket[b] = None THEN NoRd
                               ELSE [@ EXCEPT !.at = "read", !.key = b]]
    /\ UNCHANGED <<bucket, pc, op, intact, escaped, spent>>

\* Mutant: a seek leaves the open stream where it is.
SeekKeepsStream(r, next) ==
    /\ rd[r].at \in {"read", "eof"}
    /\ Spend("seek")
    /\ rd' = [rd EXCEPT ![r] = [@ EXCEPT !.at = "read", !.pos = next, !.from = next, !.got = <<>>]]
    /\ UNCHANGED <<bucket, pc, op, intact, escaped>>

\* A seek to another position drops the stream.
Seek(r, next) ==
    /\ rd[r].at \in {"read", "eof"}
    /\ Spend("seek")
    /\ rd' = [rd EXCEPT ![r] = [rd[r] EXCEPT !.at = "read", !.pos = next, !.from = next, !.got = <<>>,
                                             !.cur = IF next # rd[r].pos THEN None ELSE rd[r].cur]]
    /\ UNCHANGED <<bucket, pc, op, intact, escaped>>

\* Read of n bytes: GET from the position unless a stream is open; the bytes are
\* the stream's next ones.  A missing object is an error.
Read(r, n) ==
    LET at == IF rd[r].cur = None THEN rd[r].pos ELSE rd[r].cur IN
    /\ rd[r].at = "read"
    /\ rd[r].pos < BlobSize
    /\ n <= BlobSize - at
    /\ rd' = [rd EXCEPT ![r] =
                IF rd[r].cur = None /\ bucket[rd[r].key] = None THEN NoRd
                ELSE [rd[r] EXCEPT !.pos = rd[r].pos + n, !.cur = at + n,
                                   !.got = rd[r].got \o [i \in 1..n |-> at + i - 1]]]
    /\ UNCHANGED <<bucket, pc, op, intact, escaped, spent>>

ReadEOF(r) ==
    /\ rd[r].at = "read"
    /\ rd[r].pos >= BlobSize
    /\ rd' = [rd EXCEPT ![r].at = "eof"]
    /\ UNCHANGED <<bucket, pc, op, intact, escaped, spent>>

\* Close, or an error: a stream that breaks off early ends in ErrUnexpectedEOF.
Close(r) ==
    /\ rd[r].at # "idle"
    /\ rd' = [rd EXCEPT ![r] = NoRd]
    /\ UNCHANGED <<bucket, pc, op, intact, escaped, spent>>

-----------------------------------------------------------------------------
(* Failed requests and crashes *)

\* A request fails and the call returns the error.  One whose answer is lost took
\* effect: that is its step and then this one.
Fail(k) ==
    /\ pc[k] \in Points \ {"idle"}
    /\ Spend("failure")
    /\ Goto(k, "idle")
    /\ op' = Returned(k)
    /\ UNCHANGED <<bucket, rd, intact, escaped>>

Crash ==
    /\ Spend("failure")
    /\ pc' = [k \in Callers |-> "idle"] /\ op' = [k \in Callers |-> NoOp]
    /\ rd' = [r \in Readers |-> NoRd]
    /\ UNCHANGED <<bucket, intact, escaped>>

-----------------------------------------------------------------------------
Step(k) == \/ RepoExists(k) \/ PutMarker(k)
           \/ ListPage(k) \/ DeleteKey(k) \/ PageDone(k)
           \/ PutManifestObject(k) \/ PutRef(k)
           \/ HeadBlob(k) \/ SpoolAndVerify(k) \/ PutBlobObject(k)

Next ==
    \/ \E k \in Callers :
          \/ CreateRepo(k) \/ DeleteRepo(k)
          \/ \E c \in Commits, ref \in {0, 1} : PutManifest(k, c, ref)
          \/ \E b \in Blobs, body \in Bodies : PutBlob(k, b, body)
          \/ Step(k) \/ Fail(k)
    \/ \E r \in Readers :
          \/ ResolveRef(r) \/ GetManifest(r) \/ ReadEOF(r) \/ Close(r)
          \/ \E b \in Blobs : OpenBlob(r, b)
          \/ \E n \in 0..BlobSize : Seek(r, n)
          \/ \E n \in 1..BlobSize : Read(r, n)
    \/ Crash

Spec == Init /\ [][Next]_vars

-----------------------------------------------------------------------------
(* Correctness *)

\* Every object, call and reader has a value the code can give it.
TypeOK ==
    /\ bucket \in [Keys -> Objects \cup {None}]
    /\ pc \in [Callers -> Points] /\ op \in [Callers -> Op]
    /\ rd \in [Readers -> Rd]
    /\ intact \in {0, 1} /\ escaped \subseteq Keys /\ spent \in [Limited -> Nat]

\* "readers never see a ref without its manifest", as long as no DeleteRepo has
\* removed an object since that manifest was put: a reader that resolved the ref
\* finds the manifest, whatever failed or ran at the same time.
ReadersFindManifest ==
    \A r \in Readers : rd[r].at = "dangling" => rd[r].intact = 0

\* "a corrupt upload never becomes a visible object", even when a failed HEAD makes
\* PutBlob write over a blob that is there.
BlobsGood == \A b \in Blobs : bucket[b] \in {None, "good"}

\* DeleteRepo removes "every object under the repo's prefix": one that succeeded has
\* removed all that was there when it began and was not put again, on every page.
DeletedGone == escaped = {}

\* A ranged reader delivers the bytes from the last seek on, in order and without a
\* gap, and reports the end of the file only after the last one.
ReadExact ==
    \A r \in Readers : rd[r].at \in {"read", "eof"} =>
        /\ rd[r].got = [i \in 1..Len(rd[r].got) |-> rd[r].from + i - 1]
        /\ rd[r].at = "eof" => rd[r].from + Len(rd[r].got) = BlobSize

\* "readers never see a ref without its manifest", at any time.  Not kept while
\* a DeleteRepo runs, which removes manifests first: README, section 6.
NeverDangling == \A r \in Readers : rd[r].at # "dangling"
=============================================================================
