-------------------------------- MODULE Xet -------------------------------
(***************************************************************************)
(* The Xet store and its upload handlers (internal/xet: store.go and       *)
(* service.go) with the backend the files of a shard are materialised in.  *)
(*                                                                         *)
(* A step is one object written or looked up.  Objects are written         *)
(* atomically and never removed.  A client uploads xorbs, asks which       *)
(* chunks are known, and uploads shards, at any time: the server does not  *)
(* check that the xorbs a shard needs were uploaded before.  A shard that  *)
(* came before its client was told of every one of them is hasty.  Every   *)
(* request may fail and the process may die between two steps; clients     *)
(* remember what they were told and try again.  One repo, whose backend is *)
(* used as fsbackend behaves: PutBlob returns at once when the blob is     *)
(* there.                                                                  *)
(***************************************************************************)
EXTENDS XetRange, FiniteSets

CONSTANTS
    Clients,
    Files,          \* file hashes
    FileChunks,     \* FileChunks[f]: the content of f
    Shards,
    ShardFiles,     \* ShardFiles[s]: sequence of [file, sha256, terms]
    ShardXorbs,     \* ShardXorbs[s]: sequence of the xorbs s declares
    Eligible,       \* chunks eligible for global dedup
    None,
    Limit           \* bounds on uploads, queries, failures and crashes

Limited == {"xorb", "shard", "failure", "crash"}

ASSUME LimitAssumption == Limit \in [Limited -> Nat]
ASSUME NoneAssumption == None \notin Clients \cup Shards \cup Xorbs
ASSUME ShapeAssumption ==
    /\ ShardFiles \in [Shards -> Seq([file: Files, sha256: BOOLEAN, terms: Seq(
          [xorb: Xorbs, chunkStart: Nat, chunkEnd: Nat, unpackedLen: Nat])])]
    /\ ShardXorbs \in [Shards -> Seq(Xorbs)]
    /\ Eligible \subseteq Chunks

\* What clients upload describes the content: terms lie within their xorbs, have
\* the length their chunks unpack to and add up to the file.
ASSUME ShardAssumption ==
    \A s \in Shards : \A i \in DOMAIN ShardFiles[s] :
        LET f == ShardFiles[s][i] IN
        /\ \A k \in DOMAIN f.terms :
              LET bytes == DecodeChunkRange(f.terms[k].xorb, f.terms[k].chunkStart, f.terms[k].chunkEnd)
              IN bytes # Absent /\ f.terms[k].unpackedLen = Len(bytes)
        /\ FlattenSeq([k \in DOMAIN f.terms |->
              DecodeChunkRange(f.terms[k].xorb, f.terms[k].chunkStart, f.terms[k].chunkEnd)])
           = Bytes(FileChunks[f.file])

\* The files the shards describe, with the records made of them.
Described == UNION {{[file |-> ShardFiles[s][i].file, rec |-> RecordFromShardFile(ShardFiles[s][i])] :
                       i \in DOMAIN ShardFiles[s]} : s \in Shards}
Records == {d.rec : d \in Described}

ASSUME RecordAssumption == None \notin Records

VARIABLES
    layouts,        \* xorbs/{hash}.chunks.json
    xorbs,          \* xorbs/{hash}
    files,          \* files/{hash}.json: a record, or None
    sha256,         \* sha256/{sha}: the files a content hash leads to
    shards,         \* shards/{sha}
    chunks,         \* chunks/{hash}: the shard a chunk points at, or None
    blobs,          \* files whose content the backend has as a blob
    mu,             \* Store.mu: its holder, or None
    pc,             \* per client: the next step of its request
    req,            \* per client: the xorb or shard it uploads, the file it is at and
                    \* the chunks it has still to point at the shard
    gor,            \* per client: the goroutine that runs reconstruct
    orphans,        \* reconstruct goroutines whose reader returned without them
    known,          \* per client: the xorbs it was told are stored
    acked,          \* history: shards whose upload was acknowledged
    hasty,          \* history: shards uploaded before all they need was known to be stored
    spent

objects == <<layouts, xorbs, files, sha256, shards, chunks, blobs>>
vars == <<objects, mu, pc, req, gor, orphans, known, acked, hasty, spent>>

-----------------------------------------------------------------------------
Points == {"idle", "has", "layout", "xorb", "lock", "record", "sha256", "check", "stat",
           "drain", "dedup", "point"}
Req == [of: Xorbs \cup Shards \cup {None}, at: Nat, left: SUBSET Chunks]
NoReq == [of |-> None, at |-> 0, left |-> {}]
Gor == [state: {"none", "fetch", "write", "eof", "failed"}, term: Nat]
NoGor == [state |-> "none", term |-> 0]

Spend(what) == /\ spent[what] < Limit[what]
               /\ spent' = [spent EXCEPT ![what] = @ + 1]

At(c, point) == pc[c] = point
Goto(c, point) == pc' = [pc EXCEPT ![c] = point]

ShardOf(c) == req[c].of
ShardFile(c) == ShardFiles[ShardOf(c)][req[c].at]
RecordOf == [s \in Shards |-> [i \in DOMAIN ShardFiles[s] |-> RecordFromShardFile(ShardFiles[s][i])]]
Record(c) == RecordOf[ShardOf(c)][req[c].at]

Declared(s) == {ShardXorbs[s][i] : i \in DOMAIN ShardXorbs[s]}

\* The xorbs a shard declares, and those its files are made of.
Needed(s) ==
    Declared(s) \cup UNION {{ShardFiles[s][i].terms[k].xorb : k \in DOMAIN ShardFiles[s][i].terms} :
                              i \in DOMAIN ShardFiles[s]}

\* The dedup-eligible chunks of the xorbs a shard declares.
EligibleOf(s) ==
    {ch \in Eligible : \E x \in Declared(s) : \E k \in DOMAIN Content[x] : Content[x][k] = ch}

\* The request ends; what the client learns from the answer.
Reply(c, learned) ==
    /\ Goto(c, "idle")
    /\ req' = [req EXCEPT ![c] = NoReq]
    /\ known' = [known EXCEPT ![c] = @ \cup learned]

Init ==
    /\ layouts = {} /\ xorbs = {} /\ shards = {} /\ blobs = {} /\ sha256 = {}
    /\ files = [f \in Files |-> None]
    /\ chunks = [c \in Chunks |-> None]
    /\ mu = None
    /\ pc = [c \in Clients |-> "idle"] /\ req = [c \in Clients |-> NoReq]
    /\ gor = [c \in Clients |-> NoGor] /\ orphans = 0
    /\ known = [c \in Clients |-> {}] /\ acked = {} /\ hasty = {}
    /\ spent = [w \in Limited |-> 0]

-----------------------------------------------------------------------------
(* HandleXorbUpload and PutXorb *)

UploadXorb(c, x) ==
    /\ At(c, "idle")
    /\ Spend("xorb")
    /\ Goto(c, "has")
    /\ req' = [req EXCEPT ![c] = [NoReq EXCEPT !.of = x]]
    /\ UNCHANGED <<objects, mu, gor, orphans, known, acked, hasty>>

\* "already present", or go on; an error of the lookup reads as absent.
HasXorb(c) ==
    /\ At(c, "has")
    /\ IF req[c].of \in xorbs
       THEN \/ Reply(c, {req[c].of}) /\ UNCHANGED spent
            \/ Spend("failure") /\ Goto(c, "layout") /\ UNCHANGED <<req, known>>
       ELSE Goto(c, "layout") /\ UNCHANGED <<req, known, spent>>
    /\ UNCHANGED <<objects, mu, gor, orphans, acked, hasty>>

\* Mutant: the xorb is written before its layout.
WriteLayoutSecond(c) ==
    /\ At(c, "layout")
    /\ IF req[c].of \in xorbs
       THEN layouts' = layouts \cup {req[c].of} /\ Goto(c, "xorb") /\ UNCHANGED xorbs
       ELSE xorbs' = xorbs \cup {req[c].of} /\ UNCHANGED <<layouts, pc>>
    /\ UNCHANGED <<files, sha256, shards, chunks, blobs, mu, req, gor, orphans, known, acked, hasty, spent>>

WriteLayout(c) ==
    /\ At(c, "layout")
    /\ layouts' = layouts \cup {req[c].of}
    /\ Goto(c, "xorb")
    /\ UNCHANGED <<xorbs, files, sha256, shards, chunks, blobs>>
    /\ UNCHANGED <<mu, req, gor, orphans, known, acked, hasty, spent>>

WriteXorb(c) ==
    /\ At(c, "xorb")
    /\ xorbs' = xorbs \cup {req[c].of}
    /\ Reply(c, {req[c].of})
    /\ UNCHANGED <<layouts, files, sha256, shards, chunks, blobs>>
    /\ UNCHANGED <<mu, gor, orphans, acked, hasty, spent>>

-----------------------------------------------------------------------------
(* HandleChunkQuery and DedupShard *)

\* The shard a chunk points at: the client may use every xorb it declares, when
\* that shard itself came after its xorbs (the answer does not tell).
ChunkQuery(c, ch) ==
    /\ At(c, "idle")
    /\ chunks[ch] \in shards
    /\ known' = [known EXCEPT ![c] = @ \cup
                   (IF chunks[ch] \in hasty THEN {} ELSE Declared(chunks[ch]))]
    /\ UNCHANGED <<objects, mu, pc, req, gor, orphans, acked, hasty, spent>>

-----------------------------------------------------------------------------
(* HandleShardUpload: per file PutFile and materialize, then PutDedupShard *)

UploadShard(c, s) ==
    /\ At(c, "idle")
    /\ Spend("shard")
    /\ hasty' = IF Needed(s) \subseteq known[c] THEN hasty ELSE hasty \cup {s}
    /\ Goto(c, IF ShardFiles[s] = <<>> THEN "dedup" ELSE "lock")
    /\ req' = [req EXCEPT ![c] = [NoReq EXCEPT !.of = s, !.at = 1]]
    /\ UNCHANGED <<objects, mu, gor, orphans, known, acked>>

\* The next file of the shard, or the registration when there is none left.
NextFile(c) ==
    IF req[c].at < Len(ShardFiles[ShardOf(c)])
    THEN Goto(c, "lock") /\ req' = [req EXCEPT ![c].at = @ + 1]
    ELSE Goto(c, "dedup") /\ UNCHANGED req

LockStore(c) ==
    /\ At(c, "lock")
    /\ mu = None
    /\ mu' = c
    /\ Goto(c, "record")
    /\ UNCHANGED <<objects, req, gor, orphans, known, acked, hasty, spent>>

\* PutFile: the record, then the sha256 mapping; without one nothing is materialised.
WriteRecord(c) ==
    /\ At(c, "record")
    /\ files' = [files EXCEPT ![ShardFile(c).file] = Record(c)]
    /\ IF ShardFile(c).sha256
       THEN Goto(c, "sha256") /\ UNCHANGED <<mu, req>>
       ELSE mu' = None /\ NextFile(c)
    /\ UNCHANGED <<layouts, xorbs, sha256, shards, chunks, blobs>>
    /\ UNCHANGED <<gor, orphans, known, acked, hasty, spent>>

WriteSHA256(c) ==
    /\ At(c, "sha256")
    /\ sha256' = sha256 \cup {ShardFile(c).file}
    /\ mu' = None
    /\ Goto(c, "check")
    /\ UNCHANGED <<layouts, xorbs, files, shards, chunks, blobs>>
    /\ UNCHANGED <<req, gor, orphans, known, acked, hasty, spent>>

\* materialize: HasLFSBlob, whose errors read as absent; else start reconstruct.
HasLFSBlob(c) ==
    /\ At(c, "check")
    /\ \/ /\ ShardFile(c).file \in blobs
          /\ NextFile(c)
          /\ UNCHANGED <<gor, spent>>
       \/ /\ IF ShardFile(c).file \in blobs THEN Spend("failure") ELSE UNCHANGED spent
          /\ Goto(c, "stat")
          /\ gor' = [gor EXCEPT ![c] = [state |-> IF ShardFile(c).terms = <<>> THEN "eof" ELSE "fetch",
                                        term |-> 1]]
          /\ UNCHANGED req
    /\ UNCHANGED <<objects, mu, orphans, known, acked, hasty>>

\* PutLFSBlob finds the blob there and returns without reading the pipe: the
\* goroutine, unless it has nothing to write, is left behind.
PutBlobPresent(c) ==
    /\ At(c, "stat")
    /\ ShardFile(c).file \in blobs
    /\ orphans' = IF gor[c].state \in {"fetch", "write"} THEN orphans + 1 ELSE orphans
    /\ gor' = [gor EXCEPT ![c] = NoGor]
    /\ NextFile(c)
    /\ UNCHANGED <<objects, mu, known, acked, hasty, spent>>

PutBlobAbsent(c) ==
    /\ At(c, "stat")
    /\ ShardFile(c).file \notin blobs
    /\ Goto(c, "drain")
    /\ UNCHANGED <<objects, mu, req, gor, orphans, known, acked, hasty, spent>>

\* Mutant: reconstruct returns its error without closing the pipe.
ReadTermSilently(c) ==
    /\ gor[c].state = "fetch"
    /\ \/ /\ ShardFile(c).terms[gor[c].term].xorb \in xorbs \cap layouts
          /\ gor' = [gor EXCEPT ![c].state = "write"]
          /\ UNCHANGED spent
       \/ /\ Spend("failure")
          /\ gor' = [gor EXCEPT ![c] = NoGor]
    /\ UNCHANGED <<objects, mu, pc, req, orphans, known, acked, hasty>>

\* reconstruct, one term: read the xorb and its layout and decode the chunks.
ReadTerm(c) ==
    /\ gor[c].state = "fetch"
    /\ \/ /\ ShardFile(c).terms[gor[c].term].xorb \in xorbs \cap layouts
          /\ gor' = [gor EXCEPT ![c].state = "write"]
          /\ UNCHANGED spent
       \/ /\ \/ ShardFile(c).terms[gor[c].term].xorb \notin xorbs \cap layouts /\ UNCHANGED spent
             \/ Spend("failure")
          /\ gor' = [gor EXCEPT ![c].state = "failed"]
    /\ UNCHANGED <<objects, mu, pc, req, orphans, known, acked, hasty>>

\* The pipe has no buffer: a write ends when PutLFSBlob has read it.
PipeTerm(c) ==
    /\ gor[c].state = "write" /\ At(c, "drain")
    /\ gor' = [gor EXCEPT ![c] = IF @.term < Len(ShardFile(c).terms)
                                 THEN [state |-> "fetch", term |-> @.term + 1]
                                 ELSE [state |-> "eof", term |-> 0]]
    /\ UNCHANGED <<objects, mu, pc, req, orphans, known, acked, hasty, spent>>

\* The whole file has been read and has the digest it is stored under.
BlobLands(c) ==
    /\ At(c, "drain") /\ gor[c].state = "eof"
    /\ blobs' = blobs \cup {ShardFile(c).file}
    /\ gor' = [gor EXCEPT ![c] = NoGor]
    /\ NextFile(c)
    /\ UNCHANGED <<layouts, xorbs, files, sha256, shards, chunks>>
    /\ UNCHANGED <<mu, orphans, known, acked, hasty, spent>>

\* Mutant: the upload goes on to the next file when a file was not materialised.
ReconstructFailedIgnored(c) ==
    /\ At(c, "drain") /\ gor[c].state = "failed"
    /\ gor' = [gor EXCEPT ![c] = NoGor]
    /\ NextFile(c)
    /\ UNCHANGED <<objects, mu, orphans, known, acked, hasty, spent>>

\* PutLFSBlob reads the error the pipe was closed with, and the upload fails.
ReconstructFailed(c) ==
    /\ At(c, "drain") /\ gor[c].state = "failed"
    /\ gor' = [gor EXCEPT ![c] = NoGor]
    /\ Reply(c, {})
    /\ UNCHANGED <<objects, mu, orphans, acked, hasty, spent>>

\* Mutant: the pointers are written before the shard.
RegisterShardLast(c) ==
    /\ At(c, "dedup")
    /\ IF EligibleOf(ShardOf(c)) = {}
       THEN acked' = acked \cup {ShardOf(c)} /\ Reply(c, {})
       ELSE /\ req' = [req EXCEPT ![c].left = EligibleOf(ShardOf(c))]
            /\ Goto(c, "point") /\ UNCHANGED <<known, acked>>
    /\ UNCHANGED <<objects, mu, gor, orphans, hasty, spent>>

\* PutDedupShard: nothing when no chunk is eligible, else the shard ...
RegisterShard(c) ==
    /\ At(c, "dedup")
    /\ IF EligibleOf(ShardOf(c)) = {}
       THEN acked' = acked \cup {ShardOf(c)} /\ Reply(c, {}) /\ UNCHANGED shards
       ELSE /\ shards' = shards \cup {ShardOf(c)}
            /\ req' = [req EXCEPT ![c].left = EligibleOf(ShardOf(c))]
            /\ Goto(c, "point") /\ UNCHANGED <<known, acked>>
    /\ UNCHANGED <<layouts, xorbs, files, sha256, chunks, blobs, mu, gor, orphans, hasty, spent>>

\* ... and then the pointers, one by one (nothing depends on their order).
PointChunk(c, ch) ==
    /\ At(c, "point")
    /\ ch \in req[c].left
    /\ chunks' = [chunks EXCEPT ![ch] = ShardOf(c)]
    /\ IF req[c].left = {ch}
       THEN acked' = acked \cup {ShardOf(c)} /\ Reply(c, {})
       ELSE req' = [req EXCEPT ![c].left = @ \ {ch}] /\ UNCHANGED <<pc, known, acked>>
    /\ UNCHANGED <<layouts, xorbs, files, sha256, shards, blobs, mu, gor, orphans, hasty, spent>>

-----------------------------------------------------------------------------
(* Errors and crashes *)

\* An object cannot be written, or PutLFSBlob fails and closes the pipe, which ends
\* reconstruct; the deferred unlock releases the store.
Fail(c) ==
    /\ pc[c] \in {"layout", "xorb", "record", "sha256", "stat", "drain", "dedup", "point"}
    /\ Spend("failure")
    /\ mu' = IF mu = c THEN None ELSE mu
    /\ gor' = [gor EXCEPT ![c] = NoGor]
    /\ Reply(c, {})
    /\ UNCHANGED <<objects, orphans, acked, hasty>>

\* The process dies and is started again.
Crash ==
    /\ Spend("crash")
    /\ mu' = None
    /\ pc' = [c \in Clients |-> "idle"] /\ req' = [c \in Clients |-> NoReq]
    /\ gor' = [c \in Clients |-> NoGor] /\ orphans' = 0
    /\ UNCHANGED <<objects, known, acked, hasty>>

-----------------------------------------------------------------------------
Step(c) == \/ HasXorb(c) \/ WriteLayout(c) \/ WriteXorb(c)
           \/ LockStore(c) \/ WriteRecord(c) \/ WriteSHA256(c)
           \/ HasLFSBlob(c) \/ PutBlobPresent(c) \/ PutBlobAbsent(c)
           \/ ReadTerm(c) \/ PipeTerm(c) \/ BlobLands(c) \/ ReconstructFailed(c)
           \/ RegisterShard(c) \/ \E ch \in Eligible : PointChunk(c, ch)

Next ==
    \/ \E c \in Clients :
          \/ \E x \in Xorbs : UploadXorb(c, x)
          \/ \E ch \in Eligible : ChunkQuery(c, ch)
          \/ \E s \in Shards : UploadShard(c, s)
          \/ Step(c) \/ Fail(c)
    \/ Crash

\* The goroutines of a request are scheduled; nobody has to call, fail or crash.
Spec == Init /\ [][Next]_vars /\ \A c \in Clients : WF_vars(Step(c))

-----------------------------------------------------------------------------
(* Correctness *)

\* Every object, request and goroutine has a value the code can give it.
TypeOK ==
    /\ layouts \subseteq Xorbs /\ xorbs \subseteq Xorbs /\ shards \subseteq Shards
    /\ files \in [Files -> Records \cup {None}]
    /\ sha256 \subseteq Files /\ blobs \subseteq Files
    /\ chunks \in [Chunks -> Shards \cup {None}]
    /\ mu \in Clients \cup {None}
    /\ pc \in [Clients -> Points]
    /\ req \in [Clients -> Req] /\ gor \in [Clients -> Gor]
    /\ orphans \in Nat /\ known \in [Clients -> SUBSET Xorbs]
    /\ acked \subseteq Shards /\ hasty \subseteq Shards /\ spent \in [Limited -> Nat]

\* Some hasty shard describes f by its record.
Hastily(f) ==
    \E s \in hasty : \E i \in DOMAIN ShardFiles[s] :
        ShardFiles[s][i].file = f /\ RecordFromShardFile(ShardFiles[s][i]) = files[f]

\* resolve advertises xet "when we hold a reconstruction for this exact content":
\* the file hash it names has a record, and the layout and the bytes of every xorb
\* in it are there, whoever wrote the record last and whatever was cut short.  Only
\* a hasty shard leaves a record of xorbs that are not there: README, section 6.
Advertised ==
    \A f \in Files :
        /\ f \in sha256 => files[f] # None
        /\ files[f] # None =>
              \/ \A i \in DOMAIN files[f].terms : files[f].terms[i].xorb \in xorbs \cap layouts
              \/ Hastily(f)

\* The descriptions of files by which every byte range is answered right: a
\* satisfiable range, open or not, past the end or not, with terms and an offset
\* from which a client assembles exactly those bytes, any other with an error.
ExactlyAnswered ==
    {d \in Described :
       LET content == Bytes(FileChunks[d.file])
           n == Len(content)
       IN \A from \in 0..n, to \in (0..(n + 1)) \cup {Absent} :
             LET r == ParseByteRange(Header(from, to), d.rec.totalLen)
                 last == IF to = Absent \/ to >= n THEN n - 1 ELSE to
             IN IF from >= n \/ (to # Absent /\ to < from)
                THEN r = Absent
                ELSE /\ r = <<from, last>>
                     /\ LET a == Reconstruction(d.rec, Xorbs, from, last) IN
                        /\ a # Absent
                        /\ Assembled(a, last - from + 1) = SubSeq(content, from + 1, last + 1)}

\* HandleReconstruction answers every range of every file it has a record of right,
\* whichever description of the file was recorded last, once the layouts it reads
\* are there (which Advertised is about).
RangeExact == \A f \in Files : files[f] # None => [file |-> f, rec |-> files[f]] \in ExactlyAnswered

\* "a visible pointer always resolves": to a stored shard that declares a xorb with
\* the chunk in it; and unless that shard was hasty, every xorb it declares is
\* stored, so a client that dedups against the answer refers only to what the store
\* has.
PointerUsable ==
    \A ch \in Chunks : chunks[ch] # None =>
        /\ chunks[ch] \in shards
        /\ chunks[ch] \notin hasty => Declared(chunks[ch]) \subseteq xorbs
        /\ \E i \in DOMAIN ShardXorbs[chunks[ch]] :
              LET x == ShardXorbs[chunks[ch]][i] IN
              \E k \in DOMAIN Content[x] : Content[x][k] = ch

\* An acknowledged shard upload has recorded every file, and materialised every
\* file with a sha256 so that "the entire non-xet world can serve it".
AckedMaterialised ==
    \A s \in acked : \A i \in DOMAIN ShardFiles[s] :
        /\ files[ShardFiles[s][i].file] # None
        /\ ShardFiles[s][i].sha256 => ShardFiles[s][i].file \in blobs \cap sha256

\* Every upload is answered: reconstruct and PutLFSBlob, which wait for each other
\* on the pipe, end whichever of them fails first, and the store is unlocked.  So
\* every client is idle again and again.
UploadsEnd == \A c \in Clients : []<>(pc[c] = "idle")

\* materialize "streams" the file "into the routed backend": a reconstruction that
\* was started is read to its end or closed, and none stays behind for ever.
\* It is not kept: README, section 6.
NoOrphan == orphans = 0
=============================================================================
