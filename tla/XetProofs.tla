----------------------------- MODULE XetProofs -----------------------------
(***************************************************************************)
(* Theorems about the Xet store and its upload handlers, for every number  *)
(* of clients, xorbs and shards, any failures and any crashes: unless a    *)
(* shard came before its xorbs, what is advertised can be fetched and      *)
(* dedup pointers lead to stored xorbs; and an acknowledged shard has been *)
(* materialised.  Objects are never removed, so each claim is an invariant *)
(* of the order in which they are written.  Whoever waits for the mutex or *)
(* the pipe has somebody to wait for.                                      *)
(*                                                                         *)
(* The second half is about the arithmetic of XetRange: for files of any   *)
(* content, cut into any terms, each byte range is answered with exactly   *)
(* its bytes.  Sums and FlattenSeq are recursive functions; what they do   *)
(* on every input is proved by induction over sets of numbers, from        *)
(* WFMin: a set of numbers is empty or has a least element.                *)
(***************************************************************************)
EXTENDS Xet, SequenceTheorems, WellFoundedInduction, TLAPS

\* The program points of a shard upload; those at one of its files; those
\* behind the file's record; those behind its sha256 mapping.
FilePoints == {"lock", "record", "sha256", "check", "stat", "drain"}
ShardPoints == FilePoints \cup {"dedup", "point"}
Mapped == {"check", "stat", "drain"}

\* Unless a shard was hasty, every xorb it needs is stored.
Supplied(s) == s \in hasty \/ Needed(s) \subseteq xorbs

\* The locals a program point relies on are set, and what the request has
\* found in the store before is there.
ReqOK(c) ==
    /\ pc[c] \in {"has", "layout", "xorb"} => req[c].of \in Xorbs
    /\ pc[c] = "xorb" => req[c].of \in layouts
    /\ pc[c] \in ShardPoints => req[c].of \in Shards /\ Supplied(req[c].of)
    /\ pc[c] \in FilePoints => req[c].at \in DOMAIN ShardFiles[req[c].of]
    /\ pc[c] \in Mapped \cup {"sha256"} => files[ShardFile(c).file] # None
    /\ pc[c] = "point" => req[c].of \in shards /\ req[c].left \subseteq EligibleOf(req[c].of)

\* The record r of file f is one that some shard describes it by, a hasty one unless
\* its xorbs are stored.
Recorded(f, r) ==
    /\ [file |-> f, rec |-> r] \in Described
    /\ \/ \A i \in DOMAIN r.terms : r.terms[i].xorb \in xorbs
       \/ \E s \in hasty : \E i \in DOMAIN ShardFiles[s] :
             ShardFiles[s][i].file = f /\ RecordFromShardFile(ShardFiles[s][i]) = r

\* What the objects of the store promise of each other.
StoreOK ==
    /\ xorbs \subseteq layouts
    /\ \A c \in Clients : known[c] \subseteq xorbs
    /\ \A s \in shards : Supplied(s)
    /\ \A ch \in Chunks : chunks[ch] # None =>
          chunks[ch] \in shards /\ ch \in EligibleOf(chunks[ch])
    /\ \A f \in Files : files[f] # None => Recorded(f, files[f])
    /\ \A f \in sha256 : files[f] # None

\* A file of a shard has been recorded and, with a sha256, materialised.
Done(f) == files[f.file] # None /\ (f.sha256 => f.file \in blobs \cap sha256)

\* How far a shard upload is, and that an acknowledged one has done it all.
WorkOK(c) ==
    /\ pc[c] \in FilePoints => \A i \in 1 .. (req[c].at - 1) : Done(ShardFiles[req[c].of][i])
    /\ pc[c] \in {"dedup", "point"} =>
          \A i \in DOMAIN ShardFiles[req[c].of] : Done(ShardFiles[req[c].of][i])
    /\ pc[c] \in Mapped => ShardFile(c).file \in sha256

Core == TypeOK /\ StoreOK /\ \A c \in Clients : ReqOK(c)
Work == AckedMaterialised /\ \A c \in Clients : WorkOK(c)

\* What the store holds it keeps.
Grow ==
    /\ layouts \subseteq layouts' /\ xorbs \subseteq xorbs' /\ shards \subseteq shards'
    /\ blobs \subseteq blobs' /\ sha256 \subseteq sha256' /\ hasty \subseteq hasty'
    /\ \A f \in Files : files[f] # None => files'[f] # None

\* A step of one client's request.
Only(c) == \A q \in Clients \ {c} : pc'[q] = pc[q] /\ req'[q] = req[q]

-----------------------------------------------------------------------------
(* Facts about shards *)

\* A shard lists files, each with the terms it is made of.
LEMMA FileShape ==
    ASSUME NEW s \in Shards, NEW i \in DOMAIN ShardFiles[s]
    PROVE  /\ ShardFiles[s][i].file \in Files
           /\ ShardFiles[s][i].sha256 \in BOOLEAN
           /\ ShardFiles[s][i].terms \in Seq([xorb: Xorbs, chunkStart: Nat, chunkEnd: Nat,
                                              unpackedLen: Nat])
           /\ i \in Nat \ {0}
  <1> DEFINE T == [file: Files, sha256: BOOLEAN, terms: Seq(
                     [xorb: Xorbs, chunkStart: Nat, chunkEnd: Nat, unpackedLen: Nat])]
  <1>1. ShardFiles[s] \in Seq(T)
    BY ShapeAssumption
  <1>2. ShardFiles[s][i] \in T /\ i \in Nat \ {0}
    <2> HIDE DEF T
    <2> QED BY <1>1
  <1> QED BY <1>2

\* Declared and needed xorbs are xorbs.
LEMMA NeededXorbs ==
    ASSUME NEW s \in Shards
    PROVE  Declared(s) \subseteq Needed(s) /\ Needed(s) \subseteq Xorbs
  <1>1. Declared(s) \subseteq Xorbs
    BY ShapeAssumption DEF Declared
  <1>2. ASSUME NEW i \in DOMAIN ShardFiles[s], NEW k \in DOMAIN ShardFiles[s][i].terms
        PROVE  ShardFiles[s][i].terms[k].xorb \in Xorbs
    <2> DEFINE U == [xorb: Xorbs, chunkStart: Nat, chunkEnd: Nat, unpackedLen: Nat]
    <2>1. ShardFiles[s][i].terms \in Seq(U)
      BY FileShape
    <2>2. ShardFiles[s][i].terms[k] \in U
      <3> HIDE DEF U
      <3> QED BY <2>1
    <2> QED BY <2>2
  <1> QED BY <1>1, <1>2 DEF Needed

\* The record of a listed file is one, and is made of needed xorbs.
LEMMA RecordShape ==
    ASSUME NEW s \in Shards, NEW i \in DOMAIN ShardFiles[s]
    PROVE  LET f == ShardFiles[s][i]
               r == RecordFromShardFile(f)
           IN /\ [file |-> f.file, rec |-> r] \in Described
              /\ r \in Records /\ r # None
              /\ \A k \in DOMAIN r.terms : r.terms[k].xorb \in Needed(s)
  <1> DEFINE f == ShardFiles[s][i]
             r == RecordFromShardFile(f)
             d == [file |-> f.file, rec |-> r]
  <1>1. d \in Described
    BY DEF Described
  <1>2. d.rec = r
    OBVIOUS
  <1>3. r \in Records
    BY <1>1, <1>2 DEF Records
  <1>4. r # None
    BY <1>3, RecordAssumption
  <1>5. r.terms = f.terms
    BY DEF RecordFromShardFile
  <1>6. \A k \in DOMAIN r.terms : r.terms[k].xorb \in Needed(s)
    BY <1>5 DEF Needed
  <1> QED BY <1>1, <1>3, <1>4, <1>6

-----------------------------------------------------------------------------
(* Types, the store and the locals *)

\* Spending from a bound keeps the account well-typed.
LEMMA SpendType ==
    ASSUME TypeOK, NEW what \in Limited, Spend(what)
    PROVE  spent' \in [Limited -> Nat]
  BY DEF TypeOK, Spend

\* The empty request and the absent goroutine are well-typed.
LEMMA NoneTypes == NoReq \in Req /\ NoGor \in Gor
  BY DEF NoReq, Req, NoGor, Gor

\* The core invariant holds of an empty store.
LEMMA InitCore == Init => Core
  <1> SUFFICES ASSUME Init PROVE Core
    OBVIOUS
  <1>1. TypeOK
    BY NoneTypes DEF Init, TypeOK, Points
  <1>2. StoreOK
    BY DEF Init, StoreOK
  <1>3. \A c \in Clients : ReqOK(c)
    BY DEF Init, ReqOK, ShardPoints, FilePoints, Mapped
  <1> QED BY <1>1, <1>2, <1>3 DEF Core

\* Requests that a step does not touch stay in order as the store grows.
LEMMA ReqFrame ==
    ASSUME Core, Grow, NEW q \in Clients, pc'[q] = pc[q], req'[q] = req[q]
    PROVE  ReqOK(q)'
  <1>1. /\ pc[q] \in {"has", "layout", "xorb"} => req[q].of \in Xorbs
        /\ pc[q] = "xorb" => req[q].of \in layouts
        /\ pc[q] \in ShardPoints => req[q].of \in Shards /\ Supplied(req[q].of)
        /\ pc[q] \in FilePoints => req[q].at \in DOMAIN ShardFiles[req[q].of]
        /\ pc[q] \in Mapped \cup {"sha256"} => files[ShardFile(q).file] # None
        /\ pc[q] = "point" =>
              req[q].of \in shards /\ req[q].left \subseteq EligibleOf(req[q].of)
    BY DEF Core, ReqOK
  <1>2. ShardFile(q)' = ShardFile(q)
    BY DEF ShardFile, ShardOf
  <1>3. pc[q] \in Mapped \cup {"sha256"} => ShardFile(q).file \in Files
    BY <1>1, FileShape DEF Mapped, ShardPoints, FilePoints, ShardFile, ShardOf
  <1>4. pc[q] \in Mapped \cup {"sha256"} => files'[ShardFile(q).file] # None
    BY <1>1, <1>3 DEF Grow
  <1> QED BY <1>1, <1>2, <1>4 DEF ReqOK, Supplied, Grow

\* A step of one client's request that keeps the store in order.
LEMMA CoreFrame ==
    ASSUME Core, NEW c \in Clients, Grow, Only(c), TypeOK', StoreOK', ReqOK(c)'
    PROVE  Core'
  <1>1. ASSUME NEW q \in Clients PROVE ReqOK(q)'
    BY ReqFrame DEF Only
  <1> QED BY <1>1 DEF Core

\* A step that writes no object, after which clients know of stored xorbs only.
LEMMA StoreFrame ==
    ASSUME Core, UNCHANGED objects, hasty \subseteq hasty',
           \A q \in Clients : known'[q] \subseteq xorbs
    PROVE  StoreOK' /\ Grow
  BY DEF Core, StoreOK, Supplied, Recorded, Grow, objects

\* A request that ends, and what it has told the client.
LEMMA ReplyType ==
    ASSUME TypeOK, NEW c \in Clients, NEW learned \in SUBSET Xorbs, Reply(c, learned)
    PROVE  /\ pc' \in [Clients -> Points] /\ req' \in [Clients -> Req]
           /\ known' \in [Clients -> SUBSET Xorbs]
           /\ Only(c) /\ ReqOK(c)'
           /\ \A q \in Clients : known'[q] \subseteq known[q] \cup learned
  <1>1. pc' \in [Clients -> Points] /\ pc'[c] = "idle"
    BY DEF TypeOK, Reply, Goto, Points
  <1>2. req' \in [Clients -> Req] /\ known' \in [Clients -> SUBSET Xorbs]
    BY NoneTypes DEF TypeOK, Reply
  <1>3. Only(c)
    BY DEF TypeOK, Reply, Goto, Only
  <1>4. ReqOK(c)'
    BY <1>1 DEF ReqOK, Supplied, ShardPoints, FilePoints, Mapped
  <1>5. \A q \in Clients : known'[q] \subseteq known[q] \cup learned
    BY DEF TypeOK, Reply
  <1> QED BY <1>1, <1>2, <1>3, <1>4, <1>5

\* On to the next file of the shard, or to its registration.
LEMMA NextFileType ==
    ASSUME Core, NEW c \in Clients, NextFile(c), pc[c] \in FilePoints, Grow
    PROVE  /\ pc' \in [Clients -> Points] /\ req' \in [Clients -> Req]
           /\ Only(c) /\ ReqOK(c)'
  <1>1. /\ req[c].of \in Shards /\ Supplied(req[c].of)
        /\ req[c].at \in DOMAIN ShardFiles[req[c].of] /\ req[c] \in Req
    BY DEF Core, ReqOK, TypeOK, ShardPoints
  <1>2. DOMAIN ShardFiles[req[c].of] = 1 .. Len(ShardFiles[req[c].of])
    BY <1>1, ShapeAssumption
  <1>3. CASE req[c].at < Len(ShardFiles[ShardOf(c)])
    <2>1. pc' = [pc EXCEPT ![c] = "lock"] /\ req' = [req EXCEPT ![c].at = @ + 1]
      BY <1>3 DEF NextFile, Goto
    <2>2. /\ pc'[c] = "lock" /\ req' \in [Clients -> Req]
          /\ req'[c].of = req[c].of /\ req'[c].at = req[c].at + 1
      BY <1>1, <2>1 DEF Core, TypeOK, Req
    <2>3. req'[c].at \in DOMAIN ShardFiles[req[c].of]
      BY <1>1, <1>2, <1>3, <2>2 DEF ShardOf, Req
    <2>4. ReqOK(c)'
      BY <1>1, <2>2, <2>3 DEF ReqOK, Supplied, Grow, ShardPoints, FilePoints, Mapped
    <2>5. pc' \in [Clients -> Points] /\ Only(c)
      BY <2>1 DEF Core, TypeOK, Points, Only
    <2> QED BY <2>2, <2>4, <2>5
  <1>4. CASE ~(req[c].at < Len(ShardFiles[ShardOf(c)]))
    <2>1. pc' = [pc EXCEPT ![c] = "dedup"] /\ req' = req
      BY <1>4 DEF NextFile, Goto
    <2>2. pc'[c] = "dedup" /\ pc' \in [Clients -> Points] /\ Only(c)
      BY <2>1 DEF Core, TypeOK, Points, Only
    <2>3. ReqOK(c)'
      BY <1>1, <2>1, <2>2 DEF ReqOK, Supplied, Grow, ShardPoints, FilePoints, Mapped
    <2> QED BY <2>1, <2>2, <2>3 DEF Core, TypeOK
  <1> QED BY <1>3, <1>4

\* HandleXorbUpload and PutXorb: the layout is there before the xorb, and the
\* client hears of the xorb after it is there.
LEMMA XorbCore ==
    ASSUME Core, NEW c \in Clients,
           \/ \E x \in Xorbs : UploadXorb(c, x)
           \/ HasXorb(c) \/ WriteLayout(c) \/ WriteXorb(c)
    PROVE  Core'
  <1>0. req[c] \in Req
    BY DEF Core, TypeOK
  <1>1. ASSUME NEW x \in Xorbs, UploadXorb(c, x) PROVE Core'
    <2> DEFINE r == [NoReq EXCEPT !.of = x]
    <2>1. r \in Req /\ r.of = x
      BY DEF NoReq, Req
    <2>2. pc' = [pc EXCEPT ![c] = "has"] /\ req' = [req EXCEPT ![c] = r]
      BY <1>1 DEF UploadXorb, Goto
    <2>3. spent' \in [Limited -> Nat]
      BY <1>1, SpendType DEF UploadXorb, Core, Limited
    <2> HIDE DEF r
    <2>4. StoreOK' /\ Grow
      BY <1>1, StoreFrame DEF UploadXorb, Core, StoreOK
    <2>5. TypeOK'
      BY <1>1, <2>1, <2>2, <2>3 DEF UploadXorb, Core, TypeOK, Points, objects
    <2>6. Only(c)
      BY <2>2 DEF Core, TypeOK, Only
    <2>7. pc'[c] = "has" /\ req'[c].of \in Xorbs
      BY <2>1, <2>2 DEF Core, TypeOK
    <2>8. ReqOK(c)'
      BY <2>7 DEF ReqOK, Supplied, ShardPoints, FilePoints, Mapped
    <2> QED BY <2>4, <2>5, <2>6, <2>8, CoreFrame
  <1>2. CASE HasXorb(c)
    <2>1. req[c].of \in Xorbs /\ UNCHANGED <<objects, hasty>>
      BY <1>2 DEF HasXorb, At, Core, ReqOK
    <2>2. spent' \in [Limited -> Nat]
      BY <1>2, SpendType DEF HasXorb, Core, TypeOK, Limited
    <2>3. CASE Reply(c, {req[c].of}) /\ req[c].of \in xorbs
      <3>1. {req[c].of} \in SUBSET Xorbs
        BY <2>1
      <3>2. /\ pc' \in [Clients -> Points] /\ req' \in [Clients -> Req]
            /\ known' \in [Clients -> SUBSET Xorbs]
            /\ Only(c) /\ ReqOK(c)'
            /\ \A q \in Clients : known'[q] \subseteq known[q] \cup {req[c].of}
        BY <2>3, <3>1, ReplyType DEF Core
      <3>3. \A q \in Clients : known'[q] \subseteq xorbs
        BY <2>3, <3>2 DEF Core, StoreOK
      <3>4. StoreOK' /\ Grow
        BY <2>1, <3>3, StoreFrame
      <3>5. TypeOK'
        BY <1>2, <2>1, <2>2, <3>2 DEF HasXorb, Core, TypeOK, objects
      <3> QED BY <3>2, <3>4, <3>5, CoreFrame
    <2>4. CASE Goto(c, "layout") /\ UNCHANGED <<req, known>>
      <3>1. pc' \in [Clients -> Points] /\ pc'[c] = "layout" /\ Only(c)
        BY <2>4 DEF Goto, Core, TypeOK, Points, Only
      <3>2. StoreOK' /\ Grow
        BY <2>1, <2>4, StoreFrame DEF Core, StoreOK
      <3>3. TypeOK'
        BY <1>2, <2>1, <2>2, <2>4, <3>1 DEF HasXorb, Core, TypeOK, objects
      <3>4. ReqOK(c)'
        BY <2>1, <2>4, <3>1 DEF ReqOK, Supplied, ShardPoints, FilePoints, Mapped
      <3> QED BY <3>1, <3>2, <3>3, <3>4, CoreFrame
    <2> QED BY <1>2, <2>3, <2>4 DEF HasXorb
  <1>3. CASE WriteLayout(c)
    <2>1. /\ req[c].of \in Xorbs /\ layouts' = layouts \cup {req[c].of}
          /\ pc' = [pc EXCEPT ![c] = "xorb"] /\ req' = req
      BY <1>3 DEF WriteLayout, At, Goto, Core, ReqOK
    <2>2. Grow /\ StoreOK'
      BY <1>3 DEF WriteLayout, Grow, Core, StoreOK, Supplied, Recorded
    <2>3. pc' \in [Clients -> Points] /\ pc'[c] = "xorb" /\ Only(c)
      BY <2>1 DEF Core, TypeOK, Points, Only
    <2>4. TypeOK'
      BY <1>3, <2>1, <2>3 DEF WriteLayout, Core, TypeOK
    <2>5. ReqOK(c)'
      BY <2>1, <2>3 DEF ReqOK, Supplied, ShardPoints, FilePoints, Mapped
    <2> QED BY <2>2, <2>3, <2>4, <2>5, CoreFrame
  <1>4. CASE WriteXorb(c)
    <2>1. req[c].of \in Xorbs \cap layouts /\ xorbs' = xorbs \cup {req[c].of}
      BY <1>4 DEF WriteXorb, At, Core, ReqOK
    <2>2. {req[c].of} \in SUBSET Xorbs /\ Reply(c, {req[c].of})
      BY <1>4, <2>1 DEF WriteXorb
    <2>3. /\ pc' \in [Clients -> Points] /\ req' \in [Clients -> Req]
          /\ known' \in [Clients -> SUBSET Xorbs]
          /\ Only(c) /\ ReqOK(c)'
          /\ \A q \in Clients : known'[q] \subseteq known[q] \cup {req[c].of}
      BY <2>2, ReplyType DEF Core
    <2>4. Grow
      BY <1>4, <2>1 DEF WriteXorb, Grow
    <2>5. StoreOK'
      BY <1>4, <2>1, <2>3 DEF WriteXorb, Core, StoreOK, Supplied, Recorded
    <2>6. TypeOK'
      BY <1>4, <2>1, <2>3 DEF WriteXorb, Core, TypeOK
    <2> QED BY <2>3, <2>4, <2>5, <2>6, CoreFrame
  <1> QED BY <1>1, <1>2, <1>3, <1>4

\* HandleChunkQuery and the beginning of HandleShardUpload: a client knows of
\* stored xorbs only, and a shard that needs any other is hasty.
LEMMA BeginCore ==
    ASSUME Core, NEW c \in Clients,
           \/ \E ch \in Eligible : ChunkQuery(c, ch)
           \/ \E s \in Shards : UploadShard(c, s)
    PROVE  Core'
  <1>1. ASSUME NEW ch \in Eligible, ChunkQuery(c, ch) PROVE Core'
    <2> DEFINE told == IF chunks[ch] \in hasty THEN {} ELSE Declared(chunks[ch])
    <2>1. /\ chunks[ch] \in shards /\ UNCHANGED <<objects, hasty>> /\ pc' = pc /\ req' = req
          /\ known' = [known EXCEPT ![c] = @ \cup told]
      BY <1>1 DEF ChunkQuery
    <2>2. told \subseteq Xorbs /\ told \subseteq xorbs
      BY <2>1, NeededXorbs DEF Core, TypeOK, StoreOK, Supplied
    <2> HIDE DEF told
    <2>3. known' \in [Clients -> SUBSET Xorbs] /\ \A q \in Clients : known'[q] \subseteq xorbs
      BY <2>1, <2>2 DEF Core, TypeOK, StoreOK
    <2>4. StoreOK' /\ Grow
      BY <2>1, <2>3, StoreFrame
    <2>5. TypeOK'
      BY <1>1, <2>1, <2>3 DEF ChunkQuery, Core, TypeOK, objects
    <2>6. Only(c) /\ ReqOK(c)'
      BY <2>1, <2>4, ReqFrame DEF Only
    <2> QED BY <2>4, <2>5, <2>6, CoreFrame
  <1>2. ASSUME NEW s \in Shards, UploadShard(c, s) PROVE Core'
    <2> DEFINE r == [NoReq EXCEPT !.of = s, !.at = 1]
    <2>1. r \in Req /\ r.of = s /\ r.at = 1
      BY DEF NoReq, Req
    <2>2. PICK point \in {"dedup", "lock"} :
             /\ pc' = [pc EXCEPT ![c] = point] /\ req' = [req EXCEPT ![c] = r]
             /\ point = "lock" => ShardFiles[s] # <<>>
      BY <1>2 DEF UploadShard, Goto
    <2>3. spent' \in [Limited -> Nat]
      BY <1>2, SpendType DEF UploadShard, Core, Limited
    <2> HIDE DEF r
    <2>4. StoreOK' /\ Grow
      <3>1. UNCHANGED objects /\ known' = known /\ hasty \subseteq hasty'
        BY <1>2 DEF UploadShard
      <3>2. \A q \in Clients : known'[q] \subseteq xorbs
        BY <3>1 DEF Core, StoreOK
      <3> QED BY <3>1, <3>2, StoreFrame
    <2>5. TypeOK'
      <3>1. pc' \in [Clients -> Points] /\ req' \in [Clients -> Req]
        BY <2>1, <2>2 DEF Core, TypeOK, Points
      <3>2. UNCHANGED <<objects, mu, gor, orphans, known, acked>> /\ hasty' \subseteq Shards
        BY <1>2 DEF UploadShard, Core, TypeOK
      <3> QED BY <2>3, <3>1, <3>2 DEF Core, TypeOK, objects
    <2>6. Only(c) /\ pc'[c] = point /\ req'[c].of = s /\ req'[c].at = 1
      BY <2>1, <2>2 DEF Core, TypeOK, Only
    <2>7. s \in hasty' \/ Needed(s) \subseteq xorbs'
      BY <1>2 DEF UploadShard, Core, StoreOK, objects
    <2>8. point = "lock" => 1 \in DOMAIN ShardFiles[s]
      BY <2>2, ShapeAssumption
    <2>9. ReqOK(c)'
      BY <2>6, <2>7, <2>8 DEF ReqOK, Supplied, ShardPoints, FilePoints, Mapped
    <2> QED BY <2>4, <2>5, <2>6, <2>9, CoreFrame
  <1> QED BY <1>1, <1>2

\* PutFile: under Store.mu, the record of a file before its sha256 mapping.
LEMMA PutFileCore ==
    ASSUME Core, NEW c \in Clients, LockStore(c) \/ WriteRecord(c) \/ WriteSHA256(c)
    PROVE  Core'
  <1>0. /\ pc[c] \in FilePoints /\ req[c].of \in Shards /\ Supplied(req[c].of)
        /\ req[c].at \in DOMAIN ShardFiles[req[c].of]
    BY DEF LockStore, WriteRecord, WriteSHA256, At, Core, ReqOK, ShardPoints, FilePoints
  <1>1. CASE LockStore(c)
    <2>1. /\ pc' = [pc EXCEPT ![c] = "record"] /\ req' = req /\ known' = known
          /\ UNCHANGED <<objects, hasty>>
      BY <1>1 DEF LockStore, Goto
    <2>2. StoreOK' /\ Grow
      BY <2>1, StoreFrame DEF Core, StoreOK
    <2>3. TypeOK'
      BY <1>1, <2>1 DEF LockStore, Core, TypeOK, Points, objects
    <2>4. Only(c) /\ pc'[c] = "record" /\ xorbs' = xorbs /\ hasty' = hasty
      BY <2>1 DEF Core, TypeOK, Only, objects
    <2>5. ReqOK(c)'
      BY <1>0, <2>1, <2>4 DEF ReqOK, Supplied, ShardPoints, FilePoints, Mapped
    <2> QED BY <2>2, <2>3, <2>4, <2>5, CoreFrame
  <1>2. CASE WriteRecord(c)
    <2> DEFINE f == ShardFile(c).file
               r == Record(c)
    <2>1. f \in Files /\ [file |-> f, rec |-> r] \in Described /\ r \in Records /\ r # None
      BY <1>0, FileShape, RecordShape DEF ShardFile, ShardOf, Record, RecordOf
    <2>2. \/ \A k \in DOMAIN r.terms : r.terms[k].xorb \in xorbs
          \/ \E s \in hasty : \E i \in DOMAIN ShardFiles[s] :
                ShardFiles[s][i].file = f /\ RecordFromShardFile(ShardFiles[s][i]) = r
      <3>1. CASE Needed(req[c].of) \subseteq xorbs
        BY <1>0, <3>1, RecordShape DEF ShardFile, ShardOf, Record, RecordOf
      <3>2. CASE req[c].of \in hasty
        BY <1>0, <3>2 DEF ShardFile, ShardOf, Record, RecordOf
      <3> QED BY <1>0, <3>1, <3>2 DEF Supplied
    <2>3. files' = [files EXCEPT ![f] = r]
      BY <1>2 DEF WriteRecord
    <2>4. ShardFile(c)' = ShardFile(c) \/ req' # req
      BY DEF ShardFile, ShardOf
    <2> HIDE DEF f, r
    <2>5. files'[f] = r /\ \A g \in Files \ {f} : files'[g] = files[g]
      BY <2>1, <2>3 DEF Core, TypeOK
    <2>6. Grow
      BY <1>2, <2>1, <2>5 DEF WriteRecord, Grow
    <2>7. StoreOK'
      <3>1. ASSUME NEW g \in Files, files'[g] # None PROVE Recorded(g, files[g])'
        <4>1. CASE g = f
          BY <1>2, <2>1, <2>2, <2>5, <4>1 DEF Recorded, WriteRecord
        <4>2. CASE g # f
          BY <1>2, <2>5, <3>1, <4>2 DEF Core, StoreOK, Supplied, Recorded, WriteRecord
        <4> QED BY <4>1, <4>2
      <3>2. \A g \in sha256' : files'[g] # None
        BY <1>2, <2>6 DEF WriteRecord, Grow, Core, StoreOK, TypeOK
      <3>3. known' = known
        BY <1>2 DEF WriteRecord
      <3> QED BY <1>2, <3>1, <3>2, <3>3 DEF Core, StoreOK, Supplied, WriteRecord
    <2>8. /\ pc' \in [Clients -> Points] /\ req' \in [Clients -> Req]
          /\ mu' \in Clients \cup {None} /\ Only(c) /\ ReqOK(c)'
      <3>1. CASE ShardFile(c).sha256
        <4>1. /\ pc' = [pc EXCEPT ![c] = "sha256"] /\ req' = req /\ mu' = mu
              /\ xorbs' = xorbs /\ hasty' = hasty
          BY <1>2, <3>1 DEF WriteRecord, Goto
        <4>2. pc' \in [Clients -> Points] /\ pc'[c] = "sha256" /\ Only(c)
          BY <4>1 DEF Core, TypeOK, Points, Only
        <4>3. ShardFile(c)'.file = f
          BY <4>1 DEF f, ShardFile, ShardOf
        <4>4. files'[ShardFile(c)'.file] # None
          BY <2>1, <2>5, <4>3
        <4>5. ReqOK(c)'
          BY <1>0, <4>1, <4>2, <4>4 DEF ReqOK, Supplied, ShardPoints, FilePoints, Mapped
        <4> QED BY <4>1, <4>2, <4>5 DEF Core, TypeOK
      <3>2. CASE ~ShardFile(c).sha256
        <4>1. NextFile(c) /\ mu' = None
          BY <1>2, <3>2 DEF WriteRecord
        <4> QED BY <1>0, <2>6, <4>1, NextFileType
      <3> QED BY <3>1, <3>2
    <2>9. TypeOK'
      BY <1>2, <2>1, <2>3, <2>8 DEF WriteRecord, Core, TypeOK
    <2> QED BY <2>6, <2>7, <2>8, <2>9, CoreFrame
  <1>3. CASE WriteSHA256(c)
    <2>1. /\ pc[c] = "sha256" /\ pc' = [pc EXCEPT ![c] = "check"] /\ req' = req
          /\ sha256' = sha256 \cup {ShardFile(c).file} /\ files' = files /\ known' = known
          /\ xorbs' = xorbs /\ hasty' = hasty
      BY <1>3 DEF WriteSHA256, At, Goto
    <2>2. ShardFile(c).file \in Files /\ files[ShardFile(c).file] # None
      BY <1>0, <2>1, FileShape DEF ShardFile, ShardOf, Core, ReqOK
    <2>3. Grow
      BY <1>3, <2>1 DEF WriteSHA256, Grow
    <2>4. StoreOK'
      BY <1>3, <2>1, <2>2 DEF WriteSHA256, Core, StoreOK, Supplied, Recorded
    <2>5. TypeOK'
      BY <1>3, <2>1, <2>2 DEF WriteSHA256, Core, TypeOK, Points
    <2>6. Only(c) /\ pc'[c] = "check" /\ ShardFile(c)' = ShardFile(c)
      BY <2>1 DEF Core, TypeOK, Only, ShardFile, ShardOf
    <2>7. ReqOK(c)'
      BY <1>0, <2>1, <2>2, <2>6 DEF ReqOK, Supplied, ShardPoints, FilePoints, Mapped
    <2> QED BY <2>3, <2>4, <2>5, <2>6, <2>7, CoreFrame
  <1> QED BY <1>1, <1>2, <1>3

\* materialize: it looks, starts reconstruct and waits on the pipe, and touches
\* the store only to add the blob.
LEMMA MaterializeCore ==
    ASSUME Core, NEW c \in Clients,
           \/ HasLFSBlob(c) \/ PutBlobPresent(c) \/ PutBlobAbsent(c)
           \/ ReadTerm(c) \/ PipeTerm(c) \/ BlobLands(c) \/ ReconstructFailed(c)
    PROVE  Core'
  <1>0. known' = known => \A q \in Clients : known'[q] \subseteq xorbs
    BY DEF Core, StoreOK
  <1>1. CASE HasLFSBlob(c)
    <2>1. pc[c] = "check" /\ UNCHANGED <<objects, mu, orphans, known, acked, hasty>>
      BY <1>1 DEF HasLFSBlob, At
    <2>2. StoreOK' /\ Grow
      BY <1>0, <2>1, StoreFrame
    <2>3. spent' \in [Limited -> Nat] /\ gor' \in [Clients -> Gor]
      <3>1. spent' \in [Limited -> Nat]
        BY <1>1, SpendType DEF HasLFSBlob, Core, TypeOK, Limited
      <3>2. gor' \in [Clients -> Gor]
        <4>1. CASE gor' = gor
          BY <4>1 DEF Core, TypeOK
        <4>2. CASE gor' # gor
          <5>1. PICK g \in Gor : gor' = [gor EXCEPT ![c] = g]
            <6>1. \A st \in {"eof", "fetch"} : [state |-> st, term |-> 1] \in Gor
              BY DEF Gor
            <6> QED BY <1>1, <4>2, <6>1 DEF HasLFSBlob
          <5> QED BY <5>1 DEF Core, TypeOK
        <4> QED BY <4>1, <4>2
      <3> QED BY <3>1, <3>2
    <2>4. /\ pc' \in [Clients -> Points] /\ req' \in [Clients -> Req]
          /\ Only(c) /\ ReqOK(c)'
      <3>1. CASE NextFile(c)
        BY <2>1, <2>2, <3>1, NextFileType DEF FilePoints
      <3>2. CASE Goto(c, "stat") /\ UNCHANGED req
        <4>1. pc' \in [Clients -> Points] /\ pc'[c] = "stat" /\ Only(c)
          BY <3>2 DEF Goto, Core, TypeOK, Points, Only
        <4>2. /\ req[c].of \in Shards /\ Supplied(req[c].of)
              /\ req[c].at \in DOMAIN ShardFiles[req[c].of]
              /\ files[ShardFile(c).file] # None
          BY <2>1 DEF Core, ReqOK, ShardPoints, FilePoints, Mapped
        <4>3. UNCHANGED <<req, xorbs, hasty, files>> /\ ShardFile(c)' = ShardFile(c)
          BY <2>1, <3>2 DEF objects, ShardFile, ShardOf
        <4>4. ReqOK(c)'
          BY <4>1, <4>2, <4>3 DEF ReqOK, Supplied, ShardPoints, FilePoints, Mapped
        <4> QED BY <4>1, <4>3, <4>4 DEF Core, TypeOK
      <3> QED BY <1>1, <3>1, <3>2 DEF HasLFSBlob
    <2>5. TypeOK'
      BY <2>1, <2>3, <2>4 DEF Core, TypeOK, objects
    <2> QED BY <2>2, <2>4, <2>5, CoreFrame
  <1>2. CASE PutBlobPresent(c)
    <2>1. pc[c] = "stat" /\ UNCHANGED <<objects, mu, known, acked, hasty, spent>> /\ NextFile(c)
      BY <1>2 DEF PutBlobPresent, At
    <2>2. StoreOK' /\ Grow
      BY <1>0, <2>1, StoreFrame
    <2>3. gor' \in [Clients -> Gor] /\ orphans' \in Nat
      BY <1>2, NoneTypes DEF PutBlobPresent, Core, TypeOK
    <2>4. /\ pc' \in [Clients -> Points] /\ req' \in [Clients -> Req]
          /\ Only(c) /\ ReqOK(c)'
      BY <2>1, <2>2, NextFileType DEF FilePoints
    <2>5. TypeOK'
      BY <2>1, <2>3, <2>4 DEF Core, TypeOK, objects
    <2> QED BY <2>2, <2>4, <2>5, CoreFrame
  <1>3. CASE PutBlobAbsent(c)
    <2>1. /\ pc[c] = "stat" /\ UNCHANGED <<objects, mu, req, gor, orphans, known, acked, hasty, spent>>
          /\ pc' = [pc EXCEPT ![c] = "drain"]
      BY <1>3 DEF PutBlobAbsent, At, Goto
    <2>2. StoreOK' /\ Grow
      BY <1>0, <2>1, StoreFrame
    <2>3. pc' \in [Clients -> Points] /\ pc'[c] = "drain" /\ Only(c)
      BY <2>1 DEF Core, TypeOK, Points, Only
    <2>4. /\ req[c].of \in Shards /\ Supplied(req[c].of)
          /\ req[c].at \in DOMAIN ShardFiles[req[c].of]
          /\ files[ShardFile(c).file] # None
      BY <2>1 DEF Core, ReqOK, ShardPoints, FilePoints, Mapped
    <2>5. UNCHANGED <<req, xorbs, hasty, files>> /\ ShardFile(c)' = ShardFile(c)
      BY <2>1 DEF objects, ShardFile, ShardOf
    <2>6. ReqOK(c)'
      BY <2>3, <2>4, <2>5 DEF ReqOK, Supplied, ShardPoints, FilePoints, Mapped
    <2>7. TypeOK'
      BY <2>1, <2>3 DEF Core, TypeOK, objects
    <2> QED BY <2>2, <2>3, <2>6, <2>7, CoreFrame
  <1>4. CASE ReadTerm(c) \/ PipeTerm(c)
    <2>1. UNCHANGED <<objects, mu, pc, req, orphans, known, acked, hasty>>
      BY <1>4 DEF ReadTerm, PipeTerm
    <2>2. StoreOK' /\ Grow
      BY <1>0, <2>1, StoreFrame
    <2>3. gor' \in [Clients -> Gor]
      <3>1. gor[c] \in Gor
        BY DEF Core, TypeOK
      <3>2. PICK g \in Gor : gor' = [gor EXCEPT ![c] = g]
        <4>1. \A st \in {"write", "failed", "fetch", "eof"} :
                 /\ [gor[c] EXCEPT !.state = st] \in Gor
                 /\ [state |-> st, term |-> 0] \in Gor
                 /\ [state |-> st, term |-> gor[c].term + 1] \in Gor
          BY <3>1 DEF Gor
        <4>2. CASE ReadTerm(c)
          BY <4>1, <4>2 DEF ReadTerm, Core, TypeOK
        <4>3. CASE PipeTerm(c)
          BY <4>1, <4>3 DEF PipeTerm, Core, TypeOK
        <4> QED BY <1>4, <4>2, <4>3
      <3> QED BY <3>2 DEF Core, TypeOK
    <2>4. spent' \in [Limited -> Nat]
      BY <1>4, SpendType DEF ReadTerm, PipeTerm, Core, TypeOK, Limited
    <2>5. TypeOK'
      BY <2>1, <2>3, <2>4 DEF Core, TypeOK, objects
    <2>6. Only(c) /\ ReqOK(c)'
      BY <2>1, <2>2, ReqFrame DEF Only
    <2> QED BY <2>2, <2>5, <2>6, CoreFrame
  <1>5. CASE BlobLands(c)
    <2>1. /\ pc[c] = "drain" /\ NextFile(c) /\ blobs' = blobs \cup {ShardFile(c).file}
          /\ UNCHANGED <<layouts, xorbs, files, sha256, shards, chunks>>
          /\ UNCHANGED <<mu, orphans, known, acked, hasty, spent>>
      BY <1>5 DEF BlobLands, At
    <2>2. ShardFile(c).file \in Files
      BY <2>1, FileShape DEF Core, ReqOK, ShardPoints, FilePoints, ShardFile, ShardOf
    <2>3. Grow /\ StoreOK'
      BY <2>1 DEF Grow, Core, StoreOK, Supplied, Recorded
    <2>4. gor' \in [Clients -> Gor]
      BY <1>5, NoneTypes DEF BlobLands, Core, TypeOK
    <2>5. /\ pc' \in [Clients -> Points] /\ req' \in [Clients -> Req]
          /\ Only(c) /\ ReqOK(c)'
      BY <2>1, <2>3, NextFileType DEF FilePoints
    <2>6. TypeOK'
      BY <2>1, <2>2, <2>4, <2>5 DEF Core, TypeOK
    <2> QED BY <2>3, <2>5, <2>6, CoreFrame
  <1>6. CASE ReconstructFailed(c)
    <2>1. Reply(c, {}) /\ UNCHANGED <<objects, mu, orphans, acked, hasty, spent>>
      BY <1>6 DEF ReconstructFailed
    <2>2. gor' \in [Clients -> Gor]
      BY <1>6, NoneTypes DEF ReconstructFailed, Core, TypeOK
    <2>3. {} \in SUBSET Xorbs
      OBVIOUS
    <2>4. /\ pc' \in [Clients -> Points] /\ req' \in [Clients -> Req]
          /\ known' \in [Clients -> SUBSET Xorbs]
          /\ Only(c) /\ ReqOK(c)'
          /\ \A q \in Clients : known'[q] \subseteq known[q] \cup {}
      BY <2>1, <2>3, ReplyType DEF Core
    <2>5. \A q \in Clients : known'[q] \subseteq xorbs
      BY <2>4 DEF Core, StoreOK
    <2>6. StoreOK' /\ Grow
      BY <2>1, <2>5, StoreFrame
    <2>7. TypeOK'
      BY <2>1, <2>2, <2>4 DEF Core, TypeOK, objects
    <2> QED BY <2>4, <2>6, <2>7, CoreFrame
  <1> QED BY <1>1, <1>2, <1>3, <1>4, <1>5, <1>6

\* PutDedupShard: the shard is there before a chunk points at it, and declares
\* the chunk.
LEMMA DedupCore ==
    ASSUME Core, NEW c \in Clients,
           RegisterShard(c) \/ \E ch \in Eligible : PointChunk(c, ch)
    PROVE  Core'
  <1>0. /\ req[c].of \in Shards /\ Supplied(req[c].of) /\ req[c] \in Req
        /\ pc[c] = "point" =>
              req[c].of \in shards /\ req[c].left \subseteq EligibleOf(req[c].of)
    BY DEF RegisterShard, PointChunk, At, Core, ReqOK, ShardPoints, TypeOK
  <1>1. ASSUME Reply(c, {})
        PROVE  /\ pc' \in [Clients -> Points] /\ req' \in [Clients -> Req]
               /\ known' \in [Clients -> SUBSET Xorbs]
               /\ Only(c) /\ ReqOK(c)'
               /\ \A q \in Clients : known'[q] \subseteq xorbs
    <2>1. {} \in SUBSET Xorbs
      OBVIOUS
    <2>2. \A q \in Clients : known'[q] \subseteq known[q] \cup {}
      BY <1>1, <2>1, ReplyType DEF Core
    <2>3. \A q \in Clients : known'[q] \subseteq xorbs
      BY <2>2 DEF Core, StoreOK
    <2> QED BY <1>1, <2>1, <2>3, ReplyType DEF Core
  <1>2. EligibleOf(req[c].of) \subseteq Chunks
    BY ShapeAssumption DEF EligibleOf
  <1>3. CASE RegisterShard(c)
    <2>1. CASE EligibleOf(ShardOf(c)) = {}
      <3>1. Reply(c, {}) /\ acked' = acked \cup {req[c].of} /\ shards' = shards
        BY <1>3, <2>1 DEF RegisterShard, ShardOf
      <3>2. UNCHANGED <<objects, hasty>>
        BY <1>3, <3>1 DEF RegisterShard, objects
      <3>3. StoreOK' /\ Grow
        BY <1>1, <3>1, <3>2, StoreFrame
      <3>4. TypeOK'
        BY <1>0, <1>1, <1>3, <3>1 DEF RegisterShard, Core, TypeOK
      <3> QED BY <1>1, <3>1, <3>3, <3>4, CoreFrame
    <2>2. CASE EligibleOf(ShardOf(c)) # {}
      <3>1. /\ shards' = shards \cup {req[c].of} /\ pc' = [pc EXCEPT ![c] = "point"]
            /\ req' = [req EXCEPT ![c].left = EligibleOf(req[c].of)]
            /\ UNCHANGED <<known, acked, xorbs, hasty>>
        BY <1>3, <2>2 DEF RegisterShard, ShardOf, Goto
      <3>2. /\ req' \in [Clients -> Req] /\ req'[c].of = req[c].of
            /\ req'[c].left = EligibleOf(req[c].of)
        BY <1>0, <1>2, <3>1 DEF Core, TypeOK, Req
      <3>3. pc' \in [Clients -> Points] /\ pc'[c] = "point" /\ Only(c)
        BY <3>1 DEF Core, TypeOK, Points, Only
      <3>4. Grow /\ StoreOK'
        BY <1>0, <1>3, <3>1 DEF RegisterShard, Grow, Core, StoreOK, Supplied, Recorded
      <3>5. TypeOK'
        BY <1>0, <1>3, <3>1, <3>2, <3>3 DEF RegisterShard, Core, TypeOK
      <3>6. ReqOK(c)'
        BY <1>0, <3>1, <3>2, <3>3 DEF ReqOK, Supplied, ShardPoints, FilePoints, Mapped
      <3> QED BY <3>3, <3>4, <3>5, <3>6, CoreFrame
    <2> QED BY <2>1, <2>2
  <1>4. ASSUME NEW ch \in Eligible, PointChunk(c, ch) PROVE Core'
    <2>1. /\ pc[c] = "point" /\ ch \in req[c].left
          /\ chunks' = [chunks EXCEPT ![ch] = req[c].of]
          /\ UNCHANGED <<layouts, xorbs, files, sha256, shards, blobs, mu, gor, orphans, hasty, spent>>
      BY <1>4 DEF PointChunk, At, ShardOf
    <2>2. ch \in Chunks /\ ch \in EligibleOf(req[c].of) /\ req[c].of \in shards
      BY <1>0, <1>2, <2>1
    <2>3. \A q \in Clients : known'[q] \subseteq xorbs
      BY <1>1, <1>4 DEF PointChunk, Core, StoreOK
    <2>4. Grow
      BY <2>1 DEF Grow
    <2>5. StoreOK'
      <3>1. ASSUME NEW h \in Chunks, chunks'[h] # None
            PROVE  chunks'[h] \in shards' /\ h \in EligibleOf(chunks'[h])
        BY <2>1, <2>2, <3>1 DEF Core, TypeOK, StoreOK
      <3> QED BY <2>1, <2>3, <3>1 DEF Core, StoreOK, Supplied, Recorded
    <2>6. /\ pc' \in [Clients -> Points] /\ req' \in [Clients -> Req]
          /\ known' \in [Clients -> SUBSET Xorbs] /\ acked' \subseteq Shards
          /\ Only(c) /\ ReqOK(c)'
      <3>1. CASE req[c].left = {ch}
        <4>1. Reply(c, {}) /\ acked' = acked \cup {req[c].of}
          BY <1>4, <3>1 DEF PointChunk, ShardOf
        <4> QED BY <1>0, <1>1, <4>1 DEF Core, TypeOK
      <3>2. CASE req[c].left # {ch}
        <4>1. req' = [req EXCEPT ![c].left = @ \ {ch}] /\ UNCHANGED <<pc, known, acked>>
          BY <1>4, <3>2 DEF PointChunk
        <4>2. /\ req' \in [Clients -> Req] /\ req'[c].of = req[c].of
              /\ req'[c].left = req[c].left \ {ch} /\ Only(c)
          BY <1>0, <4>1 DEF Core, TypeOK, Req, Only
        <4>3. ReqOK(c)'
          BY <1>0, <2>1, <4>1, <4>2 DEF ReqOK, Supplied, ShardPoints, FilePoints, Mapped
        <4> QED BY <4>1, <4>2, <4>3 DEF Core, TypeOK
      <3> QED BY <3>1, <3>2
    <2>7. TypeOK'
      BY <1>0, <2>1, <2>2, <2>6 DEF Core, TypeOK
    <2> QED BY <2>4, <2>5, <2>6, <2>7, CoreFrame
  <1> QED BY <1>3, <1>4

\* Every step keeps types, store and locals in order.
LEMMA CoreStep == Core /\ [Next]_vars => Core'
  <1> SUFFICES ASSUME Core, [Next]_vars PROVE Core'
    OBVIOUS
  <1>1. ASSUME NEW c \in Clients, Step(c) PROVE Core'
    BY <1>1, XorbCore, PutFileCore, MaterializeCore, DedupCore DEF Step
  <1>2. ASSUME NEW c \in Clients, Fail(c) PROVE Core'
    <2>1. /\ Reply(c, {}) /\ UNCHANGED <<objects, orphans, acked, hasty>>
          /\ mu' \in Clients \cup {None} /\ gor' \in [Clients -> Gor]
      BY <1>2, NoneTypes DEF Fail, Core, TypeOK
    <2>2. {} \in SUBSET Xorbs
      OBVIOUS
    <2>3. /\ pc' \in [Clients -> Points] /\ req' \in [Clients -> Req]
          /\ known' \in [Clients -> SUBSET Xorbs]
          /\ Only(c) /\ ReqOK(c)'
          /\ \A q \in Clients : known'[q] \subseteq known[q] \cup {}
      BY <2>1, <2>2, ReplyType DEF Core
    <2>4. spent' \in [Limited -> Nat]
      BY <1>2, SpendType DEF Fail, Core, Limited
    <2>5. \A q \in Clients : known'[q] \subseteq xorbs
      BY <2>3 DEF Core, StoreOK
    <2>6. StoreOK' /\ Grow
      BY <2>1, <2>5, StoreFrame
    <2>7. TypeOK'
      BY <2>1, <2>3, <2>4 DEF Core, TypeOK, objects
    <2> QED BY <2>3, <2>6, <2>7, CoreFrame
  <1>3. CASE Crash
    <2>1. UNCHANGED <<objects, known, acked, hasty>> /\ \A c \in Clients : pc'[c] = "idle"
      BY <1>3 DEF Crash
    <2>2. spent' \in [Limited -> Nat]
      BY <1>3, SpendType DEF Crash, Core, Limited
    <2>3. TypeOK'
      BY <1>3, <2>1, <2>2, NoneTypes DEF Crash, Core, TypeOK, objects, Points
    <2>4. StoreOK'
      <3>1. \A q \in Clients : known'[q] \subseteq xorbs
        BY <2>1 DEF Core, StoreOK
      <3> QED BY <2>1, <3>1, StoreFrame
    <2>5. \A c \in Clients : ReqOK(c)'
      BY <2>1 DEF ReqOK, Supplied, ShardPoints, FilePoints, Mapped
    <2> QED BY <2>3, <2>4, <2>5 DEF Core
  <1>4. CASE UNCHANGED vars
    <2>1. TypeOK' /\ StoreOK'
      BY <1>4 DEF vars, objects, Core, TypeOK, StoreOK, Supplied, Recorded
    <2>2. Grow
      BY <1>4 DEF vars, objects, Grow
    <2>3. \A c \in Clients : ReqOK(c)'
      BY <1>4, <2>2, ReqFrame DEF vars
    <2> QED BY <2>1, <2>3 DEF Core
  <1> QED BY <1>1, <1>2, <1>3, <1>4, XorbCore, BeginCore DEF Next

\* Every object, request and goroutine has a value the code can give it.
THEOREM TypeCorrect == Spec => []TypeOK
  <1>1. Core => TypeOK
    BY DEF Core
  <1> QED BY <1>1, InitCore, CoreStep, PTL DEF Spec

\* WriteLayout before the xorb, PutFile's record before its sha256: what resolve
\* advertises has a record, and unless a hasty shard recorded it, the xorbs and the
\* layouts of it are all there.
THEOREM AdvertisedStored == Spec => []Advertised
  <1>1. Core => Advertised
    <2> SUFFICES ASSUME Core PROVE Advertised
      OBVIOUS
    <2>1. \A f \in Files : files[f] # None =>
             \/ \A i \in DOMAIN files[f].terms : files[f].terms[i].xorb \in xorbs \cap layouts
             \/ Hastily(f)
      BY DEF Core, StoreOK, Recorded, Hastily
    <2>2. \A f \in Files : f \in sha256 => files[f] # None
      BY DEF Core, StoreOK
    <2> QED BY <2>1, <2>2 DEF Advertised
  <1> QED BY <1>1, InitCore, CoreStep, PTL DEF Spec

\* PutDedupShard: a visible pointer leads to a stored shard that declares a xorb with
\* the chunk in it, and unless the shard was hasty the store has all it declares.
THEOREM PointersUsable == Spec => []PointerUsable
  <1>1. Core => PointerUsable
    <2> SUFFICES ASSUME Core, NEW ch \in Chunks, chunks[ch] # None
                 PROVE  /\ chunks[ch] \in shards
                        /\ chunks[ch] \notin hasty => Declared(chunks[ch]) \subseteq xorbs
                        /\ \E i \in DOMAIN ShardXorbs[chunks[ch]] :
                              LET x == ShardXorbs[chunks[ch]][i] IN
                              \E k \in DOMAIN Content[x] : Content[x][k] = ch
      BY DEF PointerUsable
    <2>1. /\ chunks[ch] \in shards /\ chunks[ch] \in Shards
          /\ ch \in EligibleOf(chunks[ch])
          /\ chunks[ch] \notin hasty => Needed(chunks[ch]) \subseteq xorbs
      BY DEF Core, TypeOK, StoreOK, Supplied
    <2>2. PICK x \in Declared(chunks[ch]) : \E k \in DOMAIN Content[x] : Content[x][k] = ch
      BY <2>1 DEF EligibleOf
    <2>3. PICK i \in DOMAIN ShardXorbs[chunks[ch]] : x = ShardXorbs[chunks[ch]][i]
      BY DEF Declared
    <2>4. chunks[ch] \notin hasty => Declared(chunks[ch]) \subseteq xorbs
      BY <2>1, NeededXorbs
    <2> QED BY <2>1, <2>2, <2>3, <2>4
  <1> QED BY <1>1, InitCore, CoreStep, PTL DEF Spec

-----------------------------------------------------------------------------
(* What an acknowledged shard upload has done *)

\* A file is done: with the new store, whatever becomes of the request.
DoneNow(f) == files'[f.file] # None /\ (f.sha256 => f.file \in blobs' \cap sha256')

\* Done files stay done.
LEMMA DoneStays ==
    ASSUME Grow, NEW s \in Shards, NEW i \in DOMAIN ShardFiles[s], Done(ShardFiles[s][i])
    PROVE  DoneNow(ShardFiles[s][i])
  BY FileShape DEF Done, DoneNow, Grow

\* A request that a step does not touch has still done what it had.
LEMMA WorkFrame ==
    ASSUME Core, Work, Grow, NEW q \in Clients, pc'[q] = pc[q], req'[q] = req[q]
    PROVE  WorkOK(q)'
  <1>1. pc[q] \in ShardPoints => req[q].of \in Shards /\ req[q] \in Req
    BY DEF Core, ReqOK, TypeOK
  <1>2. pc[q] \in FilePoints => /\ req[q].at \in DOMAIN ShardFiles[req[q].of]
                                /\ 1 .. (req[q].at - 1) \subseteq DOMAIN ShardFiles[req[q].of]
    <2> SUFFICES ASSUME pc[q] \in FilePoints
                 PROVE  /\ req[q].at \in DOMAIN ShardFiles[req[q].of]
                        /\ 1 .. (req[q].at - 1) \subseteq DOMAIN ShardFiles[req[q].of]
      OBVIOUS
    <2>1. req[q].at \in DOMAIN ShardFiles[req[q].of] /\ req[q].of \in Shards
      BY <1>1 DEF Core, ReqOK, ShardPoints
    <2>2. DOMAIN ShardFiles[req[q].of] = 1 .. Len(ShardFiles[req[q].of])
          /\ Len(ShardFiles[req[q].of]) \in Nat
      BY <2>1, ShapeAssumption
    <2> QED BY <2>1, <2>2
  <1>3. /\ pc[q] \in FilePoints =>
              \A i \in 1 .. (req[q].at - 1) : Done(ShardFiles[req[q].of][i])
        /\ pc[q] \in {"dedup", "point"} =>
              \A i \in DOMAIN ShardFiles[req[q].of] : Done(ShardFiles[req[q].of][i])
        /\ pc[q] \in Mapped => ShardFile(q).file \in sha256
    BY DEF Work, WorkOK
  <1>4. ShardFile(q)' = ShardFile(q)
    BY DEF ShardFile, ShardOf
  <1>5. ASSUME pc[q] \in FilePoints, NEW i \in 1 .. (req[q].at - 1)
        PROVE  DoneNow(ShardFiles[req[q].of][i])
    BY <1>1, <1>2, <1>3, <1>5, DoneStays DEF ShardPoints
  <1>6. ASSUME pc[q] \in {"dedup", "point"}, NEW i \in DOMAIN ShardFiles[req[q].of]
        PROVE  DoneNow(ShardFiles[req[q].of][i])
    BY <1>1, <1>3, <1>6, DoneStays DEF ShardPoints
  <1>7. pc[q] \in Mapped => ShardFile(q).file \in sha256'
    BY <1>3 DEF Grow
  <1> QED BY <1>4, <1>5, <1>6, <1>7 DEF WorkOK, Done, DoneNow

\* A step of one client's request that acknowledges no shard.
LEMMA WorkStays ==
    ASSUME Core, Work, NEW c \in Clients, Grow, Only(c), acked' = acked, WorkOK(c)'
    PROVE  Work'
  <1>1. ASSUME NEW q \in Clients PROVE WorkOK(q)'
    BY WorkFrame DEF Only
  <1>2. ASSUME NEW s \in acked', NEW i \in DOMAIN ShardFiles[s]
        PROVE  DoneNow(ShardFiles[s][i])
    <2>1. s \in acked /\ s \in Shards
      BY DEF Core, TypeOK
    <2>2. Done(ShardFiles[s][i])
      BY <2>1 DEF Work, AckedMaterialised, Done
    <2> QED BY <2>1, <2>2, DoneStays
  <1>3. AckedMaterialised'
    BY <1>2 DEF AckedMaterialised, DoneNow
  <1> QED BY <1>1, <1>3 DEF Work

\* The file a request is at has been done, and it goes on to the next one, or to
\* the registration when all are done.
LEMMA NextFileWork ==
    ASSUME Core, Work, NEW c \in Clients, Grow, NextFile(c), pc[c] \in FilePoints,
           DoneNow(ShardFile(c))
    PROVE  WorkOK(c)'
  <1> DEFINE s == req[c].of
             n == req[c].at
  <1>1. s \in Shards /\ n \in DOMAIN ShardFiles[s] /\ req[c] \in Req
    BY DEF Core, ReqOK, ShardPoints, TypeOK
  <1>2. DOMAIN ShardFiles[s] = 1 .. Len(ShardFiles[s]) /\ Len(ShardFiles[s]) \in Nat
    BY <1>1, ShapeAssumption
  <1>3. \A i \in 1 .. (n - 1) : Done(ShardFiles[s][i])
    BY DEF Work, WorkOK
  <1>4. ShardFile(c) = ShardFiles[s][n] /\ ShardOf(c) = s
    BY DEF ShardFile, ShardOf
  <1> HIDE DEF s, n
  <1>5. ASSUME NEW i \in 1 .. n PROVE DoneNow(ShardFiles[s][i])
    <2>1. CASE i = n
      BY <1>4, <2>1
    <2>2. CASE i # n
      <3>0. n \in Nat /\ n <= Len(ShardFiles[s])
        BY <1>1, <1>2
      <3>1. i \in 1 .. (n - 1) /\ i \in DOMAIN ShardFiles[s]
        BY <1>2, <2>2, <3>0
      <3>2. DoneNow(ShardFiles[s][i])
        BY <1>1, <1>3, <3>1, DoneStays
      <3> QED BY <3>2
    <2> QED BY <2>1, <2>2
  <1>6. CASE n < Len(ShardFiles[s])
    <2>1. pc' = [pc EXCEPT ![c] = "lock"] /\ req' = [req EXCEPT ![c].at = @ + 1]
      BY <1>4, <1>6 DEF NextFile, Goto, n
    <2>2. pc'[c] = "lock" /\ req'[c].of = s /\ req'[c].at = n + 1
      BY <1>1, <2>1 DEF Core, TypeOK, Req, s, n
    <2>3. 1 .. (req'[c].at - 1) = 1 .. n
      BY <1>1, <1>2, <2>2
    <2> QED BY <1>5, <2>2, <2>3 DEF WorkOK, Done, DoneNow, FilePoints, Mapped
  <1>7. CASE ~(n < Len(ShardFiles[s]))
    <2>1. pc' = [pc EXCEPT ![c] = "dedup"] /\ req' = req
      BY <1>4, <1>7 DEF NextFile, Goto, n
    <2>2. pc'[c] = "dedup" /\ req'[c].of = s
      BY <2>1 DEF Core, TypeOK, s
    <2>3. DOMAIN ShardFiles[s] = 1 .. n
      BY <1>1, <1>2, <1>7
    <2> QED BY <1>5, <2>2, <2>3 DEF WorkOK, Done, DoneNow, FilePoints, Mapped
  <1> QED BY <1>6, <1>7

\* A request that stays at its file, or ends, keeps what it had done.
LEMMA FileKept ==
    ASSUME Core, Work, NEW c \in Clients, Grow, pc[c] \in FilePoints, req' = req,
           pc'[c] \in FilePoints, pc'[c] \in Mapped => ShardFile(c).file \in sha256'
    PROVE  WorkOK(c)'
  <1> DEFINE s == req[c].of
             n == req[c].at
  <1>1. s \in Shards /\ n \in DOMAIN ShardFiles[s]
    BY DEF Core, ReqOK, ShardPoints
  <1>2. DOMAIN ShardFiles[s] = 1 .. Len(ShardFiles[s]) /\ Len(ShardFiles[s]) \in Nat
    BY <1>1, ShapeAssumption
  <1>3. \A i \in 1 .. (n - 1) : Done(ShardFiles[s][i])
    BY DEF Work, WorkOK
  <1>4. ShardFile(c)' = ShardFile(c)
    BY DEF ShardFile, ShardOf
  <1>5. req'[c].of = s /\ req'[c].at = n
    OBVIOUS
  <1> HIDE DEF s, n
  <1>6. ASSUME NEW i \in 1 .. (n - 1) PROVE DoneNow(ShardFiles[s][i])
    <2>0. n \in Nat /\ n <= Len(ShardFiles[s])
      BY <1>1, <1>2
    <2>1. i \in DOMAIN ShardFiles[s]
      BY <1>2, <2>0
    <2> QED BY <1>1, <1>3, <2>1, DoneStays
  <1>7. pc'[c] \notin {"dedup", "point"}
    BY DEF FilePoints
  <1> QED BY <1>4, <1>5, <1>6, <1>7 DEF WorkOK, Done, DoneNow

\* A request outside a shard upload has nothing to show.
LEMMA WorkIdle ==
    ASSUME NEW c \in Clients, pc'[c] \notin ShardPoints
    PROVE  WorkOK(c)'
  BY DEF WorkOK, ShardPoints, FilePoints, Mapped

\* The steps that go from one file to the next, or stay at one.
LEMMA FileWork ==
    ASSUME Core, Work, NEW c \in Clients,
           \/ LockStore(c) \/ WriteRecord(c) \/ WriteSHA256(c) \/ HasLFSBlob(c)
           \/ PutBlobPresent(c) \/ PutBlobAbsent(c) \/ BlobLands(c)
    PROVE  Work'
  <1> DEFINE f == ShardFile(c).file
  <1>1. /\ pc[c] \in FilePoints /\ req[c].of \in Shards
        /\ req[c].at \in DOMAIN ShardFiles[req[c].of] /\ acked' = acked
    BY DEF LockStore, WriteRecord, WriteSHA256, HasLFSBlob, PutBlobPresent, PutBlobAbsent,
           BlobLands, At, Core, ReqOK, ShardPoints, FilePoints
  <1>2. f \in Files
    BY <1>1, FileShape DEF ShardFile, ShardOf
  <1>3. pc[c] \in Mapped => f \in sha256 /\ files[f] # None
    BY DEF Core, ReqOK, Work, WorkOK, Mapped
  <1>4. Record(c) # None
    BY <1>1, RecordShape DEF Record, RecordOf, ShardFile, ShardOf
  <1> HIDE DEF f
  <1>5. Grow
    BY <1>2, <1>4 DEF LockStore, WriteRecord, WriteSHA256, HasLFSBlob, PutBlobPresent,
           PutBlobAbsent, BlobLands, Grow, objects, Core, TypeOK, f
  <1>6. Only(c)
    <2>1. NextFile(c) => Only(c)
      BY DEF NextFile, Goto, Only, Core, TypeOK
    <2>2. ASSUME NEW point, Goto(c, point), req' = req PROVE Only(c)
      BY <2>2 DEF Goto, Only, Core, TypeOK
    <2> QED BY <2>1, <2>2 DEF LockStore, WriteRecord, WriteSHA256, HasLFSBlob,
               PutBlobPresent, PutBlobAbsent, BlobLands
  <1>7. CASE NextFile(c)
    <2>1. pc'[c] \in {"lock", "dedup"}
      BY <1>7 DEF NextFile, Goto, Core, TypeOK
    <2>2. DoneNow(ShardFile(c))
      <3>1. CASE WriteRecord(c)
        <4>1. ~ShardFile(c).sha256
          BY <2>1, <3>1 DEF WriteRecord, Goto, Core, TypeOK
        <4>2. files'[f] # None
          BY <1>2, <1>4, <3>1 DEF WriteRecord, Core, TypeOK, f
        <4> QED BY <4>1, <4>2 DEF DoneNow, f
      <3>2. CASE HasLFSBlob(c) \/ PutBlobPresent(c) \/ BlobLands(c)
        <4>1. pc[c] \in Mapped
          BY <3>2 DEF HasLFSBlob, PutBlobPresent, BlobLands, At, Mapped
        <4>2. f \in blobs'
          BY <2>1, <3>2 DEF HasLFSBlob, PutBlobPresent, BlobLands, objects, Goto, Core,
                            TypeOK, f
        <4>3. f \in sha256' /\ files'[f] # None
          BY <1>2, <1>3, <1>5, <4>1 DEF Grow
        <4> QED BY <4>2, <4>3 DEF DoneNow, f
      <3>3. ~LockStore(c) /\ ~WriteSHA256(c) /\ ~PutBlobAbsent(c)
        BY <2>1 DEF LockStore, WriteSHA256, PutBlobAbsent, Goto, Core, TypeOK
      <3> QED BY <3>1, <3>2, <3>3
    <2>3. WorkOK(c)'
      BY <1>1, <1>5, <1>7, <2>2, NextFileWork
    <2> QED BY <1>1, <1>5, <1>6, <2>3, WorkStays
  <1>8. CASE ~NextFile(c)
    <2>1. /\ req' = req /\ pc'[c] \in {"record", "sha256", "check", "stat", "drain"}
          /\ pc'[c] \in Mapped => f \in sha256'
      <3>1. CASE LockStore(c) \/ WriteRecord(c)
        BY <1>8, <3>1 DEF LockStore, WriteRecord, Goto, Core, TypeOK, Mapped
      <3>2. CASE WriteSHA256(c)
        BY <3>2 DEF WriteSHA256, Goto, Core, TypeOK, f
      <3>3. CASE HasLFSBlob(c) \/ PutBlobPresent(c) \/ PutBlobAbsent(c) \/ BlobLands(c)
        <4>1. pc[c] \in Mapped
          BY <3>3 DEF HasLFSBlob, PutBlobPresent, PutBlobAbsent, BlobLands, At, Mapped
        <4>2. req' = req /\ pc'[c] \in {"stat", "drain"}
          BY <1>8, <3>3 DEF HasLFSBlob, PutBlobPresent, PutBlobAbsent, BlobLands, Goto,
                            Core, TypeOK
        <4> QED BY <1>3, <1>5, <4>1, <4>2 DEF Grow
      <3> QED BY <3>1, <3>2, <3>3
    <2>2. WorkOK(c)'
      BY <1>1, <1>5, <2>1, FileKept DEF FilePoints, f
    <2> QED BY <1>1, <1>5, <1>6, <2>2, WorkStays
  <1> QED BY <1>7, <1>8

\* The other steps before the registration of the shard.
LEMMA OtherWork ==
    ASSUME Core, Work, NEW c \in Clients,
           \/ \E x \in Xorbs : UploadXorb(c, x)
           \/ HasXorb(c) \/ WriteLayout(c) \/ WriteXorb(c)
           \/ \E ch \in Eligible : ChunkQuery(c, ch)
           \/ \E s \in Shards : UploadShard(c, s)
           \/ ReadTerm(c) \/ PipeTerm(c) \/ ReconstructFailed(c) \/ Fail(c)
    PROVE  Work'
  <1>1. acked' = acked /\ Grow
    BY DEF UploadXorb, HasXorb, WriteLayout, WriteXorb, ChunkQuery, UploadShard, ReadTerm,
           PipeTerm, ReconstructFailed, Fail, Grow, objects
  <1>2. \/ pc' = pc /\ req' = req
        \/ \E x \in Xorbs : UploadXorb(c, x)
        \/ Goto(c, "layout") /\ req' = req
        \/ WriteLayout(c)
        \/ \E learned : Reply(c, learned)
        \/ \E s \in Shards : UploadShard(c, s)
    BY DEF HasXorb, WriteXorb, ChunkQuery, ReadTerm, PipeTerm, ReconstructFailed, Fail
  <1>3. CASE pc' = pc /\ req' = req
    <2>1. Only(c) /\ WorkOK(c)'
      BY <1>1, <1>3, WorkFrame DEF Only
    <2> QED BY <1>1, <2>1, WorkStays
  <1>4. ASSUME NEW s \in Shards, UploadShard(c, s) PROVE Work'
    <2> DEFINE r == [NoReq EXCEPT !.of = s, !.at = 1]
    <2>1. r.of = s /\ r.at = 1
      BY DEF NoReq
    <2>2. PICK point \in {"dedup", "lock"} :
             /\ pc' = [pc EXCEPT ![c] = point] /\ req' = [req EXCEPT ![c] = r]
             /\ point = "dedup" => ShardFiles[s] = <<>>
      BY <1>4 DEF UploadShard, Goto
    <2> HIDE DEF r
    <2>3. Only(c) /\ pc'[c] = point /\ req'[c].of = s /\ req'[c].at = 1
      BY <2>1, <2>2 DEF Core, TypeOK, Only
    <2>4. CASE point = "lock"
      <3>1. 1 .. (req'[c].at - 1) = {}
        BY <2>3
      <3>2. WorkOK(c)'
        BY <2>3, <2>4, <3>1 DEF WorkOK, FilePoints, Mapped
      <3> QED BY <1>1, <2>3, <3>2, WorkStays
    <2>5. CASE point = "dedup"
      <3>1. DOMAIN ShardFiles[s] = {}
        BY <2>2, <2>5
      <3>2. WorkOK(c)'
        BY <2>3, <2>5, <3>1 DEF WorkOK, FilePoints, Mapped
      <3> QED BY <1>1, <2>3, <3>2, WorkStays
    <2> QED BY <2>4, <2>5
  <1>5. CASE \/ \E x \in Xorbs : UploadXorb(c, x)
             \/ Goto(c, "layout") /\ req' = req
             \/ WriteLayout(c)
             \/ \E learned : Reply(c, learned)
    <2>1. Only(c) /\ pc'[c] \in {"has", "layout", "xorb", "idle"}
      BY <1>5 DEF UploadXorb, WriteLayout, Reply, Goto, Only, Core, TypeOK
    <2>2. WorkOK(c)'
      BY <2>1, WorkIdle DEF ShardPoints, FilePoints
    <2> QED BY <1>1, <2>1, <2>2, WorkStays
  <1> QED BY <1>2, <1>3, <1>4, <1>5

\* PutDedupShard: a shard is acknowledged after all its files are done.
LEMMA DedupWork ==
    ASSUME Core, Work, NEW c \in Clients,
           RegisterShard(c) \/ \E ch \in Eligible : PointChunk(c, ch)
    PROVE  Work'
  <1> DEFINE s == req[c].of
  <1>1. s \in Shards /\ pc[c] \in {"dedup", "point"}
    BY DEF RegisterShard, PointChunk, At, Core, ReqOK, ShardPoints
  <1>2. \A i \in DOMAIN ShardFiles[s] : Done(ShardFiles[s][i])
    BY <1>1 DEF Work, WorkOK
  <1>3. Grow
    BY DEF RegisterShard, PointChunk, Grow
  <1>4. \A i \in DOMAIN ShardFiles[s] : DoneNow(ShardFiles[s][i])
    <2> HIDE DEF s
    <2> QED BY <1>1, <1>2, <1>3, DoneStays
  <1>5. CASE Reply(c, {}) /\ acked' = acked \cup {s}
    <2>1. Only(c) /\ pc'[c] = "idle"
      BY <1>5 DEF Reply, Goto, Only, Core, TypeOK
    <2>2. WorkOK(c)'
      BY <2>1, WorkIdle DEF ShardPoints, FilePoints
    <2>3. ASSUME NEW q \in Clients PROVE WorkOK(q)'
      BY <1>3, <2>1, <2>2, WorkFrame DEF Only
    <2>4. ASSUME NEW a \in acked', NEW i \in DOMAIN ShardFiles[a]
          PROVE  DoneNow(ShardFiles[a][i])
      <3>1. CASE a = s
        BY <1>4, <3>1
      <3>2. CASE a # s
        <4>1. a \in acked /\ a \in Shards
          BY <1>5, <3>2 DEF Core, TypeOK
        <4>2. Done(ShardFiles[a][i])
          BY <4>1 DEF Work, AckedMaterialised, Done
        <4> QED BY <1>3, <4>1, <4>2, DoneStays
      <3> QED BY <3>1, <3>2
    <2>5. AckedMaterialised'
      BY <2>4 DEF AckedMaterialised, DoneNow
    <2> QED BY <2>3, <2>5 DEF Work
  <1>6. CASE ~(Reply(c, {}) /\ acked' = acked \cup {s})
    <2>1. /\ acked' = acked /\ pc'[c] = "point" /\ req'[c].of = s /\ Only(c)
      <3>1. CASE RegisterShard(c)
        <4>1. /\ req' = [req EXCEPT ![c].left = EligibleOf(s)]
              /\ pc' = [pc EXCEPT ![c] = "point"] /\ acked' = acked
          BY <1>6, <3>1 DEF RegisterShard, ShardOf, Goto
        <4> QED BY <4>1 DEF Core, TypeOK, Req, Only
      <3>2. ASSUME NEW ch \in Eligible, PointChunk(c, ch)
            PROVE  acked' = acked /\ pc'[c] = "point" /\ req'[c].of = s /\ Only(c)
        <4>1. /\ req' = [req EXCEPT ![c].left = @ \ {ch}] /\ pc' = pc /\ acked' = acked
              /\ pc[c] = "point"
          BY <1>6, <3>2 DEF PointChunk, ShardOf, At
        <4> QED BY <4>1 DEF Core, TypeOK, Req, Only
      <3> QED BY <3>1, <3>2
    <2>2. WorkOK(c)'
      BY <1>4, <2>1 DEF WorkOK, Done, DoneNow, FilePoints, Mapped
    <2> QED BY <1>3, <2>1, <2>2, WorkStays
  <1> QED BY <1>5, <1>6

\* No step forgets a file of an upload under way, or of an acknowledged one.
LEMMA WorkStep == Core /\ Work /\ [Next]_vars => Work'
  <1> SUFFICES ASSUME Core, Work, [Next]_vars PROVE Work'
    OBVIOUS
  <1>1. ASSUME NEW c \in Clients, Step(c) PROVE Work'
    BY <1>1, FileWork, OtherWork, DedupWork DEF Step
  <1>2. CASE Crash
    <2>1. /\ UNCHANGED <<objects, acked>> /\ \A c \in Clients : pc'[c] = "idle"
      BY <1>2 DEF Crash
    <2>2. \A c \in Clients : WorkOK(c)'
      BY <2>1 DEF WorkOK, FilePoints, Mapped
    <2>3. AckedMaterialised'
      BY <2>1 DEF objects, Work, AckedMaterialised
    <2> QED BY <2>2, <2>3 DEF Work
  <1>3. CASE UNCHANGED vars
    <2>1. Grow /\ acked' = acked
      BY <1>3 DEF vars, objects, Grow
    <2>2. \A c \in Clients : WorkOK(c)'
      BY <1>3, <2>1, WorkFrame DEF vars
    <2>3. AckedMaterialised'
      BY <1>3 DEF vars, objects, Work, AckedMaterialised
    <2> QED BY <2>2, <2>3 DEF Work
  <1> QED BY <1>1, <1>2, <1>3, OtherWork DEF Next

\* HandleShardUpload: an acknowledged shard has recorded every file and
\* materialised every file with a sha256.
THEOREM AckedDone == Spec => []AckedMaterialised
  <1>1. Init => Work
    BY DEF Init, Work, AckedMaterialised, WorkOK, FilePoints, Mapped
  <1>2. Work => AckedMaterialised
    BY DEF Work
  <1> QED BY <1>1, <1>2, InitCore, CoreStep, WorkStep, PTL DEF Spec

-----------------------------------------------------------------------------
(* Who waits for whom *)

\* Store.mu is held just by the client inside PutFile, and the goroutine of
\* reconstruct is there just while PutLFSBlob is at the other end of the pipe, at a
\* term of the file.
Served(c) ==
    /\ mu = c <=> pc[c] \in {"record", "sha256"}
    /\ gor[c].state # "none" <=> pc[c] \in {"stat", "drain"}
    /\ gor[c].state \in {"fetch", "write"} => gor[c].term \in DOMAIN ShardFile(c).terms

\* Nobody waits for nothing or in a circle: a client that waits for the lock waits for
\* one in PutFile, which waits for nobody, and a reader of the pipe for a goroutine
\* that is at a term, has finished or has closed the pipe.
WaitersServed == \A c \in Clients : Served(c)

\* What a step of one client leaves alone for the others.
LEMMA ServedFrame ==
    ASSUME WaitersServed, NEW c \in Clients, Only(c), Served(c)',
           \A q \in Clients \ {c} : gor'[q] = gor[q] /\ (mu' = q <=> mu = q)
    PROVE  WaitersServed'
  BY DEF WaitersServed, Served, Only, ShardFile, ShardOf

\* A step outside PutFile and materialize.
LEMMA ServedOutside ==
    ASSUME WaitersServed, NEW c \in Clients, Only(c), mu' = mu, gor' = gor,
           pc[c] \notin {"record", "sha256", "stat", "drain"},
           pc'[c] \notin {"record", "sha256", "stat", "drain"}
    PROVE  WaitersServed'
  <1>1. Served(c)'
    BY DEF WaitersServed, Served
  <1> QED BY <1>1, ServedFrame

\* Where a client is after NextFile and after its answer.
LEMMA Onwards ==
    ASSUME TypeOK, NEW c \in Clients
    PROVE  /\ NextFile(c) => pc'[c] \in {"lock", "dedup"} /\ Only(c)
           /\ \A learned : Reply(c, learned) => pc'[c] = "idle" /\ Only(c)
  BY DEF TypeOK, NextFile, Reply, Goto, Only

\* Requests before and after the files of a shard.
LEMMA OutsideSteps ==
    ASSUME Core, WaitersServed, NEW c \in Clients,
           \/ \E x \in Xorbs : UploadXorb(c, x)
           \/ \E ch \in Eligible : ChunkQuery(c, ch) \/ PointChunk(c, ch)
           \/ \E s \in Shards : UploadShard(c, s)
           \/ HasXorb(c) \/ WriteLayout(c) \/ WriteXorb(c) \/ RegisterShard(c)
    PROVE  WaitersServed'
  <1> DEFINE Inner == {"record", "sha256", "stat", "drain"}
  <1>1. TypeOK
    BY DEF Core
  <1>2. mu' = mu /\ gor' = gor /\ pc[c] \notin Inner
    BY DEF UploadXorb, ChunkQuery, PointChunk, UploadShard, HasXorb, WriteLayout, WriteXorb,
           RegisterShard, At
  <1>3. pc'[c] \notin Inner /\ Only(c)
    <2>1. ASSUME NEW x \in Xorbs, UploadXorb(c, x) PROVE pc'[c] \notin Inner /\ Only(c)
      BY <1>1, <2>1 DEF UploadXorb, Goto, TypeOK, Only
    <2>2. ASSUME NEW ch \in Eligible, ChunkQuery(c, ch) PROVE pc'[c] \notin Inner /\ Only(c)
      BY <1>2, <2>2 DEF ChunkQuery, Only
    <2>3. ASSUME NEW ch \in Eligible, PointChunk(c, ch) PROVE pc'[c] \notin Inner /\ Only(c)
      <3>1. CASE req[c].left = {ch}
        BY <1>1, <2>3, <3>1, Onwards DEF PointChunk
      <3>2. CASE req[c].left # {ch}
        BY <1>1, <1>2, <2>3, <3>2 DEF PointChunk, TypeOK, Only
      <3> QED BY <3>1, <3>2
    <2>4. ASSUME NEW s \in Shards, UploadShard(c, s) PROVE pc'[c] \notin Inner /\ Only(c)
      BY <1>1, <2>4 DEF UploadShard, Goto, TypeOK, Only
    <2>5. CASE HasXorb(c)
      <3>1. CASE Reply(c, {req[c].of})
        BY <1>1, <3>1, Onwards
      <3>2. CASE Goto(c, "layout") /\ req' = req
        BY <1>1, <3>2 DEF Goto, TypeOK, Only
      <3> QED BY <2>5, <3>1, <3>2 DEF HasXorb
    <2>6. CASE WriteLayout(c)
      BY <1>1, <2>6 DEF WriteLayout, Goto, TypeOK, Only
    <2>7. CASE WriteXorb(c)
      BY <1>1, <2>7, Onwards DEF WriteXorb
    <2>8. CASE RegisterShard(c)
      <3>1. CASE Reply(c, {})
        BY <1>1, <3>1, Onwards
      <3>2. CASE Goto(c, "point") /\ req' = [req EXCEPT ![c].left = EligibleOf(ShardOf(c))]
        BY <1>1, <3>2 DEF Goto, TypeOK, Only
      <3> QED BY <2>8, <3>1, <3>2 DEF RegisterShard
    <2> QED BY <2>1, <2>2, <2>3, <2>4, <2>5, <2>6, <2>7, <2>8
  <1> QED BY <1>2, <1>3, ServedOutside

\* PutFile takes the lock and gives it back.
LEMMA PutFileServed ==
    ASSUME Core, WaitersServed, NEW c \in Clients, LockStore(c) \/ WriteRecord(c) \/ WriteSHA256(c)
    PROVE  WaitersServed'
  <1>1. TypeOK /\ gor' = gor /\ Served(c) /\ c # None
    BY NoneAssumption DEF Core, WaitersServed, LockStore, WriteRecord, WriteSHA256
  <1>2. CASE LockStore(c)
    <2>1. mu = None /\ mu' = c /\ pc[c] = "lock" /\ pc'[c] = "record" /\ Only(c)
      BY <1>1, <1>2 DEF LockStore, At, Goto, TypeOK, Only
    <2>2. Served(c)'
      BY <1>1, <2>1 DEF Served
    <2>3. \A q \in Clients \ {c} : gor'[q] = gor[q] /\ (mu' = q <=> mu = q)
      BY <1>1, <2>1, NoneAssumption
    <2> QED BY <2>1, <2>2, <2>3, ServedFrame
  <1>3. ASSUME mu = c, mu' = None, pc[c] \in {"record", "sha256"}, pc'[c] \in {"lock", "dedup", "check"},
               Only(c)
        PROVE  WaitersServed'
    <2>1. Served(c)'
      BY <1>1, <1>3 DEF Served
    <2>2. \A q \in Clients \ {c} : gor'[q] = gor[q] /\ (mu' = q <=> mu = q)
      BY <1>1, <1>3, NoneAssumption
    <2> QED BY <1>3, <2>1, <2>2, ServedFrame
  <1>4. CASE WriteRecord(c)
    <2>1. pc[c] = "record" /\ mu = c
      BY <1>1, <1>4 DEF WriteRecord, At, Served
    <2>2. CASE Goto(c, "sha256") /\ UNCHANGED <<mu, req>>
      <3>1. pc'[c] = "sha256" /\ Only(c)
        BY <1>1, <2>2 DEF Goto, TypeOK, Only
      <3>2. Served(c)'
        BY <1>1, <2>1, <2>2, <3>1 DEF Served
      <3> QED BY <1>1, <2>2, <3>1, <3>2, ServedFrame
    <2>3. CASE mu' = None /\ NextFile(c)
      BY <1>1, <1>3, <2>1, <2>3, Onwards
    <2> QED BY <1>4, <2>2, <2>3 DEF WriteRecord
  <1>5. CASE WriteSHA256(c)
    <2>1. /\ pc[c] = "sha256" /\ mu = c /\ mu' = None /\ pc'[c] = "check" /\ Only(c)
      BY <1>1, <1>5 DEF WriteSHA256, At, Served, Goto, TypeOK, Only
    <2> QED BY <1>3, <2>1
  <1> QED BY <1>2, <1>4, <1>5

\* materialize starts the goroutine and does not return before it has ended, or
\* leaves it behind.
LEMMA MaterializeServed ==
    ASSUME Core, WaitersServed, NEW c \in Clients,
           \/ HasLFSBlob(c) \/ PutBlobPresent(c) \/ PutBlobAbsent(c) \/ ReadTerm(c) \/ PipeTerm(c)
           \/ BlobLands(c) \/ ReconstructFailed(c)
    PROVE  WaitersServed'
  <1>1. TypeOK /\ mu' = mu /\ Served(c)
    BY DEF Core, WaitersServed, HasLFSBlob, PutBlobPresent, PutBlobAbsent, ReadTerm, PipeTerm,
           BlobLands, ReconstructFailed
  <1>2. pc[c] \in {"check", "stat", "drain"} /\ mu # c
    BY <1>1 DEF Served, HasLFSBlob, PutBlobPresent, PutBlobAbsent, ReadTerm, PipeTerm,
                BlobLands, ReconstructFailed, At
  <1>3. SUFFICES ASSUME Only(c), \A q \in Clients \ {c} : gor'[q] = gor[q]
                 PROVE  Served(c)'
    <2>1. \A q \in Clients \ {c} : gor'[q] = gor[q]
      BY <1>1 DEF TypeOK, HasLFSBlob, PutBlobPresent, PutBlobAbsent, ReadTerm, PipeTerm,
                  BlobLands, ReconstructFailed
    <2>2. Only(c)
      <3>1. CASE NextFile(c) \/ Reply(c, {})
        BY <1>1, <3>1, Onwards
      <3>2. CASE (pc' = pc \/ Goto(c, "stat") \/ Goto(c, "drain")) /\ req' = req
        BY <1>1, <3>2 DEF TypeOK, Goto, Only
      <3> QED BY <3>1, <3>2 DEF HasLFSBlob, PutBlobPresent, PutBlobAbsent, ReadTerm, PipeTerm,
                                BlobLands, ReconstructFailed
    <2> QED BY <1>1, <1>3, <2>1, <2>2, ServedFrame
  <1>4. CASE HasLFSBlob(c) /\ NextFile(c) /\ gor' = gor
    <2>1. pc[c] = "check" /\ pc'[c] \in {"lock", "dedup"}
      BY <1>1, <1>4, Onwards DEF HasLFSBlob, At
    <2> QED BY <1>1, <1>2, <1>4, <2>1 DEF Served
  <1>5. CASE HasLFSBlob(c) /\ ~(NextFile(c) /\ gor' = gor)
    <2>1. /\ pc' = [pc EXCEPT ![c] = "stat"] /\ req' = req
          /\ gor' = [gor EXCEPT ![c] = [state |-> IF ShardFile(c).terms = <<>> THEN "eof" ELSE "fetch",
                                        term |-> 1]]
      BY <1>5 DEF HasLFSBlob, Goto
    <2>2. /\ pc'[c] = "stat" /\ gor'[c].term = 1
          /\ gor'[c].state = IF ShardFile(c).terms = <<>> THEN "eof" ELSE "fetch"
      BY <1>1, <2>1 DEF TypeOK
    <2>3. ShardFile(c).terms # <<>> => 1 \in DOMAIN ShardFile(c).terms
      <3>1. req[c].of \in Shards /\ req[c].at \in DOMAIN ShardFiles[req[c].of]
        BY <1>2 DEF Core, ReqOK, ShardPoints, FilePoints
      <3>2. ShardFile(c).terms \in Seq([xorb: Xorbs, chunkStart: Nat, chunkEnd: Nat, unpackedLen: Nat])
        BY <3>1, FileShape DEF ShardFile, ShardOf
      <3> QED BY <3>2
    <2>4. ShardFile(c)' = ShardFile(c)
      BY <2>1 DEF ShardFile, ShardOf
    <2> QED BY <1>1, <1>2, <2>2, <2>3, <2>4 DEF Served
  <1>6. CASE PutBlobPresent(c) \/ BlobLands(c) \/ ReconstructFailed(c)
    <2>1. pc'[c] \in {"lock", "dedup", "idle"}
      BY <1>1, <1>6, Onwards DEF PutBlobPresent, BlobLands, ReconstructFailed
    <2>2. gor'[c] = NoGor
      BY <1>1, <1>6 DEF TypeOK, PutBlobPresent, BlobLands, ReconstructFailed
    <2> QED BY <1>1, <1>2, <2>1, <2>2 DEF Served, NoGor
  <1>7. CASE PutBlobAbsent(c)
    <2>1. pc[c] = "stat" /\ pc'[c] = "drain" /\ gor' = gor /\ req' = req
      BY <1>1, <1>7 DEF PutBlobAbsent, At, Goto, TypeOK
    <2>2. ShardFile(c)' = ShardFile(c)
      BY <2>1 DEF ShardFile, ShardOf
    <2> QED BY <1>1, <1>2, <2>1, <2>2 DEF Served
  <1>8. CASE ReadTerm(c)
    <2>1. gor[c].state = "fetch" /\ pc' = pc /\ req' = req
      BY <1>8 DEF ReadTerm
    <2>2. gor'[c].state \in {"write", "failed"} /\ gor'[c].term = gor[c].term
      BY <1>1, <1>8 DEF ReadTerm, TypeOK, Gor
    <2>3. ShardFile(c)' = ShardFile(c)
      BY <2>1 DEF ShardFile, ShardOf
    <2> QED BY <1>1, <1>2, <2>1, <2>2, <2>3 DEF Served
  <1>9. CASE PipeTerm(c)
    <2>1. gor[c].state = "write" /\ pc[c] = "drain" /\ pc' = pc /\ req' = req
      BY <1>9 DEF PipeTerm, At
    <2>2. gor'[c] = IF gor[c].term < Len(ShardFile(c).terms)
                    THEN [state |-> "fetch", term |-> gor[c].term + 1]
                    ELSE [state |-> "eof", term |-> 0]
      BY <1>1, <1>9 DEF PipeTerm, TypeOK
    <2>3. ShardFile(c)' = ShardFile(c)
      BY <2>1 DEF ShardFile, ShardOf
    <2>4. gor[c].term < Len(ShardFile(c).terms) => gor[c].term + 1 \in DOMAIN ShardFile(c).terms
      <3>1. req[c].of \in Shards /\ req[c].at \in DOMAIN ShardFiles[req[c].of]
        BY <1>2 DEF Core, ReqOK, ShardPoints, FilePoints
      <3>2. ShardFile(c).terms \in Seq([xorb: Xorbs, chunkStart: Nat, chunkEnd: Nat, unpackedLen: Nat])
        BY <3>1, FileShape DEF ShardFile, ShardOf
      <3>3. gor[c].term \in Nat
        BY <1>1 DEF TypeOK, Gor
      <3> QED BY <3>2, <3>3
    <2> QED BY <1>1, <1>2, <2>1, <2>2, <2>3, <2>4 DEF Served
  <1> QED BY <1>4, <1>5, <1>6, <1>7, <1>8, <1>9

\* Every step leaves the waiters served: an error gives the lock back and closes the
\* pipe, a crash ends them all.
LEMMA ServedStep == Core /\ WaitersServed /\ [Next]_vars => WaitersServed'
  <1> SUFFICES ASSUME Core, WaitersServed, [Next]_vars PROVE WaitersServed'
    OBVIOUS
  <1>1. ASSUME NEW c \in Clients, Step(c) PROVE WaitersServed'
    BY <1>1, OutsideSteps, PutFileServed, MaterializeServed DEF Step
  <1>2. ASSUME NEW c \in Clients, Fail(c) PROVE WaitersServed'
    <2>1. /\ pc'[c] = "idle" /\ Only(c) /\ mu' = IF mu = c THEN None ELSE mu
          /\ gor'[c] = NoGor /\ \A q \in Clients \ {c} : gor'[q] = gor[q]
      BY <1>2, Onwards DEF Fail, Core, TypeOK
    <2>2. mu' # c /\ \A q \in Clients \ {c} : mu' = q <=> mu = q
      BY <2>1, NoneAssumption
    <2>3. Served(c)'
      BY <2>1, <2>2 DEF Served, NoGor
    <2> QED BY <2>1, <2>2, <2>3, ServedFrame
  <1>3. CASE Crash
    <2>1. \A c \in Clients : mu' # c /\ pc'[c] = "idle" /\ gor'[c] = NoGor
      BY <1>3, NoneAssumption DEF Crash
    <2> QED BY <2>1 DEF WaitersServed, Served, NoGor
  <1>4. CASE UNCHANGED vars
    BY <1>4 DEF vars, WaitersServed, Served, ShardFile, ShardOf
  <1> QED BY <1>1, <1>2, <1>3, <1>4, OutsideSteps DEF Next

\* The safety half of UploadsEnd: with any clients, failures and crashes nobody waits
\* for a lock that nobody holds or for a pipe that nobody writes to.
THEOREM NobodyWaitsForNothing == Spec => []WaitersServed
  <1>1. Init => WaitersServed
    BY NoneAssumption DEF Init, WaitersServed, Served, NoGor
  <1> QED BY <1>1, InitCore, CoreStep, ServedStep, PTL DEF Spec

-----------------------------------------------------------------------------
(* Numbers: least elements and induction *)

\* A set of numbers has a least one.
LEMMA LeastNat ==
    ASSUME NEW T \in SUBSET Nat, T # {}
    PROVE  \E m \in T : \A n \in T : m <= n
  <1>1. \E x \in T : \A y \in T : ~ (<<y, x>> \in OpToRel(<, Nat))
    <2>1. T \subseteq Nat
      OBVIOUS
    <2> QED BY <2>1, NatLessThanWellFounded, WFMin, Zenon
  <1>2. \A x, y \in Nat : x < y => <<x, y>> \in OpToRel(<, Nat)
    BY DEF OpToRel
  <1>3. \E R : /\ \E x \in T : \A y \in T : ~ (<<y, x>> \in R)
               /\ \A x, y \in Nat : x < y => <<x, y>> \in R
    BY <1>1, <1>2, Zenon
  <1>4. PICK R : /\ \E x \in T : \A y \in T : ~ (<<y, x>> \in R)
                 /\ \A x, y \in Nat : x < y => <<x, y>> \in R
    BY <1>3, Zenon
  <1>5. PICK x \in T : \A y \in T : ~ (<<y, x>> \in R)
    BY <1>4
  <1>6. ASSUME NEW y \in T PROVE x <= y
    <2>1. x \in Nat /\ y \in Nat /\ ~(y < x)
      BY <1>4, <1>5, Zenon
    <2> QED BY <2>1
  <1> QED BY <1>6

\* A set that has 0 and every number's successor has all numbers: induction, with
\* a set in the place of the predicate.
LEMMA NatSet ==
    ASSUME NEW S, 0 \in S, \A n \in Nat : n \in S => n + 1 \in S
    PROVE  \A n \in Nat : n \in S
  <1> DEFINE T == {n \in Nat : n \notin S}
  <1>1. CASE T # {}
    <2>1. T \in SUBSET Nat
      OBVIOUS
    <2>2. PICK x \in T : \A y \in T : x <= y
      <3> HIDE DEF T
      <3> QED BY <1>1, <2>1, LeastNat
    <2>3. x \in Nat /\ x \notin S /\ x # 0
      OBVIOUS
    <2>4. x - 1 \in Nat /\ x - 1 \notin T
      BY <2>2, <2>3
    <2>5. x - 1 + 1 = x /\ x - 1 \in S
      BY <2>3, <2>4
    <2> QED BY <2>3, <2>4, <2>5
  <1> QED BY <1>1

\* A bounded set of numbers has a greatest one.
LEMMA GreatestNat ==
    ASSUME NEW N \in Nat, NEW T \in SUBSET (1 .. N), T # {}
    PROVE  \E m \in T : \A n \in T : n <= m
  <1> DEFINE D == {N - x : x \in T}
  <1>1. D \in SUBSET Nat /\ D # {}
    <2>1. \A x \in T : N - x \in Nat
      <3>1. \A x \in T : x \in 1 .. N
        OBVIOUS
      <3> QED BY <3>1
    <2> QED BY <2>1
  <1>2. PICK d \in D : \A e \in D : d <= e
    <2> HIDE DEF D
    <2> QED BY <1>1, LeastNat
  <1>3. PICK m \in T : d = N - m
    OBVIOUS
  <1>4. ASSUME NEW n \in T PROVE n <= m
    <2>1. N - n \in D /\ n \in 1 .. N /\ m \in 1 .. N
      OBVIOUS
    <2>2. N - m <= N - n
      BY <1>2, <1>3, <2>1
    <2> QED BY <2>1, <2>2
  <1> QED BY <1>4

-----------------------------------------------------------------------------
(* Running sums *)

\* Sums is well defined: its first element is 0, and each one adds a length.
LEMMA SumsStep ==
    ASSUME NEW l \in Seq(Nat)
    PROVE  /\ Sums(l) \in [0 .. Len(l) -> Nat]
           /\ Sums(l)[0] = 0
           /\ \A i \in 1 .. Len(l) : Sums(l)[i] = Sums(l)[i - 1] + l[i]
  <1> DEFINE N == Len(l)
             Upto(g, n) == g[0] = 0 /\ \A i \in 1 .. n : g[i] = g[i - 1] + l[i]
             S == {n \in Nat : n <= N => \E g \in [0 .. n -> Nat] : Upto(g, n)}
  <1>1. N \in Nat /\ \A i \in 1 .. N : l[i] \in Nat
    OBVIOUS
  <1>2. 0 \in S
    <2>1. Upto([i \in 0 .. 0 |-> 0], 0)
      OBVIOUS
    <2> QED BY <2>1
  <1>3. ASSUME NEW n \in Nat, n \in S, n + 1 <= N
        PROVE  \E g \in [0 .. (n + 1) -> Nat] : Upto(g, n + 1)
    <2>1. PICK g \in [0 .. n -> Nat] : Upto(g, n)
      BY <1>1, <1>3
    <2> DEFINE h == [i \in 0 .. (n + 1) |-> IF i = n + 1 THEN g[n] + l[n + 1] ELSE g[i]]
    <2>2. g[0] = 0 /\ (\A i \in 1 .. n : g[i] = g[i - 1] + l[i]) /\ l[n + 1] \in Nat
      BY <1>1, <1>3, <2>1
    <2> HIDE DEF N
    <2>3. h \in [0 .. (n + 1) -> Nat]
      BY <1>3, <2>2
    <2>4. h[0] = 0
      BY <2>2
    <2>5. ASSUME NEW i \in 1 .. (n + 1) PROVE h[i] = h[i - 1] + l[i]
      <3>1. CASE i = n + 1
        <4>1. h[i - 1] = g[n] /\ h[i] = g[n] + l[n + 1]
          BY <3>1
        <4> QED BY <3>1, <4>1
      <3>2. CASE i # n + 1
        <4>1. i \in 1 .. n /\ i \in 0 .. (n + 1) /\ i - 1 \in 0 .. (n + 1) /\ i - 1 # n + 1
          BY <3>2
        <4> QED BY <2>2, <3>2, <4>1
      <3> QED BY <3>1, <3>2
    <2>6. Upto(h, n + 1)
      <3> HIDE DEF h
      <3> QED BY <2>4, <2>5
    <2> QED BY <2>3, <2>6
  <1>4. \A n \in Nat : n \in S
    <2>1. ASSUME NEW n \in Nat, n \in S PROVE n + 1 \in S
      <3> HIDE DEF N
      <3>1. n + 1 <= N => \E g \in [0 .. (n + 1) -> Nat] : Upto(g, n + 1)
        BY <1>3, <2>1
      <3>2. n + 1 \in Nat
        OBVIOUS
      <3> QED BY <3>1, <3>2, Zenon
    <2> HIDE DEF S
    <2> QED BY <1>2, <2>1, NatSet
  <1>5. PICK g \in [0 .. N -> Nat] : Upto(g, N)
    <2>1. N \in S
      <3> HIDE DEF S
      <3> QED BY <1>1, <1>4
    <2>2. N <= N
      BY <1>1
    <2> HIDE DEF N
    <2> QED BY <2>1, <2>2, Zenon
  <1>6. g = [i \in 0 .. N |-> IF i = 0 THEN 0 ELSE g[i - 1] + l[i]]
    BY <1>1, <1>5
  <1>7. Sums(l) = [i \in 0 .. N |-> IF i = 0 THEN 0 ELSE Sums(l)[i - 1] + l[i]]
    BY <1>6, Zenon DEF Sums
  <1> DEFINE s == Sums(l)
             R == {n \in Nat : n <= N => s[n] \in Nat}
  <1>8. s[0] = 0 /\ \A i \in 1 .. N : s[i] = s[i - 1] + l[i]
    <2> HIDE DEF s
    <2> SUFFICES ASSUME s = [i \in 0 .. N |-> IF i = 0 THEN 0 ELSE s[i - 1] + l[i]]
                 PROVE  s[0] = 0 /\ \A i \in 1 .. N : s[i] = s[i - 1] + l[i]
      BY <1>7 DEF s
    <2> QED BY <1>1
  <1>9. 0 \in R /\ \A n \in Nat : n \in R => n + 1 \in R
    <2> HIDE DEF s
    <2>1. 0 \in R
      BY <1>8
    <2>2. ASSUME NEW n \in Nat, n \in R, n + 1 <= N PROVE s[n + 1] \in Nat
      <3> HIDE DEF N
      <3>1. n + 1 \in 1 .. N /\ n + 1 - 1 = n /\ n <= N
        BY <1>1, <2>2
      <3>2. s[n] \in Nat
        BY <2>2, <3>1, Zenon
      <3>3. s[n + 1] = s[n + 1 - 1] + l[n + 1]
        BY <1>8, <3>1
      <3>4. l[n + 1] \in Nat
        BY <1>1, <3>1
      <3> QED BY <3>1, <3>2, <3>3, <3>4
    <2> QED BY <2>1, <2>2
  <1>10. \A n \in Nat : n \in R
    <2> HIDE DEF R
    <2> QED BY <1>9, NatSet
  <1>11. \A n \in 0 .. N : s[n] \in Nat
    <2> HIDE DEF s
    <2> QED BY <1>1, <1>10
  <1>12. s \in [0 .. N -> Nat]
    <2>1. DOMAIN s = 0 .. N /\ s = [i \in DOMAIN s |-> s[i]]
      BY <1>7
    <2> HIDE DEF s, N
    <2> QED BY <1>11, <2>1
  <1> QED BY <1>8, <1>12

\* Running sums never fall, and the next one is found at every height below the last.
LEMMA SumsMonotone ==
    ASSUME NEW l \in Seq(Nat), NEW i \in 0 .. Len(l), NEW j \in i .. Len(l)
    PROVE  Sums(l)[i] <= Sums(l)[j]
  <1> DEFINE N == Len(l)
             s == Sums(l)
             S == {k \in Nat : i + k <= N => s[i] <= s[i + k]}
  <1>1. /\ N \in Nat /\ \A k \in 1 .. N : l[k] \in Nat /\ s[k] = s[k - 1] + l[k]
        /\ \A k \in 0 .. N : s[k] \in Nat
    <2>1. N \in Nat /\ \A k \in 1 .. N : l[k] \in Nat
      OBVIOUS
    <2>2. s \in [0 .. N -> Nat] /\ \A k \in 1 .. N : s[k] = s[k - 1] + l[k]
      BY SumsStep
    <2> HIDE DEF N, s
    <2> QED BY <2>1, <2>2
  <1> HIDE DEF N, s
  <1>2. i \in 0 .. N /\ j \in i .. N
    BY DEF N
  <1>3. 0 \in S
    BY <1>1, <1>2
  <1>4. ASSUME NEW k \in Nat, k \in S PROVE k + 1 \in S
    <2>1. CASE i + (k + 1) <= N
      <3>1. /\ i + k + 1 \in 1 .. N /\ i + k \in 0 .. N /\ i + k + 1 - 1 = i + k
            /\ i + (k + 1) = i + k + 1 /\ i + k <= N
        BY <1>1, <1>2, <2>1
      <3>2. s[i + k + 1] = s[i + k] + l[i + k + 1] /\ l[i + k + 1] \in Nat
        BY <1>1, <3>1
      <3>3. s[i] <= s[i + k] /\ s[i] \in Nat /\ s[i + k] \in Nat
        BY <1>1, <1>2, <1>4, <3>1
      <3>4. s[i] <= s[i + k + 1]
        BY <3>2, <3>3
      <3> QED BY <3>1, <3>4
    <2>2. CASE ~(i + (k + 1) <= N)
      BY <2>2
    <2> QED BY <2>1, <2>2
  <1>5. \A k \in Nat : k \in S
    <2> HIDE DEF S
    <2> QED BY <1>3, <1>4, NatSet
  <1>6. j - i \in Nat /\ i + (j - i) = j /\ j <= N
    BY <1>1, <1>2
  <1>7. s[i] <= s[i + (j - i)]
    <2>1. j - i \in S
      <3> HIDE DEF S
      <3> QED BY <1>5, <1>6
    <2> QED BY <1>6, <2>1
  <1> QED BY <1>6, <1>7 DEF s

\* ... and rise where the lengths are positive.
LEMMA SumsRise ==
    ASSUME NEW l \in Seq(Nat), \A k \in 1 .. Len(l) : l[k] # 0,
           NEW i \in 0 .. Len(l), NEW j \in (i + 1) .. Len(l)
    PROVE  Sums(l)[i] < Sums(l)[j]
  <1> DEFINE s == Sums(l)
  <1>1. i + 1 \in 1 .. Len(l) /\ i + 1 - 1 = i /\ i + 1 \in 0 .. Len(l)
        /\ j \in 0 .. Len(l) /\ Len(l) \in Nat
    OBVIOUS
  <1>2. s[i + 1] = s[i] + l[i + 1] /\ l[i + 1] \in Nat /\ l[i + 1] # 0
    <2>1. \A k \in 1 .. Len(l) : s[k] = s[k - 1] + l[k]
      BY SumsStep
    <2> HIDE DEF s
    <2> QED BY <1>1, <2>1
  <1>3. s[i + 1] <= s[j]
    BY <1>1, SumsMonotone
  <1>4. s[i] \in Nat /\ s[i + 1] \in Nat /\ s[j] \in Nat
    BY <1>1, SumsStep
  <1> HIDE DEF s
  <1>5. s[i] < s[j]
    BY <1>2, <1>3, <1>4
  <1> QED BY <1>5 DEF s

\* Every offset below the last sum lies between two neighbours.
LEMMA SumsBetween ==
    ASSUME NEW l \in Seq(Nat), NEW p \in Nat, p < Sums(l)[Len(l)]
    PROVE  \E i \in 1 .. Len(l) : Sums(l)[i - 1] <= p /\ p < Sums(l)[i]
  <1> DEFINE N == Len(l)
             s == Sums(l)
             T == {i \in 0 .. N : p < s[i]}
  <1>1. N \in Nat /\ s[0] = 0 /\ \A i \in 0 .. N : s[i] \in Nat
    <2>1. s \in [0 .. N -> Nat] /\ s[0] = 0 /\ N \in Nat
      BY SumsStep
    <2> HIDE DEF N, s
    <2> QED BY <2>1
  <1>2. p < s[N]
    OBVIOUS
  <1> HIDE DEF N, s
  <1>3. T \in SUBSET Nat /\ T # {}
    BY <1>1, <1>2
  <1>4. PICK i \in T : \A k \in T : i <= k
    <2> HIDE DEF T
    <2> QED BY <1>3, LeastNat
  <1>5. i \in 1 .. N
    BY <1>1
  <1>6. i - 1 \in 0 .. N /\ i - 1 \notin T
    BY <1>1, <1>4, <1>5
  <1>7. s[i - 1] <= p /\ p < s[i]
    BY <1>1, <1>6
  <1> QED BY <1>5, <1>7 DEF N, s

-----------------------------------------------------------------------------
(* Concatenations *)

\* FlattenSeq is the last of the sequences that grow by one element of ss each.
LEMMA FlattenIs ==
    ASSUME NEW E, NEW ss \in Seq(Seq(E)), NEW g \in [0 .. Len(ss) -> Seq(E)],
           g[0] = <<>>, \A i \in 1 .. Len(ss) : g[i] = g[i - 1] \o ss[i]
    PROVE  FlattenSeq(ss) = g[Len(ss)]
  <1> DEFINE N == Len(ss)
  <1>1. N \in Nat /\ \A i \in 1 .. N : ss[i] \in Seq(E)
    OBVIOUS
  <1>2. CASE N = 0
    <2>1. ss = <<>>
      BY <1>2
    <2>2. FlattenSeq(ss) = ss
      BY <1>2, Zenon DEF FlattenSeq
    <2> QED BY <1>2, <2>1, <2>2
  <1>3. CASE N # 0
    <2> DEFINE h == [i \in 1 .. N |-> g[i]]
    <2>1. 1 \in 1 .. N /\ N \in 1 .. N
      BY <1>1, <1>3
    <2>2. g[1] = ss[1]
      <3>1. ASSUME NEW i \in 1 .. N, i = 1 PROVE g[i] = ss[i]
        <4>1. g[i] = g[i - 1] \o ss[i]
          OBVIOUS
        <4>2. i - 1 = 0
          BY <3>1
        <4>3. g[i] = <<>> \o ss[i]
          BY <4>1, <4>2
        <4> QED BY <1>1, <4>3, ConcatEmptySeq
      <3> QED BY <2>1, <3>1
    <2>3. h = [i \in 1 .. N |-> IF i = 1 THEN ss[i] ELSE h[i - 1] \o ss[i]]
      <3>1. ASSUME NEW i \in 1 .. N, i # 1 PROVE g[i] = h[i - 1] \o ss[i]
        <4>1. i - 1 \in 1 .. N
          BY <1>1, <3>1
        <4>2. h[i - 1] = g[i - 1]
          BY <4>1
        <4> QED BY <4>2
      <3>2. \A i \in 1 .. N : g[i] = IF i = 1 THEN ss[i] ELSE h[i - 1] \o ss[i]
        BY <2>2, <3>1
      <3> HIDE DEF N
      <3> QED BY <3>2, Zenon
    <2>4. \E f : /\ f = [i \in 1 .. N |-> IF i = 1 THEN ss[i] ELSE f[i - 1] \o ss[i]]
                 /\ FlattenSeq(ss) = f[N]
      <3> HIDE DEF h
      <3> QED BY <1>3, <2>3, Zenon DEF FlattenSeq
    <2>5. PICK f : /\ f = [i \in 1 .. N |-> IF i = 1 THEN ss[i] ELSE f[i - 1] \o ss[i]]
                   /\ FlattenSeq(ss) = f[N]
      BY <2>4, Zenon
    <2> DEFINE S == {n \in Nat : n + 1 <= N => f[n + 1] = g[n + 1]}
    <2>6. \A i \in 1 .. N : f[i] = IF i = 1 THEN ss[i] ELSE f[i - 1] \o ss[i]
      <3> HIDE DEF N
      <3> QED BY <2>5, Zenon
    <2>7. \A i \in 1 .. N : g[i] = g[i - 1] \o ss[i]
      OBVIOUS
    <2> HIDE DEF N
    <2>8. 0 \in S
      BY <2>1, <2>2, <2>6
    <2>9. ASSUME NEW n \in Nat, n \in S PROVE n + 1 \in S
      <3>1. ASSUME n + 1 + 1 <= N PROVE f[n + 1 + 1] = g[n + 1 + 1]
        <4> DEFINE m == n + 1 + 1
        <4>1. m \in 1 .. N /\ m # 1 /\ m - 1 = n + 1 /\ n + 1 <= N
          BY <1>1, <3>1
        <4>2. f[m - 1] = g[m - 1]
          BY <2>9, <4>1, Zenon
        <4> HIDE DEF m
        <4>3. f[m] = f[m - 1] \o ss[m] /\ g[m] = g[m - 1] \o ss[m]
          BY <2>6, <2>7, <4>1
        <4>4. f[m] = g[m]
          BY <4>2, <4>3
        <4> QED BY <4>4 DEF m
      <3>2. n + 1 \in Nat
        OBVIOUS
      <3> QED BY <3>1, <3>2, Zenon
    <2>10. \A n \in Nat : n \in S
      <3> HIDE DEF S
      <3> QED BY <2>8, <2>9, NatSet
    <2>11. N - 1 \in Nat /\ N - 1 + 1 = N /\ N <= N
      BY <1>1, <1>3
    <2>12. N - 1 \in S
      <3> HIDE DEF S
      <3> QED BY <2>10, <2>11
    <2> QED BY <2>5, <2>11, <2>12 DEF N
  <1> QED BY <1>2, <1>3

\* There are such sequences.
LEMMA FlattenSteps ==
    ASSUME NEW E, NEW ss \in Seq(Seq(E))
    PROVE  \E g \in [0 .. Len(ss) -> Seq(E)] :
              g[0] = <<>> /\ \A i \in 1 .. Len(ss) : g[i] = g[i - 1] \o ss[i]
  <1> DEFINE N == Len(ss)
             Upto(g, n) == g[0] = <<>> /\ \A i \in 1 .. n : g[i] = g[i - 1] \o ss[i]
             S == {n \in Nat : n <= N => \E g \in [0 .. n -> Seq(E)] : Upto(g, n)}
  <1>1. N \in Nat /\ (\A i \in 1 .. N : ss[i] \in Seq(E)) /\ N <= N
    OBVIOUS
  <1> HIDE DEF N
  <1>2. 0 \in S
    <2>1. Upto([i \in 0 .. 0 |-> <<>>], 0) /\ [i \in 0 .. 0 |-> <<>>] \in [0 .. 0 -> Seq(E)]
      OBVIOUS
    <2> QED BY <2>1
  <1>3. ASSUME NEW n \in Nat, n \in S, n + 1 <= N
        PROVE  \E g \in [0 .. (n + 1) -> Seq(E)] : Upto(g, n + 1)
    <2>0. n <= N /\ n + 1 \in 1 .. N
      BY <1>1, <1>3
    <2>1. PICK g \in [0 .. n -> Seq(E)] : Upto(g, n)
      BY <1>3, <2>0, Zenon
    <2> DEFINE h == [i \in 0 .. (n + 1) |-> IF i = n + 1 THEN g[n] \o ss[n + 1] ELSE g[i]]
    <2>2. /\ g[0] = <<>> /\ \A i \in 1 .. n : g[i] = g[i - 1] \o ss[i]
      BY <2>1
    <2>3. h \in [0 .. (n + 1) -> Seq(E)]
      <3>1. ss[n + 1] \in Seq(E)
        BY <1>1, <2>0
      <3>2. g[n] \in Seq(E)
        OBVIOUS
      <3>3. g[n] \o ss[n + 1] \in Seq(E)
        BY <3>1, <3>2, ConcatProperties
      <3>4. \A i \in 0 .. (n + 1) : i # n + 1 => g[i] \in Seq(E)
        OBVIOUS
      <3> QED BY <3>3, <3>4
    <2>4. h[0] = <<>>
      BY <2>2
    <2>5. ASSUME NEW i \in 1 .. (n + 1) PROVE h[i] = h[i - 1] \o ss[i]
      <3>1. CASE i = n + 1
        <4>1. h[i - 1] = g[n] /\ h[i] = g[n] \o ss[n + 1]
          BY <3>1
        <4> QED BY <3>1, <4>1
      <3>2. CASE i # n + 1
        <4>1. i \in 1 .. n /\ i \in 0 .. (n + 1) /\ i - 1 \in 0 .. (n + 1) /\ i - 1 # n + 1
          BY <3>2
        <4>2. h[i] = g[i] /\ h[i - 1] = g[i - 1]
          BY <3>2, <4>1
        <4>3. g[i] = g[i - 1] \o ss[i]
          BY <2>2, <4>1
        <4> HIDE DEF h
        <4> QED BY <4>2, <4>3
      <3> QED BY <3>1, <3>2
    <2>6. Upto(h, n + 1)
      <3> HIDE DEF h
      <3> QED BY <2>4, <2>5
    <2> HIDE DEF h
    <2> QED BY <2>3, <2>6
  <1>4. \A n \in Nat : n \in S
    <2>1. ASSUME NEW n \in Nat, n \in S PROVE n + 1 \in S
      <3>1. n + 1 <= N => \E g \in [0 .. (n + 1) -> Seq(E)] : Upto(g, n + 1)
        BY <1>3, <2>1
      <3>2. n + 1 \in Nat
        OBVIOUS
      <3> QED BY <3>1, <3>2, Zenon
    <2> HIDE DEF S
    <2> QED BY <1>2, <2>1, NatSet
  <1>5. N \in S
    <2> HIDE DEF S
    <2> QED BY <1>1, <1>4
  <1>6. \E g \in [0 .. N -> Seq(E)] : Upto(g, N)
    BY <1>1, <1>5, Zenon
  <1> QED BY <1>6 DEF N

\* FlattenSeq of one more sequence.
LEMMA FlattenAppend ==
    ASSUME NEW E, NEW ss \in Seq(Seq(E)), NEW e \in Seq(E)
    PROVE  /\ FlattenSeq(ss) \in Seq(E)
           /\ FlattenSeq(Append(ss, e)) = FlattenSeq(ss) \o e
  <1> DEFINE N == Len(ss)
             tt == Append(ss, e)
  <1>1. /\ N \in Nat /\ tt \in Seq(Seq(E)) /\ Len(tt) = N + 1
        /\ tt[N + 1] = e /\ \A i \in 1 .. N : tt[i] = ss[i]
    OBVIOUS
  <1>2. PICK g \in [0 .. Len(tt) -> Seq(E)] :
           g[0] = <<>> /\ \A i \in 1 .. Len(tt) : g[i] = g[i - 1] \o tt[i]
    <2> HIDE DEF tt
    <2> QED BY <1>1, FlattenSteps
  <1>3. FlattenSeq(tt) = g[N + 1]
    <2> HIDE DEF tt
    <2> QED BY <1>1, <1>2, FlattenIs
  <1> DEFINE h == [i \in 0 .. N |-> g[i]]
  <1> HIDE DEF tt
  <1>4. FlattenSeq(ss) = h[N]
    <2>1. h \in [0 .. N -> Seq(E)]
      BY <1>1
    <2>2. h[0] = <<>>
      BY <1>1, <1>2
    <2>3. ASSUME NEW i \in 1 .. N PROVE h[i] = h[i - 1] \o ss[i]
      <3>1. i \in 0 .. N /\ i - 1 \in 0 .. N /\ i \in 1 .. Len(tt)
        BY <1>1
      <3>2. h[i] = g[i] /\ h[i - 1] = g[i - 1]
        BY <3>1
      <3> HIDE DEF h
      <3> QED BY <1>1, <1>2, <3>1, <3>2
    <2> HIDE DEF h
    <2> QED BY <2>1, <2>2, <2>3, FlattenIs
  <1>5. h[N] = g[N] /\ g[N] \in Seq(E)
    BY <1>1
  <1>6. g[N + 1] = g[N] \o e
    <2>1. ASSUME NEW i \in 1 .. Len(tt), i = N + 1 PROVE g[i] = g[N] \o e
      <3>1. g[i] = g[i - 1] \o tt[i]
        BY <1>2
      <3>2. i - 1 = N /\ tt[i] = e
        BY <1>1, <2>1
      <3> QED BY <3>1, <3>2
    <2>2. N + 1 \in 1 .. Len(tt)
      BY <1>1
    <2> QED BY <2>1, <2>2
  <1> QED BY <1>3, <1>4, <1>5, <1>6 DEF tt

\* FlattenSeq goes over to concatenations.
LEMMA FlattenConcat ==
    ASSUME NEW E, NEW ss \in Seq(Seq(E)), NEW tt \in Seq(Seq(E))
    PROVE  FlattenSeq(ss \o tt) = FlattenSeq(ss) \o FlattenSeq(tt)
  <1> DEFINE S == {n \in Nat : \A t \in Seq(Seq(E)) : Len(t) = n =>
                                  FlattenSeq(ss \o t) = FlattenSeq(ss) \o FlattenSeq(t)}
  <1>0. <<>> \in Seq(E)
    OBVIOUS
  <1>1. 0 \in S
    <2>1. ASSUME NEW t \in Seq(Seq(E)), Len(t) = 0
          PROVE  FlattenSeq(ss \o t) = FlattenSeq(ss) \o FlattenSeq(t)
      <3>1. t = <<>> /\ ss \o t = ss
        BY <2>1, ConcatEmptySeq
      <3>2. FlattenSeq(t) = <<>>
        BY <2>1, <3>1 DEF FlattenSeq
      <3>3. FlattenSeq(ss) \in Seq(E)
        BY <1>0, FlattenAppend
      <3> QED BY <3>1, <3>2, <3>3, ConcatEmptySeq
    <2> QED BY <2>1
  <1>2. ASSUME NEW n \in Nat, n \in S PROVE n + 1 \in S
    <2>1. ASSUME NEW t \in Seq(Seq(E)), Len(t) = n + 1
          PROVE  FlattenSeq(ss \o t) = FlattenSeq(ss) \o FlattenSeq(t)
      <3> DEFINE u == SubSeq(t, 1, n)
                 e == t[n + 1]
      <3>1. u \in Seq(Seq(E)) /\ e \in Seq(E) /\ t = Append(u, e) /\ Len(u) = n
        BY <2>1
      <3> HIDE DEF u, e
      <3>2. ss \o t = Append(ss \o u, e) /\ ss \o u \in Seq(Seq(E))
        BY <3>1
      <3>3. FlattenSeq(ss \o u) = FlattenSeq(ss) \o FlattenSeq(u)
        BY <1>2, <3>1
      <3> HIDE DEF S
      <3>4. FlattenSeq(ss \o t) = FlattenSeq(ss \o u) \o e
        BY <3>1, <3>2, FlattenAppend
      <3>5. FlattenSeq(t) = FlattenSeq(u) \o e /\ FlattenSeq(u) \in Seq(E)
        BY <3>1, FlattenAppend
      <3>6. FlattenSeq(ss) \in Seq(E)
        BY <1>0, FlattenAppend
      <3>7. (FlattenSeq(ss) \o FlattenSeq(u)) \o e = FlattenSeq(ss) \o (FlattenSeq(u) \o e)
        <4>1. \A a, b, d \in Seq(E) : (a \o b) \o d = a \o (b \o d)
          BY ConcatAssociative
        <4> QED BY <3>1, <3>5, <3>6, <4>1, Zenon
      <3> QED BY <3>3, <3>4, <3>5, <3>7
    <2> QED BY <2>1
  <1>3. \A n \in Nat : n \in S
    <2> HIDE DEF S
    <2> QED BY <1>1, <1>2, NatSet
  <1>4. Len(tt) \in Nat
    OBVIOUS
  <1>5. Len(tt) \in S
    <2> HIDE DEF S
    <2> QED BY <1>3, <1>4
  <1> QED BY <1>5

\* How long the concatenation of the first k sequences is.
LEMMA FlattenLen ==
    ASSUME NEW E, NEW ss \in Seq(Seq(E)), NEW l \in Seq(Nat), Len(l) = Len(ss),
           \A i \in 1 .. Len(ss) : l[i] = Len(ss[i]), NEW k \in 0 .. Len(ss)
    PROVE  Len(FlattenSeq(SubSeq(ss, 1, k))) = Sums(l)[k]
  <1> DEFINE N == Len(ss)
             s == Sums(l)
             S == {n \in Nat : n <= N => Len(FlattenSeq(SubSeq(ss, 1, n))) = s[n]}
  <1>1. N \in Nat /\ \A i \in 1 .. N : ss[i] \in Seq(E) /\ l[i] = Len(ss[i])
    OBVIOUS
  <1>2. s[0] = 0 /\ \A i \in 1 .. N : s[i] = s[i - 1] + l[i]
    BY SumsStep
  <1> HIDE DEF s
  <1>3. 0 \in S
    <2>1. SubSeq(ss, 1, 0) = <<>>
      BY SubSeqEmpty
    <2>2. FlattenSeq(<<>>) = <<>>
      BY DEF FlattenSeq
    <2>3. Len(<<>>) = 0
      OBVIOUS
    <2>4. Len(FlattenSeq(SubSeq(ss, 1, 0))) = s[0]
      BY <1>2, <2>1, <2>2, <2>3, Zenon
    <2>5. 0 \in Nat
      OBVIOUS
    <2> QED BY <2>4, <2>5, Zenon
  <1>4. ASSUME NEW n \in Nat, n \in S PROVE n + 1 \in S
    <2>1. ASSUME n + 1 <= N
          PROVE  Len(FlattenSeq(SubSeq(ss, 1, n + 1))) = s[n + 1]
      <3> DEFINE u == SubSeq(ss, 1, n)
                 e == ss[n + 1]
      <3>1. n <= N /\ n + 1 \in 1 .. N /\ n + 1 - 1 = n
        BY <1>1, <2>1
      <3>2. u \in Seq(Seq(E)) /\ e \in Seq(E) /\ SubSeq(ss, 1, n + 1) = Append(u, e)
        BY <1>1, <3>1
      <3>3. Len(FlattenSeq(u)) = s[n]
        BY <1>4, <3>1, Zenon
      <3> HIDE DEF u, N, S
      <3>4. FlattenSeq(SubSeq(ss, 1, n + 1)) = FlattenSeq(u) \o e /\ FlattenSeq(u) \in Seq(E)
        <4> HIDE DEF e
        <4> QED BY <3>2, FlattenAppend
      <3>5. Len(FlattenSeq(u) \o e) = Len(FlattenSeq(u)) + Len(e)
        BY <3>2, <3>4, ConcatProperties
      <3>6. s[n + 1] = s[n + 1 - 1] + l[n + 1]
        BY <1>2, <3>1
      <3>7. l[n + 1] = Len(e)
        BY <1>1, <3>1
      <3> QED BY <3>1, <3>3, <3>4, <3>5, <3>6, <3>7
    <2>2. n + 1 \in Nat
      OBVIOUS
    <2> QED BY <2>1, <2>2, Zenon
  <1>5. \A n \in Nat : n \in S
    <2> HIDE DEF S
    <2> QED BY <1>3, <1>4, NatSet
  <1>6. k \in Nat /\ k <= N
    OBVIOUS
  <1>7. k \in S
    <2> HIDE DEF S
    <2> QED BY <1>5, <1>6
  <1> QED BY <1>6, <1>7, Zenon DEF s

-----------------------------------------------------------------------------
(* Byte ranges of a file *)

\* The bytes of chunks: pairs of a chunk and a position in it.
Byte == Chunks \X Nat

\* A sequence of chunks has a sequence of bytes.
LEMMA BytesType ==
    ASSUME NEW cs \in Seq(Chunks)
    PROVE  Bytes(cs) \in Seq(Byte)
  <1> DEFINE ss == [i \in DOMAIN cs |-> DecodeChunk(cs[i])]
  <1>1. DOMAIN cs = 1 .. Len(cs) /\ Len(cs) \in Nat /\ \A i \in 1 .. Len(cs) : cs[i] \in Chunks
    OBVIOUS
  <1>2. ASSUME NEW c \in Chunks PROVE DecodeChunk(c) \in Seq(Byte)
    <2>1. Size[c] \in Nat
      BY SizeAssumption
    <2>2. \A j \in 1 .. Size[c] : <<c, j>> \in Byte
      BY <2>1 DEF Byte
    <2> QED BY <2>1, <2>2 DEF DecodeChunk
  <1>3. ss \in Seq(Seq(Byte))
    <2>1. \A i \in 1 .. Len(cs) : DecodeChunk(cs[i]) \in Seq(Byte)
      BY <1>1, <1>2
    <2>2. ss = [i \in 1 .. Len(cs) |-> DecodeChunk(cs[i])]
      BY <1>1
    <2> HIDE DEF ss
    <2> QED BY <1>1, <2>1, <2>2
  <1>4. <<>> \in Seq(Byte)
    OBVIOUS
  <1>5. FlattenSeq(ss) \in Seq(Byte)
    <2> HIDE DEF ss
    <2> QED BY <1>3, <1>4, FlattenAppend
  <1> QED BY <1>5 DEF Bytes

\* A term names chunks of its xorb; what they decode to.
Terms == [xorb: Xorbs, chunkStart: Nat, chunkEnd: Nat, unpackedLen: Nat]
Within(t) == t.chunkStart < t.chunkEnd /\ t.chunkEnd <= Len(Content[t.xorb])
BytesOf(t) == Bytes(SubSeq(Content[t.xorb], t.chunkStart + 1, t.chunkEnd))

\* Chunks lie in a xorb one behind the other, each with a header, so that the byte
\* range of a term's chunks begins and ends where no other chunks do: a client that
\* fetches it decodes the chunks of the term.
LEMMA TermFetched ==
    ASSUME NEW t \in Terms, Within(t)
    PROVE  /\ Fetched(t.xorb, UrlRange(t)) = BytesOf(t)
           /\ UrlRange(t) \in Int \X Int
           /\ Len(WalkChunks(t.xorb)) = Len(Content[t.xorb])
  <1> DEFINE x == t.xorb
             st == t.chunkStart
             en == t.chunkEnd
             cs == Content[x]
             N == Len(cs)
             l == [i \in DOMAIN cs |-> HeaderLen + Packed[cs[i]]]
             off == Sums(l)
             D == DOMAIN WalkChunks(x)
             cut == {r \in D \X D : /\ WalkChunks(x)[r[1]].start = UrlRange(t)[1]
                                    /\ WalkChunks(x)[r[2]].end - 1 = UrlRange(t)[2]}
  <1>1. x \in Xorbs /\ st \in Nat /\ en \in Nat /\ st < en /\ en <= N
    BY DEF Terms, Within
  <1>2. cs \in Seq(Chunks) /\ N \in Nat /\ DOMAIN cs = 1 .. N /\ \A i \in 1 .. N : cs[i] \in Chunks
    <2>1. cs \in Seq(Chunks)
      BY <1>1, ContentAssumption
    <2> HIDE DEF cs
    <2> QED BY <2>1
  <1>3. l \in Seq(Nat) /\ Len(l) = N /\ \A i \in 1 .. N : l[i] # 0
    <2> HIDE DEF cs, N
    <2>1. \A i \in 1 .. N : HeaderLen + Packed[cs[i]] \in Nat \ {0}
      BY <1>2, SizeAssumption DEF HeaderLen
    <2>2. l = [i \in 1 .. N |-> HeaderLen + Packed[cs[i]]]
      BY <1>2
    <2>3. \A i \in 1 .. N : l[i] = HeaderLen + Packed[cs[i]]
      BY <2>2
    <2>4. l \in [1 .. N -> Nat]
      BY <2>1, <2>2
    <2> HIDE DEF l
    <2> QED BY <1>2, <2>1, <2>3, <2>4
  <1>4. off \in [0 .. N -> Nat]
    <2> HIDE DEF l
    <2> QED BY <1>3, SumsStep
  <1>5. \A i, j \in 0 .. N : off[i] = off[j] => i = j
    <2> SUFFICES ASSUME NEW i \in 0 .. N, NEW j \in 0 .. N, i < j PROVE off[i] < off[j]
      BY <1>2, <1>4
    <2>1. j \in (i + 1) .. N
      BY <1>2
    <2> HIDE DEF l, N
    <2> QED BY <1>3, <2>1, SumsRise
  <1>6. WalkChunks(x) = [i \in 1 .. N |-> [start |-> off[i - 1], end |-> off[i],
                                            unpackedLen |-> Size[cs[i]]]]
    BY <1>2 DEF WalkChunks
  <1> HIDE DEF off, l, N, cs
  <1>7. D = 1 .. N /\ Len(WalkChunks(x)) = N
    BY <1>2, <1>6
  <1>8. \A i \in 1 .. N : WalkChunks(x)[i].start = off[i - 1] /\ WalkChunks(x)[i].end = off[i]
    BY <1>6
  <1>9. st + 1 \in 1 .. N /\ en \in 1 .. N /\ st + 1 - 1 = st /\ st \in 0 .. N /\ en \in 0 .. N
    BY <1>1, <1>2
  <1>10. UrlRange(t) = <<off[st], off[en] - 1>>
    <2>1. UrlRange(t) = <<WalkChunks(x)[st + 1].start, WalkChunks(x)[en].end - 1>>
      BY DEF UrlRange
    <2>2. WalkChunks(x)[st + 1].start = off[st + 1 - 1] /\ WalkChunks(x)[en].end = off[en]
      BY <1>8, <1>9
    <2> QED BY <1>9, <2>1, <2>2
  <1> HIDE DEF D
  <1>11. ASSUME NEW r \in cut PROVE r[1] = st + 1 /\ r[2] = en
    <2>1. r \in (1 .. N) \X (1 .. N)
      BY <1>7
    <2>2. off[r[1] - 1] = off[st] /\ off[r[2]] - 1 = off[en] - 1
      BY <1>8, <1>10, <2>1
    <2>3. r[1] - 1 \in 0 .. N /\ r[2] \in 0 .. N
      BY <1>2, <2>1
    <2>4. off[r[2]] = off[en]
      BY <1>4, <1>9, <2>2, <2>3
    <2> QED BY <1>5, <1>9, <2>1, <2>2, <2>3, <2>4
  <1>12. <<st + 1, en>> \in cut
    BY <1>7, <1>8, <1>9, <1>10
  <1>13. Fetched(x, UrlRange(t)) = LET r == CHOOSE r \in cut : TRUE IN Bytes(SubSeq(cs, r[1], r[2]))
    BY <1>12 DEF Fetched, D, cs
  <1>14. Fetched(x, UrlRange(t)) = Bytes(SubSeq(cs, st + 1, en))
    <2>1. PICK r : r = (CHOOSE z \in cut : TRUE) /\ r \in cut
      BY <1>12
    <2>2. r[1] = st + 1 /\ r[2] = en
      BY <1>11, <2>1
    <2> QED BY <1>13, <2>1, <2>2
  <1>15. off[st] \in Int /\ off[en] - 1 \in Int
    BY <1>4, <1>9
  <1> QED BY <1>7, <1>10, <1>14, <1>15 DEF BytesOf, cs, N

\* n elements of c behind the first p.
Slice(c, p, n) == SubSeq(c, p + 1, p + n)

\* Part of the middle of three sequences.
LEMMA MiddleCut ==
    ASSUME NEW a \in Seq(Byte), NEW b \in Seq(Byte), NEW c \in Seq(Byte),
           NEW p \in Nat, NEW q \in Nat, Len(a) <= p, p <= q, q < Len(a) + Len(b)
    PROVE  Slice((a \o b) \o c, p, q - p + 1) = Slice(b, p - Len(a), q - p + 1)
  <1>1. /\ Len(a) \in Nat /\ Len(b) \in Nat /\ a \o b \in Seq(Byte)
        /\ Len(a \o b) = Len(a) + Len(b)
    BY ConcatProperties
  <1>2. SubSeq((a \o b) \o c, p + 1, q + 1) = SubSeq(a \o b, p + 1, q + 1)
    <2>1. p + 1 \in 1 .. Len(a \o b) /\ q + 1 \in 1 .. Len(a \o b)
      BY <1>1
    <2> QED BY <1>1, <2>1, SubSeqOfConcat1
  <1>3. SubSeq(a \o b, p + 1, q + 1) = SubSeq(b, (p + 1) - Len(a), (q + 1) - Len(a))
    <2>1. /\ p + 1 \in (Len(a) + 1) .. (Len(a) + Len(b))
          /\ q + 1 \in (Len(a) + 1) .. (Len(a) + Len(b))
      BY <1>1
    <2> QED BY <2>1, SubSeqOfConcat2
  <1>4. /\ (p + 1) - Len(a) = (p - Len(a)) + 1
        /\ (q + 1) - Len(a) = (p - Len(a)) + (q - p + 1)
    BY <1>1
  <1>5. p + (q - p + 1) = q + 1
    OBVIOUS
  <1> QED BY <1>2, <1>3, <1>4, <1>5, Zenon DEF Slice

\* The terms HandleReconstruction keeps for bytes p to q are those from the one
\* with byte p on; none is missing up to the one with byte q.
LEMMA PickedTerms ==
    ASSUME NEW l \in Seq(Nat), NEW p \in Nat, NEW q \in Nat, p <= q, q < Sums(l)[Len(l)],
           NEW picked, picked = {i \in 1 .. Len(l) : Sums(l)[i] > p /\ Sums(l)[i - 1] <= q}
    PROVE  /\ picked # {}
           /\ Min(picked) \in 1 .. Len(l) /\ Max(picked) \in Min(picked) .. Len(l)
           /\ Sums(l)[Min(picked) - 1] <= p /\ q < Sums(l)[Max(picked)]
  <1> DEFINE N == Len(l)
             s == Sums(l)
  <1>1. N \in Nat /\ s \in [0 .. N -> Nat]
    BY SumsStep
  <1>2. PICK i \in 1 .. N : s[i - 1] <= p /\ p < s[i]
    <2>1. p < s[N]
      <3> HIDE DEF s, N
      <3>1. N \in 0 .. N /\ s[N] \in Nat
        BY <1>1
      <3>2. q < s[N]
        BY DEF s, N
      <3> QED BY <3>1, <3>2
    <2> QED BY <2>1, SumsBetween
  <1>3. PICK j \in 1 .. N : s[j - 1] <= q /\ q < s[j]
    BY SumsBetween
  <1>4. \A a \in 0 .. N, b \in 0 .. N : a <= b => s[a] <= s[b]
    <2> SUFFICES ASSUME NEW a \in 0 .. N, NEW b \in 0 .. N, a <= b PROVE s[a] <= s[b]
      OBVIOUS
    <2>1. b \in a .. N
      BY <1>1
    <2> QED BY <2>1, SumsMonotone
  <1>5. picked = {k \in 1 .. N : s[k] > p /\ s[k - 1] <= q}
    OBVIOUS
  <1> HIDE DEF N, s
  <1>6. i \in picked /\ j \in picked /\ picked \in SUBSET Nat /\ picked \in SUBSET (1 .. N)
    <2>1. i \in 0 .. N /\ j \in 0 .. N /\ i - 1 \in 0 .. N /\ j - 1 \in 0 .. N
      BY <1>1
    <2>2. s[i] \in Nat /\ s[j] \in Nat /\ s[i - 1] \in Nat /\ s[j - 1] \in Nat
      BY <1>1, <2>1
    <2>3. s[i] > p /\ s[i - 1] <= q /\ s[j] > p /\ s[j - 1] <= q
      BY <1>2, <1>3, <2>2
    <2>4. i \in picked /\ j \in picked
      BY <1>5, <2>3
    <2>5. picked \subseteq 1 .. N /\ 1 .. N \subseteq Nat
      BY <1>1, <1>5
    <2> QED BY <2>4, <2>5
  <1>7. Min(picked) \in picked /\ \A k \in picked : Min(picked) <= k
    <2>1. \E m \in picked : \A k \in picked : m <= k
      BY <1>6, LeastNat
    <2> QED BY <2>1 DEF Min
  <1>8. Max(picked) \in picked /\ \A k \in picked : Max(picked) >= k
    <2>1. \E m \in picked : \A k \in picked : k <= m
      BY <1>1, <1>6, GreatestNat
    <2>2. \E m \in picked : \A k \in picked : m >= k
      BY <1>6, <2>1
    <2> QED BY <2>2 DEF Max
  <1>9. /\ Min(picked) \in 1 .. N /\ Max(picked) \in 1 .. N /\ Min(picked) <= i /\ j <= Max(picked)
        /\ Min(picked) <= Max(picked)
    BY <1>6, <1>7, <1>8
  <1> DEFINE first == Min(picked)
             last == Max(picked)
  <1> HIDE DEF first, last
  <1>10. first \in 1 .. N /\ last \in 1 .. N /\ first <= i /\ j <= last /\ first <= last
    BY <1>9 DEF first, last
  <1>11. s[first - 1] <= s[i - 1] /\ s[j] <= s[last]
    <2>1. /\ first - 1 \in 0 .. N /\ i - 1 \in 0 .. N /\ first - 1 <= i - 1
          /\ j \in 0 .. N /\ last \in 0 .. N
      BY <1>1, <1>10
    <2> QED BY <1>4, <1>10, <2>1
  <1>12. s[first - 1] <= p /\ q < s[last] /\ last \in first .. N
    <2>1. /\ first - 1 \in 0 .. N /\ i - 1 \in 0 .. N /\ j \in 0 .. N /\ last \in 0 .. N
      BY <1>1, <1>10
    <2>2. s[first - 1] \in Nat /\ s[i - 1] \in Nat /\ s[j] \in Nat /\ s[last] \in Nat
      BY <1>1, <2>1
    <2> QED BY <1>1, <1>2, <1>3, <1>10, <1>11, <2>2
  <1> QED BY <1>6, <1>10, <1>12 DEF first, last, s, N

\* Terms that describe a file with this content: each lies within its xorb and has
\* the length its chunks unpack to, and what they decode to adds up to the file.
Describe(terms, content) ==
    /\ terms \in Seq(Terms)
    /\ \A k \in 1 .. Len(terms) : /\ Within(terms[k])
                                  /\ terms[k].unpackedLen = Len(BytesOf(terms[k]))
    /\ content = FlattenSeq([k \in DOMAIN terms |-> BytesOf(terms[k])])

\* The terms of a file decode to sequences of bytes whose lengths, added up, are
\* where the bytes of each term begin in the file, and at the end the file's length.
LEMMA TermBytes ==
    ASSUME NEW terms, NEW content, Describe(terms, content)
    PROVE  LET N == Len(terms)
               rr == [k \in DOMAIN terms |-> BytesOf(terms[k])]
               l == [k \in DOMAIN terms |-> terms[k].unpackedLen]
           IN /\ \A k \in 1 .. N : terms[k].xorb \in Xorbs
              /\ rr \in Seq(Seq(Byte)) /\ Len(rr) = N
              /\ \A k \in 1 .. N : rr[k] = BytesOf(terms[k])
              /\ l \in Seq(Nat) /\ Len(l) = N /\ \A k \in 1 .. N : l[k] = terms[k].unpackedLen
              /\ \A k \in 0 .. N : Len(FlattenSeq(SubSeq(rr, 1, k))) = Sums(l)[k]
              /\ content = FlattenSeq(rr) /\ Len(content) = Sums(l)[N]
  <1> DEFINE N == Len(terms)
             rr == [k \in DOMAIN terms |-> BytesOf(terms[k])]
             l == [k \in DOMAIN terms |-> terms[k].unpackedLen]
             s == Sums(l)
  <1>1. /\ N \in Nat /\ DOMAIN terms = 1 .. N
        /\ \A k \in 1 .. N : /\ terms[k] \in Terms /\ Within(terms[k])
                             /\ terms[k].unpackedLen = Len(BytesOf(terms[k]))
    BY DEF Describe
  <1>2. \A k \in 1 .. N : BytesOf(terms[k]) \in Seq(Byte) /\ terms[k].xorb \in Xorbs
    <2> SUFFICES ASSUME NEW t \in Terms, Within(t)
                 PROVE  BytesOf(t) \in Seq(Byte) /\ t.xorb \in Xorbs
      BY <1>1
    <2>1. t.xorb \in Xorbs /\ t.chunkStart \in Nat /\ t.chunkEnd \in Nat
      BY DEF Terms
    <2>2. Content[t.xorb] \in Seq(Chunks)
      BY <2>1, ContentAssumption
    <2>3. SubSeq(Content[t.xorb], t.chunkStart + 1, t.chunkEnd) \in Seq(Chunks)
      <3> DEFINE cs == Content[t.xorb]
      <3>1. cs \in Seq(Chunks) /\ t.chunkEnd <= Len(cs)
        BY <2>2 DEF Within
      <3> HIDE DEF cs
      <3> QED BY <2>1, <3>1 DEF cs
    <2> QED BY <2>1, <2>3, BytesType DEF BytesOf
  <1>3. /\ rr \in Seq(Seq(Byte)) /\ Len(rr) = N
        /\ \A k \in 1 .. N : rr[k] = BytesOf(terms[k])
    <2>1. rr = [k \in 1 .. N |-> BytesOf(terms[k])]
      BY <1>1
    <2> HIDE DEF rr, N
    <2> QED BY <1>1, <1>2, <2>1
  <1>4. /\ l \in Seq(Nat) /\ Len(l) = N
        /\ \A k \in 1 .. N : l[k] = terms[k].unpackedLen /\ l[k] = Len(rr[k])
    <2>1. l = [k \in 1 .. N |-> terms[k].unpackedLen]
      BY <1>1
    <2>2. \A k \in 1 .. N : terms[k].unpackedLen \in Nat
      BY <1>1 DEF Terms
    <2> HIDE DEF rr, N, l
    <2> QED BY <1>1, <1>3, <2>1, <2>2
  <1>5. \A k \in 0 .. N : Len(FlattenSeq(SubSeq(rr, 1, k))) = s[k]
    <2> HIDE DEF rr, N, l
    <2> QED BY <1>3, <1>4, FlattenLen
  <1>6. content = FlattenSeq(rr) /\ Len(content) = s[N]
    <2>0. content = FlattenSeq(rr)
      BY DEF Describe
    <2>1. SubSeq(rr, 1, N) = rr
      <3> HIDE DEF rr, N
      <3> QED BY <1>3, SubSeqFull
    <2>2. N \in 0 .. N
      BY <1>1
    <2> HIDE DEF N, l, s
    <2> HIDE DEF rr
    <2> QED BY <1>5, <2>0, <2>1, <2>2
  <1> HIDE DEF N, rr, l, s
  <1>7. /\ \A k \in 1 .. N : terms[k].xorb \in Xorbs
        /\ \A k \in 1 .. N : l[k] = terms[k].unpackedLen
    BY <1>2, <1>4
  <1> QED BY <1>3, <1>4, <1>5, <1>6, <1>7, Zenon DEF N, rr, l, s

\* HandleReconstruction and a client that follows its answer: for bytes p to q of a
\* file that terms describe, the client assembles just these bytes.
LEMMA RangeAnswered ==
    ASSUME NEW rec, NEW content, Describe(rec.terms, content),
           NEW p \in Nat, NEW q \in Nat, p <= q, q < Len(content)
    PROVE  LET a == Reconstruction(rec, Xorbs, p, q) IN
           a # Absent /\ Assembled(a, q - p + 1) = Slice(content, p, q - p + 1)
  <1> DEFINE terms == rec.terms
             N == Len(terms)
             rr == [k \in DOMAIN terms |-> BytesOf(terms[k])]
             l == [k \in DOMAIN terms |-> terms[k].unpackedLen]
             s == Sums(l)
             picked == {k \in DOMAIN terms : Selected(terms[k], s[k - 1], p, q)}
             first == Min(picked)
             last == Max(picked)
             M == last - first + 1
             a == Reconstruction(rec, Xorbs, p, q)
             A == FlattenSeq(SubSeq(rr, 1, first - 1))
             B == FlattenSeq(SubSeq(rr, first, last))
             C == FlattenSeq(SubSeq(rr, last + 1, N))
  <1>1. /\ N \in Nat /\ DOMAIN terms = 1 .. N
        /\ \A k \in 1 .. N : /\ terms[k] \in Terms /\ Within(terms[k])
                             /\ terms[k].unpackedLen = Len(BytesOf(terms[k]))
    BY DEF Describe
  <1>2. /\ \A k \in 1 .. N : terms[k].xorb \in Xorbs
        /\ rr \in Seq(Seq(Byte)) /\ Len(rr) = N
        /\ \A k \in 1 .. N : rr[k] = BytesOf(terms[k])
        /\ l \in Seq(Nat) /\ Len(l) = N /\ \A k \in 1 .. N : l[k] = terms[k].unpackedLen
        /\ \A k \in 0 .. N : Len(FlattenSeq(SubSeq(rr, 1, k))) = s[k]
        /\ content = FlattenSeq(rr) /\ Len(content) = s[N]
    BY TermBytes, Zenon
  <1> HIDE DEF s, rr, l, N, terms
  <1>3. rr \in Seq(Seq(Byte)) /\ Len(rr) = N /\ \A k \in 1 .. N : rr[k] = BytesOf(terms[k])
    BY <1>2
  <1>4. l \in Seq(Nat) /\ Len(l) = N /\ \A k \in 1 .. N : l[k] = terms[k].unpackedLen
    BY <1>2
  <1>5. \A k \in 0 .. N : Len(FlattenSeq(SubSeq(rr, 1, k))) = s[k]
    BY <1>2
  <1>6. content = FlattenSeq(rr) /\ Len(content) = s[N]
    BY <1>2
  <1> USE DEF s, rr, l, N
  <1>7. picked = {k \in 1 .. N : s[k] > p /\ s[k - 1] <= q}
    <2>1. \A k \in 1 .. N : s[k] = s[k - 1] + l[k]
      <3> HIDE DEF l, N
      <3> QED BY <1>4, SumsStep
    <2> HIDE DEF s, l
    <2>2. \A k \in 1 .. N : Selected(terms[k], s[k - 1], p, q) <=> s[k] > p /\ s[k - 1] <= q
      BY <1>4, <2>1 DEF Selected
    <2> QED BY <1>1, <2>2
  <1>8. /\ picked # {} /\ first \in 1 .. N /\ last \in first .. N
        /\ s[first - 1] <= p /\ q < s[last]
    <2>1. picked = {k \in 1 .. Len(l) : Sums(l)[k] > p /\ Sums(l)[k - 1] <= q}
      BY <1>4, <1>7
    <2>2. q < Sums(l)[Len(l)]
      BY <1>4, <1>6
    <2>3. l \in Seq(Nat) /\ p \in Nat /\ q \in Nat /\ p <= q
      BY <1>4
    <2> HIDE DEF picked, l
    <2>4. /\ picked # {}
          /\ Min(picked) \in 1 .. Len(l) /\ Max(picked) \in Min(picked) .. Len(l)
          /\ Sums(l)[Min(picked) - 1] <= p /\ q < Sums(l)[Max(picked)]
      BY <2>1, <2>2, <2>3, PickedTerms, Zenon
    <2>5. Len(l) = N
      BY <1>4
    <2> HIDE DEF N
    <2> QED BY <2>4, <2>5
  <1>9. a = [offset |-> p - s[first - 1],
             terms |-> [i \in 1 .. M |-> [xorb |-> terms[i + first - 1].xorb,
                                          url |-> UrlRange(terms[i + first - 1])]]]
    <2>1. \A k \in picked : terms[k].xorb \in Xorbs
      BY <1>1, <1>2
    <2>2. \A k \in picked : ~Outside(terms[k])
      <3> SUFFICES ASSUME NEW k \in 1 .. N PROVE ~Outside(terms[k])
        BY <1>1
      <3>1. terms[k] \in Terms /\ Within(terms[k])
        BY <1>1
      <3>2. /\ Len(WalkChunks(terms[k].xorb)) = Len(Content[terms[k].xorb])
            /\ terms[k].chunkEnd <= Len(Content[terms[k].xorb])
            /\ terms[k].chunkStart < terms[k].chunkEnd
        BY <3>1, TermFetched DEF Within
      <3>3. /\ terms[k].chunkStart \in Nat /\ terms[k].chunkEnd \in Nat
            /\ Len(Content[terms[k].xorb]) \in Nat
        <4>1. /\ terms[k].chunkStart \in Nat /\ terms[k].chunkEnd \in Nat
              /\ terms[k].xorb \in Xorbs
          BY <3>1 DEF Terms
        <4>2. Content[terms[k].xorb] \in Seq(Chunks)
          BY <4>1, ContentAssumption
        <4> QED BY <4>1, <4>2, LenProperties
      <3> QED BY <3>2, <3>3 DEF Outside
    <2>3. ~(\/ picked = {}
            \/ \E k \in picked : terms[k].xorb \notin Xorbs \/ Outside(terms[k]))
      BY <1>8, <2>1, <2>2
    <2> QED BY <2>3, Zenon DEF Reconstruction, terms
  <1>10. a.offset = p - s[first - 1] /\ a.terms = [i \in 1 .. M |->
                [xorb |-> terms[i + first - 1].xorb, url |-> UrlRange(terms[i + first - 1])]]
    <2> HIDE DEF a, s, first, M
    <2> QED BY <1>9
  <1>11. FlattenSeq([i \in DOMAIN a.terms |-> Fetched(a.terms[i].xorb, a.terms[i].url)]) = B
    <2> HIDE DEF a, first, last
    <2>1. DOMAIN a.terms = 1 .. M
      BY <1>10
    <2>2. ASSUME NEW i \in 1 .. M
          PROVE  Fetched(a.terms[i].xorb, a.terms[i].url) = rr[i + first - 1]
      <3>1. i + first - 1 \in 1 .. N
        BY <1>1, <1>8
      <3>2. a.terms[i].xorb = terms[i + first - 1].xorb /\ a.terms[i].url = UrlRange(terms[i + first - 1])
        BY <1>10
      <3>3. terms[i + first - 1] \in Terms /\ Within(terms[i + first - 1])
        BY <1>1, <3>1
      <3>4. Fetched(terms[i + first - 1].xorb, UrlRange(terms[i + first - 1]))
            = BytesOf(terms[i + first - 1])
        BY <3>3, TermFetched
      <3>5. rr[i + first - 1] = BytesOf(terms[i + first - 1])
        BY <1>3, <3>1
      <3> QED BY <3>2, <3>4, <3>5
    <2>3. [i \in DOMAIN a.terms |-> Fetched(a.terms[i].xorb, a.terms[i].url)]
          = [i \in 1 .. M |-> rr[i + first - 1]]
      <3> HIDE DEF rr, M
      <3> QED BY <2>1, <2>2
    <2>4. [i \in 1 .. M |-> rr[i + first - 1]] = SubSeq(rr, first, last)
      <3> DEFINE ss == SubSeq(rr, first, last)
      <3>1. /\ rr \in Seq(Seq(Byte)) /\ first \in Int /\ last \in Int /\ first <= last
            /\ \A i \in first .. last : rr[i] \in Seq(Byte)
        <4>1. first \in 1 .. N /\ last \in 1 .. N /\ first <= last
          BY <1>1, <1>8
        <4> HIDE DEF rr, N
        <4> QED BY <1>3, <4>1
      <3>2. /\ ss \in Seq(Seq(Byte)) /\ Len(ss) = last - first + 1
            /\ \A i \in 1 .. last - first + 1 : ss[i] = rr[first + i - 1]
        <4> HIDE DEF rr
        <4> QED BY <3>1, SubSeqProperties
      <3>3. M \in Nat /\ \A i \in 1 .. M : first + i - 1 = i + first - 1
        BY <3>1
      <3>4. Len(ss) = M /\ \A i \in 1 .. M : ss[i] = rr[i + first - 1]
        <4> HIDE DEF rr, ss
        <4> QED BY <3>2, <3>3
      <3> HIDE DEF M, rr, ss
      <3>5. ss = [i \in 1 .. M |-> ss[i]]
        BY <3>2, <3>4
      <3> QED BY <3>4, <3>5 DEF ss
    <2> QED BY <2>3, <2>4
  <1> HIDE DEF a, first, last, picked, l, rr, N
  <1>12. /\ A \in Seq(Byte) /\ B \in Seq(Byte) /\ C \in Seq(Byte)
         /\ content = (A \o B) \o C /\ Len(A) = s[first - 1] /\ Len(A) + Len(B) = s[last]
    <2> DEFINE r1 == SubSeq(rr, 1, first - 1)
               r2 == SubSeq(rr, first, last)
               r3 == SubSeq(rr, last + 1, N)
    <2>1. /\ r1 \in Seq(Seq(Byte)) /\ r2 \in Seq(Seq(Byte)) /\ r3 \in Seq(Seq(Byte))
          /\ r1 \o r2 = SubSeq(rr, 1, last) /\ rr = SubSeq(rr, 1, last) \o r3
      <3>1. /\ first \in 1 .. N /\ last \in 1 .. N /\ first <= last
            /\ first - 1 \in 0 .. N /\ last + 1 \in 1 .. N + 1
            /\ first - 1 + 1 = first
        BY <1>1, <1>8
      <3>2. rr \in Seq(Seq(Byte)) /\ Len(rr) = N /\ N \in Nat
        BY <1>1, <1>3
      <3>4. r1 \in Seq(Seq(Byte))
        BY <3>1, <3>2, SubSeqProperties
      <3>5. r2 \in Seq(Seq(Byte))
        BY <3>1, <3>2, SubSeqProperties
      <3>6. r3 \in Seq(Seq(Byte))
        BY <3>1, <3>2, SubSeqProperties
      <3>7. r1 \o r2 = SubSeq(rr, 1, last)
        <4>1. \A k \in 0 .. last : SubSeq(rr, 1, k) \o SubSeq(rr, k + 1, last) = SubSeq(rr, 1, last)
          <5> HIDE DEF A, B, C, s, r1, r2, r3
          <5> SUFFICES ASSUME NEW k \in 0 .. last
                       PROVE  SubSeq(rr, 1, k) \o SubSeq(rr, k + 1, last) = SubSeq(rr, 1, last)
            OBVIOUS
          <5>1. 1 \in 1 .. Len(rr) + 1 /\ k \in 1 - 1 .. Len(rr) /\ last \in k .. Len(rr)
            BY <3>1, <3>2
          <5> QED BY <3>2, <5>1, ConcatAdjacentSubSeq
        <4>2. first - 1 \in 0 .. last /\ (first - 1) + 1 = first
          BY <3>1, <3>2
        <4> QED BY <4>1, <4>2
      <3>8. SubSeq(rr, 1, last) \o r3 = SubSeq(rr, 1, N)
        BY <3>1, <3>2, ConcatAdjacentSubSeq
      <3>9. SubSeq(rr, 1, N) = rr
        BY <3>2, SubSeqFull
      <3> QED BY <3>4, <3>5, <3>6, <3>7, <3>8, <3>9
    <2>2. r1 \o r2 \in Seq(Seq(Byte)) /\ rr = (r1 \o r2) \o r3
      <3> HIDE DEF r1, r2, r3
      <3> QED BY <2>1, ConcatProperties
    <2>3. Len(FlattenSeq(SubSeq(rr, 1, last))) = s[last] /\ Len(A) = s[first - 1]
      <3>1. last \in 0 .. N /\ first - 1 \in 0 .. N
        BY <1>1, <1>8
      <3> HIDE DEF s
      <3> QED BY <1>5, <3>1
    <2>4. A \in Seq(Byte) /\ B \in Seq(Byte) /\ C \in Seq(Byte)
      <3>1. <<>> \in Seq(Byte)
        OBVIOUS
      <3> HIDE DEF r1, r2, r3
      <3>2. \A r \in Seq(Seq(Byte)) : FlattenSeq(r) \in Seq(Byte)
        BY <3>1, FlattenAppend
      <3> QED BY <2>1, <3>2 DEF r1, r2, r3
    <2>5. FlattenSeq(r1 \o r2) = A \o B
      <3>1. FlattenSeq(r1 \o r2) = FlattenSeq(r1) \o FlattenSeq(r2)
        <4> HIDE DEF r1, r2, r3
        <4> QED BY <2>1, FlattenConcat
      <3> QED BY <3>1
    <2>6. FlattenSeq(rr) = (A \o B) \o C
      <3>1. FlattenSeq((r1 \o r2) \o r3) = FlattenSeq(r1 \o r2) \o FlattenSeq(r3)
        <4> HIDE DEF r1, r2, r3
        <4> QED BY <2>1, <2>2, FlattenConcat
      <3>2. FlattenSeq(rr) = FlattenSeq(r1 \o r2) \o FlattenSeq(r3)
        <4> HIDE DEF r1, r2, r3
        <4> QED BY <2>2, <3>1
      <3> QED BY <2>5, <3>2
    <2>7. Len(A \o B) = Len(A) + Len(B)
      <3> HIDE DEF A, B
      <3> QED BY <2>4, ConcatProperties
    <2>8. Len(A \o B) = s[last]
      BY <2>1, <2>3, <2>5, Zenon
    <2> HIDE DEF A, B, C, s, r1, r2, r3
    <2> QED BY <1>6, <2>3, <2>4, <2>6, <2>7, <2>8
  <1> HIDE DEF A, B, C, s
  <1>13. /\ Len(B) >= a.offset + (q - p + 1)
         /\ SubSeq(content, p + 1, q + 1) = SubSeq(B, a.offset + 1, a.offset + (q - p + 1))
    <2>1. Len(A) <= p /\ q < Len(A) + Len(B) /\ a.offset = p - Len(A)
      BY <1>8, <1>10, <1>12
    <2>2. /\ Len(B) >= (p - Len(A)) + (q - p + 1)
          /\ SubSeq((A \o B) \o C, p + 1, q + 1)
             = SubSeq(B, (p - Len(A)) + 1, (p - Len(A)) + (q - p + 1))
      <3>1. /\ A \in Seq(Byte) /\ B \in Seq(Byte) /\ C \in Seq(Byte)
            /\ Len(A) \in Nat /\ Len(B) \in Nat
        BY <1>12
      <3>2. Len(A) <= p /\ q < Len(A) + Len(B)
        BY <2>1
      <3>3. SubSeq((A \o B) \o C, p + 1, q + 1)
            = SubSeq(B, (p - Len(A)) + 1, (p - Len(A)) + (q - p + 1))
        <4>1. Slice((A \o B) \o C, p, q - p + 1) = Slice(B, p - Len(A), q - p + 1)
          BY <3>1, <3>2, MiddleCut
        <4>2. p + (q - p + 1) = q + 1
          OBVIOUS
        <4> QED BY <4>1, <4>2, Zenon DEF Slice
      <3>4. Len(B) >= (p - Len(A)) + (q - p + 1)
        BY <3>1, <3>2
      <3> QED BY <3>3, <3>4, Zenon
    <2>3. content = (A \o B) \o C /\ a.offset = p - Len(A)
      BY <1>12, <2>1
    <2> QED BY <2>2, <2>3, Zenon
  <1>14. Assembled(a, q - p + 1) = SubSeq(content, p + 1, q + 1)
    <2>1. a.offset \in Nat /\ Len(B) \in Nat
      <3>1. Len(A) \in Nat /\ Len(B) \in Nat /\ Len(A) <= p /\ a.offset = p - Len(A)
        BY <1>8, <1>10, <1>12
      <3> QED BY <3>1
    <2>2. ~(Len(B) < a.offset + (q - p + 1))
      BY <1>13, <2>1
    <2>3. Assembled(a, q - p + 1) = SubSeq(B, a.offset + 1, a.offset + (q - p + 1))
      BY <1>11, <2>2, Zenon DEF Assembled
    <2> QED BY <1>13, <2>3
  <1>15. a # Absent
    <2> SUFFICES a \in [offset: Nat, terms: Seq([xorb: Xorbs, url: Int \X Int])]
      BY AbsentAssumption
    <2>1. p - s[first - 1] \in Nat
      <3>1. Len(A) \in Nat
        BY <1>12
      <3> QED BY <1>8, <1>12, <3>1
    <2> DEFINE ts == [i \in 1 .. M |-> [xorb |-> terms[i + first - 1].xorb,
                                        url |-> UrlRange(terms[i + first - 1])]]
    <2>2. M \in Nat
      BY <1>1, <1>8
    <2>3. \A i \in 1 .. M : /\ terms[i + first - 1].xorb \in Xorbs
                            /\ UrlRange(terms[i + first - 1]) \in Int \X Int
      <3> SUFFICES ASSUME NEW i \in 1 .. M
                   PROVE  /\ terms[i + first - 1].xorb \in Xorbs
                          /\ UrlRange(terms[i + first - 1]) \in Int \X Int
        OBVIOUS
      <3>1. i + first - 1 \in 1 .. N
        BY <1>1, <1>8
      <3> QED BY <1>1, <1>2, <3>1, TermFetched
    <2>4. ts \in Seq([xorb: Xorbs, url: Int \X Int])
      <3> HIDE DEF M
      <3> QED BY <2>2, <2>3
    <2>5. a = [offset |-> p - s[first - 1], terms |-> ts]
      BY <1>9
    <2> HIDE DEF ts, M
    <2> QED BY <2>1, <2>4, <2>5
  <1>16. p + (q - p + 1) = q + 1
    OBVIOUS
  <1>17. Assembled(a, q - p + 1) = Slice(content, p, q - p + 1)
    BY <1>14, <1>16, Zenon DEF Slice
  <1> QED BY <1>15, <1>17, Zenon DEF a

\* The descriptions of the shards are right: with any of them ParseByteRange and
\* HandleReconstruction answer every range of the file's bytes, whatever it is, with
\* exactly those bytes, and refuse one that is empty or starts past the end.
LEMMA DescriptionsExact == Described \subseteq ExactlyAnswered
  <1> SUFFICES ASSUME NEW s \in Shards, NEW i \in DOMAIN ShardFiles[s], NEW d,
                      d = [file |-> ShardFiles[s][i].file,
                           rec |-> RecordFromShardFile(ShardFiles[s][i])]
               PROVE  d \in ExactlyAnswered
    BY DEF Described
  <1> DEFINE f == ShardFiles[s][i]
             terms == f.terms
             content == Bytes(FileChunks[d.file])
             n == Len(content)
             rr == [k \in DOMAIN terms |-> BytesOf(terms[k])]
             l == [k \in DOMAIN terms |-> terms[k].unpackedLen]
  <1>1. terms \in Seq(Terms) /\ DOMAIN terms = 1 .. Len(terms) /\ Len(terms) \in Nat
    <2>1. terms \in Seq(Terms)
      BY FileShape, Zenon DEF Terms
    <2> HIDE DEF terms
    <2> QED BY <2>1
  <1>2. /\ \A k \in DOMAIN terms :
              LET bytes == DecodeChunkRange(terms[k].xorb, terms[k].chunkStart, terms[k].chunkEnd)
              IN bytes # Absent /\ terms[k].unpackedLen = Len(bytes)
        /\ FlattenSeq([k \in DOMAIN terms |->
              DecodeChunkRange(terms[k].xorb, terms[k].chunkStart, terms[k].chunkEnd)]) = content
    <2>1. d.file = f.file
      OBVIOUS
    <2> HIDE DEF f
    <2>2. Bytes(FileChunks[f.file]) = content
      BY <2>1, Zenon
    <2>3. /\ \A k \in DOMAIN terms :
                LET bytes == DecodeChunkRange(terms[k].xorb, terms[k].chunkStart, terms[k].chunkEnd)
                IN bytes # Absent /\ terms[k].unpackedLen = Len(bytes)
          /\ FlattenSeq([k \in DOMAIN terms |->
                DecodeChunkRange(terms[k].xorb, terms[k].chunkStart, terms[k].chunkEnd)])
             = Bytes(FileChunks[f.file])
      BY ShardAssumption, Zenon DEF f
    <2> QED BY <2>2, <2>3, Zenon
  <1>3. d.file = f.file /\ d.rec.terms = terms /\ d.rec.totalLen = Sums(l)[Len(terms)]
    BY DEF RecordFromShardFile
  <1> HIDE DEF content, terms, f
  <1>4. ASSUME NEW k \in 1 .. Len(terms)
        PROVE  /\ Within(terms[k]) /\ terms[k].unpackedLen = Len(BytesOf(terms[k]))
               /\ DecodeChunkRange(terms[k].xorb, terms[k].chunkStart, terms[k].chunkEnd)
                  = BytesOf(terms[k])
    <2> DEFINE t == terms[k]
               bytes == DecodeChunkRange(t.xorb, t.chunkStart, t.chunkEnd)
    <2>1. t \in Terms
      BY <1>1
    <2>2. bytes # Absent /\ t.unpackedLen = Len(bytes)
      BY <1>1, <1>2
    <2> HIDE DEF t
    <2>3. t.chunkStart \in Nat /\ t.chunkEnd \in Nat /\ Content[t.xorb] \in Seq(Chunks)
      <3>1. t.xorb \in Xorbs /\ t.chunkStart \in Nat /\ t.chunkEnd \in Nat
        BY <2>1 DEF Terms
      <3> QED BY <3>1, ContentAssumption
    <2>4. ~(t.chunkStart < 0 \/ t.chunkEnd > Len(Content[t.xorb]) \/ t.chunkStart >= t.chunkEnd)
      BY <2>2, Zenon DEF DecodeChunkRange
    <2>5. bytes = BytesOf(t)
      BY <2>4, Zenon DEF DecodeChunkRange, BytesOf
    <2>6. Within(t)
      <3> DEFINE N == Len(Content[t.xorb])
      <3>1. N \in Nat
        BY <2>3, LenProperties
      <3> HIDE DEF N
      <3>2. ~(t.chunkEnd > N) /\ ~(t.chunkStart >= t.chunkEnd)
        BY <2>4 DEF N
      <3>3. t.chunkStart < t.chunkEnd /\ t.chunkEnd <= N
        BY <2>3, <3>1, <3>2
      <3> QED BY <3>3 DEF Within, N
    <2> HIDE DEF bytes
    <2>7. t.unpackedLen = Len(BytesOf(t))
      BY <2>2, <2>5, Zenon
    <2> QED BY <2>5, <2>6, <2>7, Zenon DEF t, bytes
  <1>5. content = FlattenSeq(rr)
    <2>1. [k \in DOMAIN terms |->
              DecodeChunkRange(terms[k].xorb, terms[k].chunkStart, terms[k].chunkEnd)] = rr
      <3>1. \A k \in DOMAIN terms :
               DecodeChunkRange(terms[k].xorb, terms[k].chunkStart, terms[k].chunkEnd)
               = BytesOf(terms[k])
        BY <1>1, <1>4
      <3> QED BY <3>1
    <2> QED BY <1>2, <2>1, Zenon
  <1>6. Describe(terms, content)
    BY <1>1, <1>4, <1>5, Zenon DEF Describe, rr
  <1>7. d.rec.totalLen = n /\ n \in Nat
    <2>1. /\ rr \in Seq(Seq(Byte))
          /\ \A k \in 0 .. Len(terms) : Len(FlattenSeq(SubSeq(rr, 1, k))) = Sums(l)[k]
          /\ Len(content) = Sums(l)[Len(terms)]
      BY <1>6, TermBytes, Zenon
    <2>2. d.rec.totalLen = n
      BY <1>3, <2>1
    <2>3. content \in Seq(Byte)
      <3> HIDE DEF rr
      <3>1. <<>> \in Seq(Byte)
        OBVIOUS
      <3> QED BY <1>5, <2>1, <3>1, FlattenAppend
    <2> QED BY <2>2, <2>3, LenProperties
  <1>8. d \in Described
    BY DEF Described, f
  <1> HIDE DEF rr, l, n
  <1>9. ASSUME NEW from \in 0 .. n, NEW to \in (0 .. (n + 1)) \cup {Absent}
        PROVE  LET r == ParseByteRange(Header(from, to), d.rec.totalLen)
                   last == IF to = Absent \/ to >= n THEN n - 1 ELSE to
               IN IF from >= n \/ (to # Absent /\ to < from)
                  THEN r = Absent
                  ELSE /\ r = <<from, last>>
                       /\ LET a == Reconstruction(d.rec, Xorbs, from, last) IN
                          /\ a # Absent
                          /\ Assembled(a, last - from + 1) = SubSeq(content, from + 1, last + 1)
    <2> DEFINE r == ParseByteRange(Header(from, to), d.rec.totalLen)
               last == IF to = Absent \/ to >= n THEN n - 1 ELSE to
               end == IF to = Absent THEN n - 1 ELSE to
    <2>1. /\ from \in Nat /\ from # Absent /\ (to = Absent \/ to \in Nat) /\ n \in Nat
      BY <1>7, AbsentAssumption
    <2>2. r = IF end < from \/ from >= n THEN Absent
              ELSE <<from, IF end < n - 1 THEN end ELSE n - 1>>
      BY <1>7, <2>1 DEF ParseByteRange, Header
    <2>3. CASE from >= n \/ (to # Absent /\ to < from)
      <3>1. end < from \/ from >= n
        BY <2>3
      <3> QED BY <2>2, <2>3, <3>1
    <2>4. CASE ~(from >= n \/ (to # Absent /\ to < from))
      <3>1. /\ ~(end < from \/ from >= n) /\ last \in Nat /\ from <= last /\ last < n
            /\ (IF end < n - 1 THEN end ELSE n - 1) = last
        BY <2>1, <2>4
      <3>2. r = <<from, last>>
        BY <2>2, <3>1
      <3> HIDE DEF last, r
      <3>3. LET a == Reconstruction(d.rec, Xorbs, from, last) IN
            a # Absent /\ Assembled(a, last - from + 1) = SubSeq(content, from + 1, last + 1)
        <4>1. last < Len(content)
          BY <3>1 DEF n
        <4>2. /\ Describe(d.rec.terms, content) /\ from \in Nat /\ last \in Nat /\ from <= last
          BY <1>3, <1>6, <2>1, <3>1
        <4>3. LET a == Reconstruction(d.rec, Xorbs, from, last) IN
              a # Absent /\ Assembled(a, last - from + 1) = Slice(content, from, last - from + 1)
          BY <4>1, <4>2, RangeAnswered
        <4>4. from + (last - from + 1) = last + 1
          BY <4>2
        <4> QED BY <4>3, <4>4, Zenon DEF Slice
      <3> QED BY <2>4, <3>2, <3>3, Zenon DEF last, r
    <2> QED BY <2>3, <2>4
  <1> QED BY <1>8, <1>9, Zenon DEF ExactlyAnswered, content, n

\* HandleReconstruction answers every byte range of every recorded file right:
\* each record is made of a description some shard gave, and all of them are right.
THEOREM RangesExact == Spec => []RangeExact
  <1>1. Core => RangeExact
    BY DescriptionsExact DEF Core, StoreOK, Supplied, Recorded, RangeExact
  <1> QED BY <1>1, InitCore, CoreStep, PTL DEF Spec

=============================================================================
