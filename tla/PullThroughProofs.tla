------------------------- MODULE PullThroughProofs ------------------------
(***************************************************************************)
(* Theorems about PullThrough, for any requests, commits, paths, contents  *)
(* and listings, and any number of failures, pushes and crashes.           *)
(***************************************************************************)
EXTENDS PullThrough, TLAPS

Early == {"new", "resolve", "wait", "info", "put"}
Filled == {"keep", "open", "fetch", "join", "download", "algo", "verify", "rekey", "rekeyed",
           "save", "putBlob", "reopen"}
Working == {"entry", "stat", "fill"} \cup Filled

\* A request knows what it wants; until its manifest is there it has its own object,
\* and then one whose maker is done with making it.
WantOK == \A r \in Requests : pc[r] # "new" => want[r].rev \in Revisions /\ want[r].path \in Paths
ObjOK == \A r \in Requests : IF pc[r] \in Early THEN obj[r] = r ELSE pc[obj[r]] \notin Early
CommitOK == \A r \in Requests : /\ pc[r] = "put" => heap[r].commit \in Commits
                                /\ pc[r] \in Working => Object(r).commit \in Commits

\* In a manifest of commit c only a file listed without details has no digest, and
\* only a regular file that was pulled has a sha256 one.
FilesOf(c, fs) ==
    \A p \in Paths :
        /\ fs[p] = "zero" => Listed[c][p] = "zero"
        /\ fs[p] = "sha256" /\ Identity[c][p] = "sha1" => <<"sha256", ContentAt[c][p]>> \in blobs

\* Every manifest, saved or in memory, is such a one.
FilesOK ==
    /\ \A c \in Commits : FilesOf(c, files[c])
    /\ \A r \in Requests : heap[r].commit \in Commits => FilesOf(heap[r].commit, heap[r].files)
    /\ \A r \in Requests : /\ cached[r].commit \in Commits => FilesOf(cached[r].commit, cached[r].files)
                           /\ cached[r] # NoManifest => cached[r].commit \in Commits

ListedZero(r) == Listed[Object(r).commit][want[r].path] = "zero"

\* What a request at its point knows of its entry and of the stored blobs.
EntryOf(r) ==
    /\ pc[r] \in {"stat", "fill"} => ListedZero(r)
    /\ pc[r] \in Filled => Entry(r) \in {"sha1", "sha256", "torn"}
    /\ pc[r] = "putBlob" => Entry(r) \in {"sha256", "torn"} \/ ListedZero(r)
    /\ pc[r] \in {"rekey", "rekeyed", "save"} => <<"sha256", Content(r)>> \in blobs

\* How a request that shares its manifest with nobody fares.
SoloOf(r) ==
    /\ pc[r] = "join" => r \in joined
    /\ pc[r] = "verify" => Entry(r) \in {"sha1", "torn"} \/ Shares(r)
    /\ pc[r] = "save" => Entry(r) = "sha256" \/ Shares(r)
    /\ pc[r] = "reopen" => Held(r) \/ r \in joined \/ Shares(r)
    /\ pc[r] = "error" /\ spent["failure"] = 0 => r \in joined \/ Shares(r) \/ Entry(r) = "torn"

PointsOK == \A r \in Requests : EntryOf(r) /\ SoloOf(r)

Inv == TypeOK /\ WantOK /\ ObjOK /\ CommitOK /\ FilesOK /\ PointsOK /\ KeyedBySha256

-----------------------------------------------------------------------------
(* Facts that every step uses *)

\* The points, by how far a request is.
LEMMA PointFacts ==
    /\ Early \subseteq Points /\ Working \subseteq Points /\ Ended \subseteq Points
    /\ Early \cap Working = {} /\ Early \cap Ended = {} /\ Working \cap Ended = {}
    /\ Filled \subseteq Working /\ {"stat", "fill", "entry"} \subseteq Working
  BY DEF Early, Working, Filled, Ended, Points

\* The type of a manifest object.
LEMMA ManifestFacts ==
    /\ NoManifest \in Manifest /\ NoManifest.commit = None
    /\ \A m \in Manifest : m.commit \in Commits \cup {None} /\ m.files \in [Paths -> Digests]
    /\ \A c \in Commits, fs \in [Paths -> Digests] : [commit |-> c, files |-> fs] \in Manifest
  BY DEF NoManifest, Manifest, Digests

\* What upstream says is of the right type.
LEMMA UpstreamFacts ==
    ASSUME NEW c \in Commits
    PROVE  /\ Listed[c] \in [Paths -> Digests]
           /\ \A p \in Paths : /\ ContentAt[c][p] \in Contents /\ Identity[c][p] \in {"sha1", "sha256"}
                               /\ Listed[c][p] \in {Identity[c][p], "zero", "absent"}
  BY UpstreamAssumption DEF Digests, Algos

\* A request at work has an object with a commit, an entry and a content.
LEMMA WorkFacts ==
    ASSUME Inv, NEW r \in Requests, pc[r] \in Working
    PROVE  /\ obj[r] \in Requests /\ Object(r) \in Manifest /\ Object(r).commit \in Commits
           /\ want[r].path \in Paths /\ Entry(r) \in Digests /\ Content(r) \in Contents
           /\ pc[obj[r]] \notin Early
           /\ FilesOf(Object(r).commit, Object(r).files)
  <1>1. /\ obj[r] \in Requests /\ Object(r) \in Manifest
    BY DEF Inv, TypeOK, Object
  <1>2. Object(r).commit \in Commits
    BY DEF Inv, CommitOK
  <1>3. want[r].path \in Paths
    BY PointFacts DEF Inv, WantOK, Early, Working, Filled
  <1>4. pc[obj[r]] \notin Early
    BY PointFacts DEF Inv, ObjOK
  <1>5. Entry(r) \in Digests
    BY <1>1, <1>3, ManifestFacts DEF Entry
  <1>6. Content(r) \in Contents
    BY <1>2, <1>3, UpstreamFacts DEF Content
  <1>7. FilesOf(Object(r).commit, Object(r).files)
    BY <1>1, <1>2 DEF Inv, FilesOK, Object
  <1> QED BY <1>1, <1>2, <1>3, <1>4, <1>5, <1>6, <1>7

\* Blobs are only added, so manifests stay what they are.
LEMMA FilesKept ==
    ASSUME NEW c \in Commits, NEW fs, FilesOf(c, fs), blobs \subseteq blobs'
    PROVE  FilesOf(c, fs)'
  BY DEF FilesOf

\* A request beyond the manifest keeps what it knows while its object stays.
LEMMA PointKept ==
    ASSUME Inv, NEW r \in Requests, pc'[r] = pc[r], want'[r] = want[r], obj'[r] = obj[r],
           heap'[obj[r]] = heap[obj[r]], Shares(r) => Shares(r)', blobs \subseteq blobs',
           joined \subseteq joined', spent'["failure"] = 0 => spent["failure"] = 0
    PROVE  EntryOf(r)' /\ SoloOf(r)'
  <1>1. EntryOf(r) /\ SoloOf(r)
    BY DEF Inv, PointsOK
  <1>2. Object(r)' = Object(r)
    BY DEF Object
  <1>3. Entry(r)' = Entry(r) /\ Content(r)' = Content(r) /\ (ListedZero(r) => ListedZero(r)')
    BY <1>2 DEF Entry, Content, ListedZero
  <1>4. Held(r) => Held(r)'
    BY <1>3 DEF Held
  <1>5. EntryOf(r)'
    BY <1>1, <1>3 DEF EntryOf
  <1>6. SoloOf(r)'
    BY <1>1, <1>3, <1>4 DEF SoloOf
  <1> QED BY <1>5, <1>6

\* All manifests stay what they are.
LEMMA FilesSame ==
    ASSUME Inv, heap' = heap, cached' = cached, files' = files, blobs \subseteq blobs'
    PROVE  FilesOK'
  BY DEF Inv, FilesOK, FilesOf, TypeOK

\* A step that moves the requests in S along, and changes no manifest in memory.
LEMMA MoveStep ==
    ASSUME Inv, TypeOK', NEW S \in SUBSET Requests,
           want' = want, obj' = obj, heap' = heap, FilesOK',
           blobs \subseteq blobs', joined \subseteq joined', KeyedBySha256',
           spent'["failure"] = 0 => spent["failure"] = 0,
           \A q \in Requests \ S : pc'[q] = pc[q],
           \A q \in S : /\ pc[q] # "new" /\ pc'[q] # "put" /\ (pc'[q] \in Early <=> pc[q] \in Early)
                        /\ pc'[q] \in Working => pc[q] \in Working,
           \A q \in S : EntryOf(q)' /\ SoloOf(q)'
    PROVE  Inv'
  <1>1. WantOK'
    BY DEF Inv, WantOK
  <1>2. ObjOK'
    BY DEF Inv, ObjOK, TypeOK
  <1>3. CommitOK'
    BY DEF Inv, CommitOK, Object
  <1>4. PointsOK'
    <2> SUFFICES ASSUME NEW q \in Requests \ S PROVE EntryOf(q)' /\ SoloOf(q)'
      BY DEF PointsOK
    <2>1. Shares(q) => Shares(q)'
      BY DEF Shares
    <2> QED BY <2>1, PointKept
  <1> QED BY <1>1, <1>2, <1>3, <1>4 DEF Inv

\* Using up a bound.
LEMMA SpendFacts ==
    ASSUME TypeOK, NEW w \in Limited, Spend(w)
    PROVE  /\ spent' \in [Limited -> Nat]
           /\ spent'["failure"] = 0 => spent["failure"] = 0
           /\ w = "failure" => spent'["failure"] # 0
  <1>1. spent \in [Limited -> Nat] /\ "failure" \in Limited /\ spent' = [spent EXCEPT ![w] = spent[w] + 1]
    BY DEF TypeOK, Limited, Spend
  <1> QED BY <1>1

\* What a request sees is the same while no manifest changes.
LEMMA SeesSame ==
    ASSUME NEW r \in Requests, want' = want, obj' = obj, heap' = heap
    PROVE  /\ Object(r)' = Object(r) /\ Entry(r)' = Entry(r) /\ Content(r)' = Content(r)
           /\ ListedZero(r)' <=> ListedZero(r)
           /\ Shares(r)' <=> Shares(r)
  <1>1. Object(r)' = Object(r)
    BY DEF Object
  <1>2. Entry(r)' = Entry(r) /\ Content(r)' = Content(r)
    BY <1>1 DEF Entry, Content
  <1> QED BY <1>1, <1>2 DEF ListedZero, Shares

\* A request moves on alone.
LEMMA MoveOne ==
    ASSUME Inv, NEW r \in Requests, NEW p \in Points, Goto(r, p),
           UNCHANGED <<head, stored, files, ref, want, cached, heap, obj>>,
           blobs \subseteq blobs', blobs' \subseteq Keys, KeyedBySha256',
           mflight' \in [Revisions -> Requests \cup {None}], bflight' \in [Keys -> Requests \cup {None}],
           key' \in [Requests -> Keys], joined \subseteq joined', joined' \subseteq Requests,
           spent' \in [Limited -> Nat], spent'["failure"] = 0 => spent["failure"] = 0,
           pc[r] # "new", p # "put", p \in Early <=> pc[r] \in Early,
           p \in Working => pc[r] \in Working,
           EntryOf(r)', SoloOf(r)'
    PROVE  Inv'
  <1>1. pc' \in [Requests -> Points] /\ pc'[r] = p /\ \A q \in Requests \ {r} : pc'[q] = pc[q]
    BY DEF Inv, TypeOK, Goto
  <1>2. TypeOK'
    BY <1>1 DEF Inv, TypeOK
  <1>3. /\ want' = want /\ obj' = obj /\ heap' = heap /\ cached' = cached /\ files' = files
        /\ {r} \in SUBSET Requests
        /\ \A q \in {r} : /\ pc[q] # "new" /\ pc'[q] # "put" /\ (pc'[q] \in Early <=> pc[q] \in Early)
                          /\ pc'[q] \in Working => pc[q] \in Working
    BY <1>1
  <1>4. \A q \in {r} : EntryOf(q)' /\ SoloOf(q)'
    OBVIOUS
  <1>5. FilesOK'
    BY <1>3, FilesSame
  <1> QED BY <1>1, <1>2, <1>3, <1>4, <1>5, MoveStep

\* The same, when only the points and what was spent change.
LEMMA MoveOnly ==
    ASSUME Inv, NEW r \in Requests, NEW p \in Points, Goto(r, p),
           UNCHANGED <<head, backend, want, cached, heap, obj, flights>>,
           spent' \in [Limited -> Nat], spent'["failure"] = 0 => spent["failure"] = 0,
           pc[r] # "new", p # "put", p \in Early <=> pc[r] \in Early,
           p \in Working => pc[r] \in Working,
           EntryOf(r)', SoloOf(r)'
    PROVE  Inv'
  <1>1. UNCHANGED <<head, stored, files, ref, blobs, want, cached, heap, obj, mflight, bflight, key, joined>>
    BY DEF backend, flights
  <1>2. /\ blobs' \subseteq Keys /\ mflight' \in [Revisions -> Requests \cup {None}]
        /\ bflight' \in [Keys -> Requests \cup {None}] /\ key' \in [Requests -> Keys] /\ joined' \subseteq Requests
    BY <1>1 DEF Inv, TypeOK
  <1>3. KeyedBySha256'
    BY <1>1 DEF Inv, KeyedBySha256
  <1> QED BY <1>1, <1>2, <1>3, MoveOne

-----------------------------------------------------------------------------
(* Steps of one request that change no manifest *)

\* Nothing is spent.
LEMMA NotSpent ==
    ASSUME Inv, spent' = spent
    PROVE  spent' \in [Limited -> Nat] /\ (spent'["failure"] = 0 => spent["failure"] = 0)
  BY DEF Inv, TypeOK

\* EnsureEntry and the look at the upstream file.
LEMMA EntrySteps ==
    ASSUME Inv, NEW r \in Requests, EnsureEntry(r) \/ StatFile(r) \/ EntryFails(r)
    PROVE  Inv'
  <1>1. UNCHANGED <<head, backend, want, cached, heap, obj, flights>> /\ pc \in [Requests -> Points]
    BY DEF EnsureEntry, StatFile, EntryFails, Inv, TypeOK
  <1>2. /\ Object(r)' = Object(r) /\ Entry(r)' = Entry(r) /\ Content(r)' = Content(r)
        /\ ListedZero(r)' <=> ListedZero(r)
    BY <1>1, SeesSame
  <1>3. EntryOf(r) /\ SoloOf(r)
    BY DEF Inv, PointsOK
  <1>4. CASE EnsureEntry(r)
    <2>1. pc[r] = "entry" /\ pc[r] \in Working
      BY <1>4, PointFacts DEF EnsureEntry, At
    <2>2. PICK p \in {"notfound", "stat", "served", "open"} :
             /\ Goto(r, p) /\ (p = "stat" => Entry(r) = "zero") /\ (p = "open" => Entry(r) \notin {"zero", "absent"})
      BY <1>4 DEF EnsureEntry
    <2>3. pc'[r] = p /\ p \in Points /\ p \notin Early
      BY <1>1, <2>2 DEF Goto, Points, Early, Ended
    <2>4. p = "stat" => ListedZero(r)
      BY <2>1, <2>2, WorkFacts DEF FilesOf, Entry, ListedZero
    <2>5. EntryOf(r)' /\ SoloOf(r)'
      <3>1. Entry(r) \in Digests BY <2>1, WorkFacts
      <3> QED BY <1>2, <2>2, <2>3, <2>4, <3>1 DEF EntryOf, SoloOf, Filled, Digests, Algos
    <2>6. spent' = spent /\ pc[r] \notin Early /\ pc[r] # "new" /\ p # "put"
      BY <1>4, <2>1, <2>2 DEF EnsureEntry, Early
    <2> QED BY <1>1, <2>1, <2>2, <2>3, <2>5, <2>6, NotSpent, MoveOnly
  <1>5. CASE StatFile(r)
    <2>1. pc[r] = "stat" /\ Goto(r, "fill") /\ spent' = spent /\ pc'[r] = "fill"
      BY <1>1, <1>5 DEF StatFile, At, Goto
    <2>2. "fill" \in Points /\ "fill" \notin Early /\ pc[r] \notin Early /\ pc[r] \in Working
      BY <2>1 DEF Points, Early, Working
    <2>3. EntryOf(r)' /\ SoloOf(r)'
      BY <1>2, <1>3, <2>1 DEF EntryOf, SoloOf, Filled
    <2> QED BY <1>1, <2>1, <2>2, <2>3, NotSpent, MoveOnly
  <1>6. CASE EntryFails(r)
    <2>1. /\ pc[r] \in {"stat", "keep", "open"} /\ Goto(r, "error") /\ Spend("failure") /\ pc'[r] = "error"
          /\ "failure" \in Limited /\ TypeOK
      BY <1>1, <1>6 DEF EntryFails, Goto, Limited, Inv
    <2>2. "error" \in Points /\ "error" \notin Early /\ pc[r] \notin Early /\ "error" \notin Working
      BY <2>1 DEF Points, Ended, Early, Working, Filled
    <2>3. spent' \in [Limited -> Nat] /\ spent'["failure"] # 0
      BY <2>1, SpendFacts
    <2>4. EntryOf(r)' /\ SoloOf(r)'
      BY <1>2, <1>3, <2>1, <2>3 DEF EntryOf, SoloOf, Filled
    <2>5. pc[r] # "new"
      BY <2>1
    <2> QED BY <1>1, <2>1, <2>2, <2>3, <2>4, <2>5, MoveOnly
  <1> QED BY <1>4, <1>5, <1>6

\* The steps of OpenFile and fetchBlob in which a request goes on by itself.
LEMMA OpenSteps ==
    ASSUME Inv, NEW r \in Requests, OpenBlob(r) \/ OpenUpstream(r) \/ Algo(r) \/ Reopen(r)
    PROVE  Inv'
  <1>1. /\ UNCHANGED <<head, backend, want, cached, heap, obj, flights>> /\ spent' = spent
        /\ pc \in [Requests -> Points] /\ UNCHANGED <<want, obj, heap, blobs, joined>>
    BY DEF OpenBlob, OpenUpstream, Algo, Reopen, Inv, TypeOK, backend, flights
  <1>2. /\ Object(r)' = Object(r) /\ Entry(r)' = Entry(r) /\ Content(r)' = Content(r)
        /\ ListedZero(r)' <=> ListedZero(r)
        /\ Shares(r)' <=> Shares(r)
    BY <1>1, SeesSame
  <1>3. EntryOf(r) /\ SoloOf(r)
    BY DEF Inv, PointsOK
  <1>4. SUFFICES ASSUME NEW p \in Filled \cup Ended, Goto(r, p), pc[r] \in Filled,
                        EntryOf(r)', SoloOf(r)'
                 PROVE  Inv'
    <2>1. CASE OpenBlob(r)
      <3>1. PICK p \in {"served", "fetch"} : Goto(r, p)
        BY <2>1 DEF OpenBlob
      <3>2. pc'[r] = p /\ pc[r] = "open"
        BY <1>1, <2>1, <3>1 DEF OpenBlob, Goto, At
      <3>3. EntryOf(r)' /\ SoloOf(r)'
        BY <1>2, <1>3, <3>2 DEF EntryOf, SoloOf, Filled
      <3>4. p \in Filled \cup Ended /\ pc[r] \in Filled
        BY <3>2 DEF Filled, Ended
      <3> QED BY <1>4, <3>1, <3>3, <3>4
    <2>2. CASE OpenUpstream(r)
      <3>1. Goto(r, "algo") /\ pc'[r] = "algo" /\ pc[r] = "download"
        BY <1>1, <2>2 DEF OpenUpstream, Goto, At
      <3>2. EntryOf(r)' /\ SoloOf(r)'
        BY <1>2, <1>3, <3>1 DEF EntryOf, SoloOf, Filled
      <3>3. "algo" \in Filled \cup Ended /\ pc[r] \in Filled
        BY <3>1 DEF Filled
      <3> QED BY <1>4, <3>1, <3>2, <3>3
    <2>3. CASE Algo(r)
      <3>1. PICK p \in {"verify", "putBlob"} :
               /\ Goto(r, p) /\ (p = "verify" => Entry(r) \in {"sha1", "torn"})
               /\ (p = "putBlob" => Entry(r) # "sha1")
        BY <2>3 DEF Algo
      <3>2. pc'[r] = p /\ pc[r] = "algo"
        BY <1>1, <2>3, <3>1 DEF Algo, Goto, At
      <3>3. EntryOf(r)' /\ SoloOf(r)'
        BY <1>2, <1>3, <3>1, <3>2 DEF EntryOf, SoloOf, Filled
      <3>4. p \in Filled \cup Ended /\ pc[r] \in Filled
        BY <3>2 DEF Filled, Ended
      <3> QED BY <1>4, <3>1, <3>3, <3>4
    <2>4. CASE Reopen(r)
      <3>1. PICK p \in {"served", "error"} : Goto(r, p) /\ (p = "error" => ~Held(r))
        BY <2>4 DEF Reopen
      <3>2. pc'[r] = p /\ pc[r] = "reopen"
        BY <1>1, <2>4, <3>1 DEF Reopen, Goto, At
      <3>3. EntryOf(r)' /\ SoloOf(r)'
        BY <1>1, <1>2, <1>3, <3>1, <3>2 DEF EntryOf, SoloOf, Filled
      <3>4. p \in Filled \cup Ended /\ pc[r] \in Filled
        BY <3>2 DEF Filled, Ended
      <3> QED BY <1>4, <3>1, <3>3, <3>4
    <2> QED BY <2>1, <2>2, <2>3, <2>4
  <1>5. /\ p \in Points /\ p \notin Early /\ pc[r] \notin Early /\ pc[r] # "new" /\ p # "put"
        /\ pc[r] \in Working
    BY <1>4, PointFacts DEF Early
  <1> QED BY <1>1, <1>4, <1>5, NotSpent, MoveOnly

\* Joining or leading a blob flight.
LEMMA FetchBlobStep ==
    ASSUME Inv, NEW r \in Requests, FetchBlob(r)
    PROVE  Inv'
  <1> DEFINE k == <<Entry(r), Content(r)>>
  <1>1. /\ UNCHANGED <<head, stored, files, ref, want, cached, heap, obj, blobs, mflight>> /\ spent' = spent
        /\ pc[r] = "fetch" /\ key' = [key EXCEPT ![r] = k]
    BY DEF FetchBlob, At, backend
  <1>2. pc[r] \in Working /\ pc[r] \in Filled /\ pc[r] \notin Early /\ pc[r] # "new"
    BY <1>1 DEF Working, Filled, Early
  <1>3. k \in Keys
    BY <1>2, WorkFacts DEF Keys
  <1>4. /\ blobs' \subseteq Keys /\ blobs \subseteq blobs' /\ KeyedBySha256' /\ pc \in [Requests -> Points]
        /\ mflight' \in [Revisions -> Requests \cup {None}] /\ key' \in [Requests -> Keys]
    <2> HIDE DEF k
    <2> QED BY <1>1, <1>3 DEF Inv, TypeOK, KeyedBySha256
  <1>5. PICK p \in {"download", "join"} :
           /\ Goto(r, p) /\ bflight' \in [Keys -> Requests \cup {None}]
           /\ joined \subseteq joined' /\ joined' \subseteq Requests /\ (p = "join" => r \in joined')
    <2>1. bflight \in [Keys -> Requests \cup {None}] /\ joined \subseteq Requests
      BY DEF Inv, TypeOK
    <2>2. CASE bflight[k] = None
      <3>1. bflight' = [bflight EXCEPT ![k] = r] /\ Goto(r, "download") /\ joined' = joined
        BY <2>2 DEF FetchBlob
      <3> HIDE DEF k
      <3> QED BY <1>3, <2>1, <3>1
    <2>3. CASE bflight[k] # None
      <3>1. bflight' = bflight /\ Goto(r, "join") /\ joined' = joined \cup {r}
        BY <2>3 DEF FetchBlob
      <3> QED BY <2>1, <3>1
    <2> QED BY <2>2, <2>3
  <1>6. pc'[r] = p /\ p \in Points /\ p \notin Early /\ p # "put"
    BY <1>4, <1>5 DEF Goto, Points, Early
  <1>7. /\ Object(r)' = Object(r) /\ Entry(r)' = Entry(r) /\ Content(r)' = Content(r)
    BY <1>1, SeesSame
  <1>8. EntryOf(r)' /\ SoloOf(r)'
    <2>1. EntryOf(r)
      BY DEF Inv, PointsOK
    <2> QED BY <1>1, <1>2, <1>5, <1>6, <1>7, <2>1 DEF EntryOf, SoloOf, Filled
  <1>9. spent' \in [Limited -> Nat] /\ (spent'["failure"] = 0 => spent["failure"] = 0)
    BY <1>1, NotSpent
  <1>10. UNCHANGED <<head, stored, files, ref, want, cached, heap, obj>>
    BY <1>1
  <1> QED BY <1>2, <1>4, <1>5, <1>6, <1>8, <1>9, <1>10, MoveOne

\* A miss of the local manifest.
LEMMA LocalFailsStep ==
    ASSUME Inv, NEW r \in Requests, LocalFails(r)
    PROVE  Inv'
  <1>1. /\ UNCHANGED <<head, stored, files, ref, want, cached, heap, obj, blobs, bflight, key, joined>>
        /\ pc[r] = "resolve" /\ Spend("failure") /\ "failure" \in Limited /\ TypeOK
    BY DEF LocalFails, FetchManifest, At, backend, Limited, Inv
  <1>2. want[r].rev \in Revisions
    BY <1>1 DEF Inv, WantOK
  <1>3. PICK p \in {"info", "wait"} : Goto(r, p) /\ mflight' \in [Revisions -> Requests \cup {None}]
    BY <1>1, <1>2 DEF LocalFails, FetchManifest, TypeOK
  <1>4. pc'[r] = p /\ p \in Points /\ p \in Early /\ p # "put" /\ pc[r] \in Early /\ p \notin Working
    BY <1>1, <1>3 DEF Goto, Points, Early, TypeOK, Working, Filled
  <1>5. EntryOf(r)' /\ SoloOf(r)'
    BY <1>3, <1>4 DEF EntryOf, SoloOf, Filled
  <1>6. spent' \in [Limited -> Nat] /\ (spent'["failure"] = 0 => spent["failure"] = 0)
    BY <1>1, SpendFacts
  <1>7. /\ blobs' \subseteq Keys /\ blobs \subseteq blobs' /\ KeyedBySha256'
        /\ bflight' \in [Keys -> Requests \cup {None}] /\ key' \in [Requests -> Keys]
        /\ joined \subseteq joined' /\ joined' \subseteq Requests
    BY <1>1 DEF Inv, TypeOK, KeyedBySha256
  <1>8. UNCHANGED <<head, stored, files, ref, want, cached, heap, obj>> /\ pc[r] # "new"
    BY <1>1
  <1> QED BY <1>3, <1>4, <1>5, <1>6, <1>7, <1>8, MoveOne

\* A miss: a stale manifest is kept for the case that the fetch fails.
LEMMA LocalMissStep ==
    ASSUME Inv, NEW r \in Requests, LocalMiss(r)
    PROVE  Inv'
  <1> DEFINE c == Local(want[r].rev)
  <1>1. /\ UNCHANGED <<head, stored, files, ref, want, heap, obj, blobs, bflight, key, joined, spent>>
        /\ pc[r] = "resolve" /\ TypeOK
        /\ cached' = IF c = None THEN cached ELSE [cached EXCEPT ![r] = Decoded(c)]
    BY DEF LocalMiss, FetchManifest, At, backend, Inv
  <1>2. want[r].rev \in Revisions
    BY <1>1 DEF Inv, WantOK
  <1>3. PICK p \in {"info", "wait"} : Goto(r, p) /\ mflight' \in [Revisions -> Requests \cup {None}]
    BY <1>1, <1>2 DEF LocalMiss, FetchManifest, TypeOK
  <1>4. /\ pc'[r] = p /\ p \in Points /\ p \in Early /\ p # "put" /\ pc[r] \in Early /\ p \notin Working
        /\ pc' \in [Requests -> Points] /\ \A q \in Requests \ {r} : pc'[q] = pc[q]
    BY <1>1, <1>3 DEF Goto, Points, Early, TypeOK, Working, Filled
  <1>5. c # None => c \in Commits
    BY <1>1, <1>2 DEF Local, TypeOK, Revisions
  <1>6. c # None => /\ Decoded(c) \in Manifest /\ Decoded(c).commit = c /\ Decoded(c).files = files[c]
                    /\ FilesOf(c, files[c])
    BY <1>1, <1>5, ManifestFacts DEF Decoded, TypeOK, Inv, FilesOK
  <1> HIDE DEF c
  <1>7. cached' \in [Requests -> Manifest]
    BY <1>1, <1>6 DEF TypeOK
  <1>8. TypeOK'
    BY <1>1, <1>3, <1>4, <1>7 DEF TypeOK
  <1>9. FilesOK'
    <2>1. \A q \in Requests : cached'[q] = cached[q] \/ (c # None /\ cached'[q] = Decoded(c))
      BY <1>1 DEF TypeOK
    <2> QED BY <1>1, <1>5, <1>6, <2>1 DEF Inv, FilesOK, FilesOf
  <1>10. EntryOf(r)' /\ SoloOf(r)'
    BY <1>3, <1>4 DEF EntryOf, SoloOf, Filled
  <1>11. KeyedBySha256'
    BY <1>1 DEF Inv, KeyedBySha256
  <1>12. /\ \A q \in {r} : /\ pc[q] # "new" /\ pc'[q] # "put" /\ (pc'[q] \in Early <=> pc[q] \in Early)
                           /\ pc'[q] \in Working => pc[q] \in Working
         /\ \A q \in {r} : EntryOf(q)' /\ SoloOf(q)'
         /\ {r} \in SUBSET Requests
         /\ want' = want /\ obj' = obj /\ heap' = heap /\ blobs \subseteq blobs' /\ joined \subseteq joined'
         /\ spent'["failure"] = 0 => spent["failure"] = 0
    BY <1>1, <1>4, <1>10
  <1> QED BY <1>4, <1>8, <1>9, <1>11, <1>12, MoveStep

-----------------------------------------------------------------------------
(* The end of a blob flight *)

\* The requests a landing moves.
Landing(r) == {q \in Requests : q = r \/ (At(q, "join") /\ key[q] = key[r])}

\* A flight ends for its leader, of which S is known, and for its followers.
LEMMA LandStep ==
    ASSUME Inv, NEW r \in Requests, NEW p \in {"error", "reopen"}, Land(r, p),
           UNCHANGED <<head, want, cached, heap, obj>>, pc[r] \in Filled,
           ref' = ref, stored' \subseteq Commits, files' \in [Commits -> [Paths -> Digests]], FilesOK',
           blobs \subseteq blobs', blobs' \subseteq Keys, KeyedBySha256',
           spent' \in [Limited -> Nat], spent'["failure"] = 0 => spent["failure"] = 0,
           SoloOf(r)'
    PROVE  Inv'
  <1>1. /\ mflight' = mflight /\ key' = key /\ joined' = joined
        /\ bflight' = [bflight EXCEPT ![key[r]] = None]
        /\ pc' = [q \in Requests |-> IF q \in Landing(r) THEN p ELSE pc[q]]
    BY DEF Land, Landing
  <1>2. p \in Points /\ p \notin Early /\ (p \in Working <=> p = "reopen") /\ p # "put"
    BY DEF Points, Ended, Early, Working, Filled
  <1>3. TypeOK'
    BY <1>1, <1>2 DEF Inv, TypeOK
  <1>4. \A q \in Landing(r) : q \in Requests /\ pc[q] \in Filled
    BY DEF Landing, At, Filled
  <1>5. \A q \in Landing(r) : /\ pc[q] # "new" /\ pc'[q] # "put" /\ (pc'[q] \in Early <=> pc[q] \in Early)
                              /\ pc'[q] \in Working => pc[q] \in Working
    BY <1>1, <1>2, <1>4, PointFacts DEF Early, Filled, Working
  <1>6. ASSUME NEW q \in Landing(r) PROVE EntryOf(q)' /\ SoloOf(q)'
    <2>1. pc'[q] = p /\ q \in Requests /\ pc[q] \in Filled
      BY <1>1, <1>4
    <2>2. Entry(q)' = Entry(q)
      BY <2>1, SeesSame
    <2>3. EntryOf(q) /\ SoloOf(q)
      BY <2>1 DEF Inv, PointsOK
    <2>4. EntryOf(q)'
      BY <2>1, <2>2, <2>3 DEF EntryOf, Filled
    <2>5. CASE q = r
      BY <2>4, <2>5
    <2>6. CASE q # r
      <3>1. q \in joined'
        BY <1>1, <2>3, <2>6 DEF Landing, At, SoloOf
      <3>2. SoloOf(q)'
        BY <2>1, <3>1 DEF SoloOf
      <3> QED BY <2>4, <3>2
    <2> QED BY <2>5, <2>6
  <1>7. /\ Landing(r) \in SUBSET Requests /\ \A q \in Requests \ Landing(r) : pc'[q] = pc[q]
        /\ want' = want /\ obj' = obj /\ heap' = heap /\ joined \subseteq joined'
    BY <1>1 DEF Landing
  <1> QED BY <1>3, <1>5, <1>6, <1>7, MoveStep

\* The blobs keep their type and their keys while none is added.
LEMMA BlobsSame ==
    ASSUME Inv, blobs' = blobs
    PROVE  blobs \subseteq blobs' /\ blobs' \subseteq Keys /\ KeyedBySha256'
  BY DEF Inv, TypeOK, KeyedBySha256

\* A blob is added, under its sha256 or for a file listed without details.
LEMMA BlobAdded ==
    ASSUME Inv, NEW r \in Requests, pc[r] \in Working, NEW d \in Digests,
           d = "sha256" \/ ListedZero(r), blobs' = blobs \cup {<<d, Content(r)>>}
    PROVE  blobs \subseteq blobs' /\ blobs' \subseteq Keys /\ KeyedBySha256'
  <1>1. /\ Object(r).commit \in Commits /\ want[r].path \in Paths /\ Content(r) \in Contents
    BY WorkFacts
  <1>2. blobs' \subseteq Keys
    BY <1>1 DEF Inv, TypeOK, Keys
  <1>3. KeyedBySha256'
    <2> SUFFICES ASSUME NEW k \in blobs'
                 PROVE  k[1] = "sha256" \/ \E c \in Commits, p \in Paths :
                            ContentAt[c][p] = k[2] /\ Listed[c][p] = "zero"
      BY DEF KeyedBySha256
    <2>1. CASE k \in blobs
      BY <2>1 DEF Inv, KeyedBySha256
    <2>2. CASE k = <<d, Content(r)>>
      <3>1. k[1] = d /\ k[2] = ContentAt[Object(r).commit][want[r].path]
        BY <2>2 DEF Content
      <3> QED BY <1>1, <3>1 DEF ListedZero
    <2> QED BY <2>1, <2>2
  <1> QED BY <1>2, <1>3

\* The object of a request at work is saved.
LEMMA PersistFacts ==
    ASSUME Inv, NEW r \in Requests, pc[r] \in Working, Persist(r), heap' = heap, cached' = cached,
           blobs' = blobs
    PROVE  /\ stored' \subseteq Commits /\ files' \in [Commits -> [Paths -> Digests]] /\ FilesOK'
  <1>1. /\ Object(r).commit \in Commits /\ Object(r).files \in [Paths -> Digests]
        /\ FilesOf(Object(r).commit, Object(r).files)
    BY WorkFacts, ManifestFacts
  <1>2. stored' \subseteq Commits /\ files' \in [Commits -> [Paths -> Digests]]
    BY <1>1 DEF Persist, Inv, TypeOK
  <1>3. \A c \in Commits : files'[c] = IF c = Object(r).commit THEN Object(r).files ELSE files[c]
    BY <1>1 DEF Persist, Inv, TypeOK
  <1>4. FilesOK'
    BY <1>1, <1>3 DEF Inv, FilesOK, FilesOf
  <1> QED BY <1>2, <1>4

\* PutBlob under the digest of the entry.
LEMMA PutBlobStep ==
    ASSUME Inv, NEW r \in Requests, PutBlob(r)
    PROVE  Inv'
  <1>1. /\ UNCHANGED <<head, want, cached, heap, obj>> /\ ref' = ref /\ stored' = stored /\ files' = files
        /\ spent' = spent /\ pc[r] = "putBlob"
    BY DEF PutBlob, At
  <1>2. pc[r] \in Filled /\ pc[r] \in Working
    BY <1>1 DEF Filled, Working
  <1>3. EntryOf(r) /\ Entry(r) \in Digests /\ stored' \subseteq Commits /\ files' \in [Commits -> [Paths -> Digests]]
    BY <1>1, <1>2, WorkFacts DEF Inv, PointsOK, TypeOK
  <1>4. Entry(r)' = Entry(r) /\ Content(r)' = Content(r)
    BY <1>1, SeesSame
  <1>5. r \in Landing(r) /\ \A p : Land(r, p) => pc'[r] = p
    BY DEF Landing, Land
  <1>6. spent' \in [Limited -> Nat] /\ (spent'["failure"] = 0 => spent["failure"] = 0)
    BY <1>1, NotSpent
  <1>7. CASE Entry(r) = "torn"
    <2>1. Land(r, "error") /\ blobs' = blobs
      BY <1>7 DEF PutBlob
    <2>2. SoloOf(r)'
      BY <1>4, <1>5, <1>7, <2>1 DEF SoloOf
    <2>3. FilesOK'
      BY <1>1, <2>1, FilesSame
    <2> QED BY <1>1, <1>2, <1>3, <1>6, <2>1, <2>2, <2>3, BlobsSame, LandStep
  <1>8. CASE Entry(r) # "torn"
    <2>1. Land(r, "reopen") /\ blobs' = blobs \cup {<<Entry(r), Content(r)>>}
      BY <1>8 DEF PutBlob
    <2>2. Entry(r) = "sha256" \/ ListedZero(r)
      BY <1>1, <1>3, <1>8 DEF EntryOf
    <2>3. blobs \subseteq blobs' /\ blobs' \subseteq Keys /\ KeyedBySha256'
      BY <1>2, <1>3, <2>1, <2>2, BlobAdded
    <2>4. SoloOf(r)'
      BY <1>4, <1>5, <2>1 DEF SoloOf, Held
    <2>5. FilesOK'
      BY <1>1, <2>3, FilesSame
    <2> QED BY <1>1, <1>2, <1>3, <1>6, <2>1, <2>3, <2>4, <2>5, LandStep
  <1> QED BY <1>7, <1>8

\* storeRegularBlob stores the content under its sha256.
LEMMA StoreRegularStep ==
    ASSUME Inv, NEW r \in Requests, StoreRegular(r)
    PROVE  Inv'
  <1>1. /\ UNCHANGED <<head, want, cached, heap, obj>> /\ ref' = ref /\ stored' = stored /\ files' = files
        /\ spent' = spent /\ pc[r] = "verify"
    BY DEF StoreRegular, At
  <1>2. pc[r] \in Filled /\ pc[r] \in Working /\ pc[r] \notin Early /\ pc[r] # "new"
    BY <1>1 DEF Filled, Working, Early
  <1>3. /\ EntryOf(r) /\ SoloOf(r) /\ stored' \subseteq Commits /\ files' \in [Commits -> [Paths -> Digests]]
        /\ pc \in [Requests -> Points]
    BY <1>1 DEF Inv, PointsOK, TypeOK
  <1>4. /\ Entry(r)' = Entry(r) /\ Content(r)' = Content(r)
        /\ Shares(r)' <=> Shares(r)
    BY <1>1, SeesSame
  <1>5. spent' \in [Limited -> Nat] /\ (spent'["failure"] = 0 => spent["failure"] = 0)
    BY <1>1, NotSpent
  <1>6. CASE Entry(r) = "sha1"
    <2>1. Goto(r, "rekey") /\ blobs' = blobs \cup {<<"sha256", Content(r)>>}
          /\ mflight' = mflight /\ bflight' = bflight /\ key' = key /\ joined' = joined
      BY <1>6 DEF StoreRegular, flights
    <2>2. blobs \subseteq blobs' /\ blobs' \subseteq Keys /\ KeyedBySha256'
      <3>1. "sha256" \in Digests BY DEF Digests, Algos
      <3> QED BY <1>2, <2>1, <3>1, BlobAdded
    <2>3. pc'[r] = "rekey" /\ "rekey" \in Points /\ "rekey" \notin Early
      BY <1>3, <2>1 DEF Goto, Points, Early
    <2>4. EntryOf(r)' /\ SoloOf(r)'
      BY <1>4, <1>6, <2>1, <2>3 DEF EntryOf, SoloOf
    <2>5. /\ mflight' \in [Revisions -> Requests \cup {None}] /\ bflight' \in [Keys -> Requests \cup {None}]
          /\ key' \in [Requests -> Keys] /\ joined \subseteq joined' /\ joined' \subseteq Requests
      BY <2>1 DEF Inv, TypeOK
    <2>6. UNCHANGED <<head, stored, files, ref, want, cached, heap, obj>>
      BY <1>1
    <2> QED BY <1>2, <1>5, <2>1, <2>2, <2>3, <2>4, <2>5, <2>6, MoveOne
  <1>7. CASE Entry(r) # "sha1"
    <2>1. Land(r, "error") /\ blobs' = blobs
      BY <1>7 DEF StoreRegular
    <2>2. pc'[r] = "error"
      BY <2>1 DEF Land
    <2>3. SoloOf(r)'
      BY <1>1, <1>3, <1>4, <1>7, <2>2 DEF SoloOf
    <2>4. FilesOK'
      BY <1>1, <2>1, FilesSame
    <2> QED BY <1>1, <1>2, <1>3, <1>5, <2>1, <2>3, <2>4, BlobsSame, LandStep
  <1> QED BY <1>6, <1>7

\* The re-keyed manifest is saved, and the flight ends well.
LEMMA SaveRekeyedStep ==
    ASSUME Inv, NEW r \in Requests, SaveRekeyed(r)
    PROVE  Inv'
  <1>1. /\ UNCHANGED <<head, want, cached, heap, obj>> /\ ref' = ref /\ blobs' = blobs
        /\ spent' = spent /\ pc[r] = "save" /\ Persist(r) /\ Land(r, "reopen")
    BY DEF SaveRekeyed, At
  <1>2. pc[r] \in Filled /\ pc[r] \in Working
    BY <1>1 DEF Filled, Working
  <1>3. EntryOf(r) /\ SoloOf(r)
    BY DEF Inv, PointsOK
  <1>4. /\ Entry(r)' = Entry(r) /\ Content(r)' = Content(r)
        /\ Shares(r)' <=> Shares(r)
    BY <1>1, SeesSame
  <1>5. pc'[r] = "reopen"
    BY <1>1 DEF Land
  <1>6. SoloOf(r)'
    BY <1>1, <1>3, <1>4, <1>5 DEF SoloOf, EntryOf, Held
  <1>7. stored' \subseteq Commits /\ files' \in [Commits -> [Paths -> Digests]] /\ FilesOK'
    BY <1>1, <1>2, PersistFacts
  <1>8. spent' \in [Limited -> Nat] /\ (spent'["failure"] = 0 => spent["failure"] = 0)
    BY <1>1, NotSpent
  <1> QED BY <1>1, <1>2, <1>6, <1>7, <1>8, BlobsSame, LandStep

\* A blob flight that fails.
LEMMA BlobFailsStep ==
    ASSUME Inv, NEW r \in Requests, BlobFails(r)
    PROVE  Inv'
  <1>1. /\ UNCHANGED <<head, want, cached, heap, obj>> /\ ref' = ref /\ blobs' = blobs /\ stored' = stored
        /\ files' = files /\ pc[r] \in {"download", "verify", "save", "putBlob"} /\ Land(r, "error")
        /\ Spend("failure") /\ "failure" \in Limited /\ TypeOK
    BY DEF BlobFails, backend, Limited, Inv
  <1>2. pc[r] \in Filled /\ pc'[r] = "error"
    BY <1>1 DEF Filled, Land
  <1>3. spent' \in [Limited -> Nat] /\ spent'["failure"] # 0
    BY <1>1, SpendFacts
  <1>4. SoloOf(r)'
    BY <1>2, <1>3 DEF SoloOf
  <1>5. stored' \subseteq Commits /\ files' \in [Commits -> [Paths -> Digests]] /\ FilesOK'
    BY <1>1, FilesSame DEF TypeOK
  <1> QED BY <1>1, <1>2, <1>3, <1>4, <1>5, BlobsSame, LandStep

\* A request panics on what another one is writing: it shares the object.
LEMMA PanicStep ==
    ASSUME Inv, NEW r \in Requests, Panic(r)
    PROVE  Inv'
  <1>1. /\ UNCHANGED <<head, backend, want, cached, heap, obj, spent>> /\ Shares(r)
        /\ UNCHANGED <<head, want, cached, heap, obj>> /\ ref' = ref /\ blobs' = blobs /\ stored' = stored
        /\ files' = files /\ TypeOK
    BY DEF Panic, Shares, backend, Inv
  <1>2. Shares(r)'
    BY <1>1, SeesSame
  <1>3. spent' \in [Limited -> Nat] /\ (spent'["failure"] = 0 => spent["failure"] = 0)
    BY <1>1, NotSpent
  <1>4. CASE pc[r] \in {"entry", "open", "fetch", "keep"} /\ Goto(r, "error") /\ UNCHANGED flights
    <2>1. pc'[r] = "error"
      BY <1>1, <1>4 DEF Goto, TypeOK
    <2>2. EntryOf(r)' /\ SoloOf(r)'
      BY <1>2, <2>1 DEF EntryOf, SoloOf, Filled
    <2>3. "error" \in Points /\ "error" \notin Early /\ pc[r] \notin Early /\ "error" \notin Working /\ pc[r] # "new"
      BY <1>4 DEF Points, Ended, Early, Working, Filled
    <2>4. UNCHANGED <<head, backend, want, cached, heap, obj, flights>>
      BY <1>1, <1>4
    <2> QED BY <1>3, <1>4, <2>2, <2>3, <2>4, MoveOnly
  <1>5. CASE pc[r] = "save" /\ Land(r, "error")
    <2>1. pc[r] \in Filled /\ pc'[r] = "error"
      BY <1>5 DEF Filled, Land
    <2>2. SoloOf(r)'
      BY <1>2, <2>1 DEF SoloOf
    <2>3. stored' \subseteq Commits /\ files' \in [Commits -> [Paths -> Digests]] /\ FilesOK'
      BY <1>1, FilesSame DEF TypeOK
    <2> QED BY <1>1, <1>3, <1>5, <2>1, <2>2, <2>3, BlobsSame, LandStep
  <1> QED BY <1>4, <1>5 DEF Panic, At

\* The backfilled manifest is saved.
LEMMA PersistBackfillStep ==
    ASSUME Inv, NEW r \in Requests, PersistBackfill(r)
    PROVE  Inv'
  <1>1. /\ UNCHANGED <<head, ref, blobs, want, cached, heap, obj, mflight, bflight, key, joined, spent>>
        /\ pc[r] = "keep" /\ Persist(r) /\ TypeOK
    BY DEF PersistBackfill, At, flights, Inv
  <1>2. PICK p \in {"served", "open"} : Goto(r, p)
    BY DEF PersistBackfill
  <1>3. /\ pc'[r] = p /\ p \in Points /\ p \notin Early /\ p # "put" /\ pc[r] \notin Early
        /\ pc[r] \in Working /\ pc' \in [Requests -> Points]
        /\ \A q \in Requests \ {r} : pc'[q] = pc[q]
    BY <1>1, <1>2 DEF Goto, Points, Ended, Early, Working, Filled, TypeOK
  <1>4. stored' \subseteq Commits /\ files' \in [Commits -> [Paths -> Digests]] /\ FilesOK'
    BY <1>1, <1>3, PersistFacts
  <1>5. TypeOK'
    BY <1>1, <1>3, <1>4 DEF TypeOK
  <1>6. Entry(r)' = Entry(r)
    BY <1>1, SeesSame
  <1>7. EntryOf(r)' /\ SoloOf(r)'
    BY <1>1, <1>2, <1>3, <1>6 DEF EntryOf, SoloOf, Filled, Inv, PointsOK
  <1>8. KeyedBySha256'
    BY <1>1, BlobsSame
  <1>9. /\ \A q \in {r} : /\ pc[q] # "new" /\ pc'[q] # "put" /\ (pc'[q] \in Early <=> pc[q] \in Early)
                          /\ pc'[q] \in Working => pc[q] \in Working
        /\ \A q \in {r} : EntryOf(q)' /\ SoloOf(q)'
        /\ {r} \in SUBSET Requests
        /\ want' = want /\ obj' = obj /\ heap' = heap /\ blobs \subseteq blobs' /\ joined \subseteq joined'
        /\ spent'["failure"] = 0 => spent["failure"] = 0
    BY <1>1, <1>3, <1>7
  <1> QED BY <1>3, <1>4, <1>5, <1>8, <1>9, MoveStep

-----------------------------------------------------------------------------
(* Writing an entry of a manifest that others may share *)

\* A request writes digest d into its entry and goes on.
LEMMA WriteStep ==
    ASSUME Inv, NEW r \in Requests, NEW d \in {"sha1", "sha256", "torn"}, NEW p \in {"keep", "rekeyed", "save"},
           SetEntry(r, d), Goto(r, p), UNCHANGED <<head, backend, want, cached, obj, flights, spent>>,
           pc[r] \in Working, d = "sha1" => ListedZero(r),
           d = "sha256" => <<"sha256", Content(r)>> \in blobs \/ Identity[Object(r).commit][want[r].path] = "sha256",
           p = "save" => d = "sha256", p # "keep" => <<"sha256", Content(r)>> \in blobs
    PROVE  Inv'
  <1>0. PICK o \in Requests, x \in Paths : o = obj[r] /\ x = want[r].path
    BY WorkFacts
  <1>1. /\ UNCHANGED <<head, stored, files, ref, blobs, want, cached, obj, mflight, bflight, key, joined, spent>>
        /\ TypeOK
    BY DEF backend, flights, Inv
  <1>2. /\ heap[o] \in Manifest /\ heap[o].commit \in Commits
        /\ pc[o] \notin Early /\ FilesOf(heap[o].commit, heap[o].files)
    BY <1>0, WorkFacts DEF Object
  <1>3. /\ heap' \in [Requests -> Manifest] /\ heap'[o].commit = heap[o].commit
        /\ heap'[o].files = [heap[o].files EXCEPT ![x] = d]
        /\ \A q \in Requests \ {o} : heap'[q] = heap[q]
    <2>1. d \in Digests BY DEF Digests, Algos
    <2> QED BY <1>0, <1>1, <1>2, <2>1 DEF SetEntry, TypeOK, Manifest
  <1>4. /\ pc'[r] = p /\ p \in Points /\ p \notin Early /\ p # "put" /\ pc' \in [Requests -> Points]
        /\ \A q \in Requests \ {r} : pc'[q] = pc[q]
    BY <1>1 DEF Goto, Points, Early, TypeOK
  <1>5. heap[o].files \in [Paths -> Digests]
    BY <1>2, ManifestFacts
  <1>6. \A y \in Paths : heap'[o].files[y] = IF y = x THEN d ELSE heap[o].files[y]
    BY <1>2, <1>3, <1>5
  <1>7. TypeOK'
    BY <1>1, <1>3, <1>4 DEF TypeOK
  <1>8. WantOK' /\ KeyedBySha256'
    BY <1>1, <1>4, PointFacts DEF Inv, WantOK, KeyedBySha256, Early, Working, Filled
  <1>9. ObjOK'
    BY <1>1, <1>4, PointFacts DEF Inv, ObjOK, TypeOK
  <1>10. CommitOK'
    <2>1. \A q \in Requests : heap'[q].commit = heap[q].commit
      BY <1>3
    <2>2. \A q \in Requests : Object(q)'.commit = Object(q).commit
      BY <1>1, <2>1 DEF Object, TypeOK
    <2> QED BY <1>4, <2>1, <2>2 DEF Inv, CommitOK
  <1>11. FilesOK'
    <2>1. /\ d = "sha1" => Listed[heap[o].commit][x] = "zero"
          /\ d = "sha256" => <<"sha256", ContentAt[heap[o].commit][x]>> \in blobs \/ Identity[heap[o].commit][x] = "sha256"
      BY <1>0 DEF Content, ListedZero, Object
    <2>2. FilesOf(heap[o].commit, heap[o].files)'
      BY <1>1, <1>2, <1>3, <1>6, <2>1 DEF FilesOf
    <2>3. \A q \in Requests : heap'[q].commit \in Commits => FilesOf(heap[q].commit, heap[q].files)'
      <3> SUFFICES ASSUME NEW q \in Requests \ {o}, heap'[q].commit \in Commits
                   PROVE  FilesOf(heap[q].commit, heap[q].files)'
        BY <2>2
      <3>1. FilesOf(heap[q].commit, heap[q].files)
        BY <1>3 DEF Inv, FilesOK
      <3> QED BY <1>1, <1>3, <3>1 DEF FilesOf
    <2>4. /\ \A c \in Commits : FilesOf(c, files[c])'
          /\ \A q \in Requests : /\ cached'[q].commit \in Commits => FilesOf(cached[q].commit, cached[q].files)'
                                 /\ cached'[q] # NoManifest => cached'[q].commit \in Commits
      BY <1>1 DEF Inv, FilesOK, FilesOf
    <2> QED BY <2>3, <2>4 DEF FilesOK
  <1>12. PointsOK'
    <2> SUFFICES ASSUME NEW q \in Requests PROVE EntryOf(q)' /\ SoloOf(q)'
      BY DEF PointsOK
    <2>1. Shares(q) => Shares(q)'
      BY <1>1 DEF Shares
    <2>2. CASE obj[q] # o
      <3>1. q # r /\ heap'[obj[q]] = heap[obj[q]]
        BY <1>0, <1>1, <1>3, <2>2 DEF TypeOK
      <3> QED BY <1>1, <1>4, <2>1, <3>1, PointKept
    <2>3. CASE obj[q] = o
      <3>1. /\ Object(q)' = heap'[o] /\ Object(q) = heap[o] /\ Content(q)' = Content(q)
            /\ ListedZero(q)' <=> ListedZero(q)
        BY <1>1, <1>3, <2>3 DEF Object, Content, ListedZero
      <3>2. want[q].path \in Paths => Entry(q)' = IF want[q].path = x THEN d ELSE Entry(q)
        BY <1>1, <1>6, <3>1 DEF Entry
      <3>3. want[q].path = x => (ListedZero(q) <=> ListedZero(r)) /\ Content(q) = Content(r)
        BY <1>0, <2>3 DEF ListedZero, Content, Object
      <3>4. CASE q = r
        <4>1. Entry(q)' = d
          BY <1>0, <3>2, <3>4
        <4> QED BY <1>1, <1>4, <3>1, <3>4, <4>1 DEF EntryOf, SoloOf
      <3>5. CASE q # r
        <4>1. Shares(q)'
          BY <1>0, <1>1, <2>3, <3>5 DEF Shares
        <4>2. EntryOf(q) /\ SoloOf(q) /\ pc'[q] = pc[q]
          BY <1>4, <3>5 DEF Inv, PointsOK
        <4>3. pc[q] \in Working => want[q].path \in Paths
          BY WorkFacts
        <4>4. EntryOf(q)'
          BY <1>1, <3>1, <3>2, <3>3, <4>2, <4>3, PointFacts DEF EntryOf, Filled, Working
        <4>5. SoloOf(q)'
          BY <1>1, <4>1, <4>2 DEF SoloOf
        <4> QED BY <4>4, <4>5
      <3> QED BY <3>4, <3>5
    <2> QED BY <2>2, <2>3
  <1> QED BY <1>7, <1>8, <1>9, <1>10, <1>11, <1>12 DEF Inv

\* Backfilling and re-keying an entry.
LEMMA WriteSteps ==
    ASSUME Inv, NEW r \in Requests, Backfill(r) \/ Rekey(r)
    PROVE  Inv'
  <1>1. UNCHANGED <<head, backend, want, cached, obj, flights, spent>> /\ EntryOf(r)
    BY DEF Backfill, Rekey, WriteEntry, Inv, PointsOK
  <1>2. CASE Backfill(r)
    <2>1. pc[r] = "fill" /\ Goto(r, "keep") /\ SetEntry(r, Identity[Object(r).commit][want[r].path])
      BY <1>2 DEF Backfill, WriteEntry, At
    <2>2. pc[r] \in Working /\ ListedZero(r)
      BY <1>1, <2>1 DEF Working, EntryOf
    <2>3. PICK d \in {"sha1", "sha256"} : d = Identity[Object(r).commit][want[r].path]
      BY <2>2, WorkFacts, UpstreamFacts
    <2>4. SetEntry(r, d)
      BY <2>1, <2>3
    <2> QED BY <1>1, <2>1, <2>2, <2>3, <2>4, WriteStep
  <1>3. CASE WriteEntry(r, "rekey", "rekeyed", "torn")
    <2>1. pc[r] = "rekey" /\ Goto(r, "rekeyed") /\ SetEntry(r, "torn")
      BY <1>3 DEF WriteEntry, At
    <2>2. pc[r] \in Working /\ <<"sha256", Content(r)>> \in blobs
      BY <1>1, <2>1 DEF Working, Filled, EntryOf
    <2> QED BY <1>1, <2>1, <2>2, WriteStep
  <1>4. CASE WriteEntry(r, "rekeyed", "save", "sha256")
    <2>1. pc[r] = "rekeyed" /\ Goto(r, "save") /\ SetEntry(r, "sha256")
      BY <1>4 DEF WriteEntry, At
    <2>2. pc[r] \in Working /\ <<"sha256", Content(r)>> \in blobs
      BY <1>1, <2>1 DEF Working, Filled, EntryOf
    <2> QED BY <1>1, <2>1, <2>2, WriteStep
  <1> QED BY <1>2, <1>3, <1>4 DEF Rekey

-----------------------------------------------------------------------------
(* Getting a manifest *)

\* A request in search of a manifest is the only one to know its object.
LEMMA OwnObject ==
    ASSUME Inv, NEW r \in Requests, pc[r] \in Early
    PROVE  obj[r] = r /\ \A q \in Requests \ {r} : obj[q] # r
  <1>1. obj[r] = r
    BY DEF Inv, ObjOK
  <1>2. ASSUME NEW q \in Requests \ {r} PROVE obj[q] # r
    BY DEF Inv, ObjOK
  <1> QED BY <1>1, <1>2

\* A request gets a manifest object of its own.
LEMMA OwnStep ==
    ASSUME Inv, NEW r \in Requests, NEW m \in Manifest, NEW p \in {"entry", "put"},
           pc[r] \in Early, pc[r] # "new", m.commit \in Commits, FilesOf(m.commit, m.files),
           heap' = [heap EXCEPT ![r] = m], Goto(r, p),
           UNCHANGED <<head, backend, want, cached, obj, flights, spent>>
    PROVE  Inv'
  <1>1. /\ UNCHANGED <<head, stored, files, ref, blobs, want, cached, obj, mflight, bflight, key, joined, spent>>
        /\ TypeOK
    BY DEF backend, flights, Inv
  <1>2. obj[r] = r /\ \A q \in Requests \ {r} : obj[q] # r
    BY OwnObject
  <1>3. heap' \in [Requests -> Manifest] /\ heap'[r] = m /\ \A q \in Requests \ {r} : heap'[q] = heap[q]
    BY <1>1 DEF TypeOK
  <1>4. /\ pc'[r] = p /\ p \in Points /\ pc' \in [Requests -> Points]
        /\ \A q \in Requests \ {r} : pc'[q] = pc[q]
    BY <1>1 DEF Goto, Points, TypeOK
  <1>5. TypeOK'
    BY <1>1, <1>3, <1>4 DEF TypeOK
  <1>6. WantOK' /\ KeyedBySha256'
    BY <1>1, <1>4 DEF Inv, WantOK, KeyedBySha256
  <1>7. ObjOK'
    BY <1>1, <1>2, <1>4 DEF Inv, ObjOK, TypeOK, Early
  <1>8. CommitOK'
    BY <1>1, <1>2, <1>3, <1>4 DEF Inv, CommitOK, Object, TypeOK
  <1>9. FilesOK'
    <2>1. \A q \in Requests : heap'[q].commit \in Commits => FilesOf(heap[q].commit, heap[q].files)'
      BY <1>1, <1>3 DEF Inv, FilesOK, FilesOf
    <2>2. /\ \A c \in Commits : FilesOf(c, files[c])'
          /\ \A q \in Requests : /\ cached'[q].commit \in Commits => FilesOf(cached[q].commit, cached[q].files)'
                                 /\ cached'[q] # NoManifest => cached'[q].commit \in Commits
      BY <1>1 DEF Inv, FilesOK, FilesOf
    <2> QED BY <2>1, <2>2 DEF FilesOK
  <1>10. PointsOK'
    <2> SUFFICES ASSUME NEW q \in Requests PROVE EntryOf(q)' /\ SoloOf(q)'
      BY DEF PointsOK
    <2>1. CASE q = r
      BY <1>4, <2>1 DEF EntryOf, SoloOf, Filled
    <2>2. CASE q # r
      <3>1. obj[q] \in Requests /\ heap'[obj[q]] = heap[obj[q]]
        BY <1>1, <1>2, <1>3, <2>2 DEF TypeOK
      <3>2. Shares(q) => Shares(q)'
        BY <1>1 DEF Shares
      <3> QED BY <1>1, <1>4, <2>2, <3>1, <3>2, PointKept
    <2> QED BY <2>1, <2>2
  <1> QED BY <1>5, <1>6, <1>7, <1>8, <1>9, <1>10 DEF Inv

\* A local manifest, or upstream's listing.
LEMMA OwnSteps ==
    ASSUME Inv, NEW r \in Requests, LocalHit(r) \/ GetModelInfo(r)
    PROVE  Inv'
  <1>1. UNCHANGED <<head, backend, want, cached, obj, flights, spent>> /\ TypeOK
    BY DEF LocalHit, GetModelInfo, Inv
  <1>2. pc[r] \in {"resolve", "info"} /\ pc[r] \in Early /\ pc[r] # "new"
    BY DEF LocalHit, GetModelInfo, At, Early
  <1>3. want[r].rev \in Revisions
    BY <1>2 DEF Inv, WantOK
  <1>4. CASE LocalHit(r)
    <2>1. PICK c \in Commits : c = Local(want[r].rev)
      BY <1>1, <1>3, <1>4 DEF LocalHit, Local, TypeOK, Revisions
    <2>2. heap' = [heap EXCEPT ![r] = Decoded(c)] /\ Goto(r, "entry")
      BY <1>4, <2>1 DEF LocalHit
    <2>3. /\ Decoded(c) \in Manifest /\ Decoded(c).commit = c /\ Decoded(c).files = files[c]
          /\ FilesOf(c, files[c])
      BY <1>1, ManifestFacts DEF Decoded, TypeOK, Inv, FilesOK
    <2> QED BY <1>1, <1>2, <2>2, <2>3, OwnStep
  <1>5. CASE GetModelInfo(r)
    <2>1. PICK c \in Commits : c = IF want[r].rev = Main THEN head ELSE want[r].rev
      BY <1>1, <1>3 DEF TypeOK, Revisions
    <2>2. heap' = [heap EXCEPT ![r] = ManifestFromModelInfo(c)] /\ Goto(r, "put")
      BY <1>5, <2>1 DEF GetModelInfo
    <2>3. /\ ManifestFromModelInfo(c) \in Manifest /\ ManifestFromModelInfo(c).commit = c
          /\ ManifestFromModelInfo(c).files = Listed[c]
      BY ManifestFacts, UpstreamFacts DEF ManifestFromModelInfo
    <2>4. FilesOf(c, Listed[c])
      BY UpstreamFacts DEF FilesOf
    <2> QED BY <1>1, <1>2, <2>2, <2>3, <2>4, OwnStep
  <1> QED BY <1>4, <1>5

\* The requests of a manifest flight are all still in search of one.
LEMMA FlightFacts ==
    ASSUME Inv, NEW r \in Requests, pc[r] \in {"info", "put"}
    PROVE  /\ r \in Flight(r) /\ Flight(r) \subseteq Requests
           /\ \A q \in Flight(r) : pc[q] \in Early /\ pc[q] # "new" /\ obj[q] = q
           /\ \A q \in Requests \ Flight(r) : obj[q] \in Requests \ Flight(r)
  <1>1. r \in Flight(r) /\ Flight(r) \subseteq Requests
    BY DEF Flight
  <1>2. ASSUME NEW q \in Flight(r) PROVE pc[q] \in Early /\ pc[q] # "new" /\ obj[q] = q
    <2>1. pc[q] \in Early /\ pc[q] # "new" /\ q \in Requests
      BY DEF Flight, At, Early
    <2> QED BY <2>1, OwnObject
  <1>3. ASSUME NEW q \in Requests \ Flight(r) PROVE obj[q] \in Requests \ Flight(r)
    <2>1. obj[q] \in Requests
      BY DEF Inv, TypeOK
    <2>2. ASSUME obj[q] \in Flight(r) PROVE FALSE
      <3>1. pc[obj[q]] \in Early /\ q # obj[q]
        BY <1>2, <2>2
      <3> QED BY <2>1, <3>1, OwnObject
    <2> QED BY <2>1, <2>2
  <1> QED BY <1>1, <1>2, <1>3

\* The leader saves the fetched manifest and everyone gets its object.
LEMMA PutFetchedStep ==
    ASSUME Inv, NEW r \in Requests, PutFetched(r)
    PROVE  Inv'
  <1>1. /\ UNCHANGED <<head, blobs, want, cached, heap, bflight, key, joined, spent>> /\ TypeOK
        /\ pc[r] = "put" /\ obj' = [q \in Requests |-> IF q \in Flight(r) THEN r ELSE obj[q]]
        /\ pc' = [q \in Requests |-> IF q \in Flight(r) THEN "entry" ELSE pc[q]]
        /\ mflight' = [mflight EXCEPT ![want[r].rev] = None]
        /\ stored' = stored \cup {heap[r].commit} /\ files' = [files EXCEPT ![heap[r].commit] = heap[r].files]
        /\ ref' = IF want[r].rev = Main THEN heap[r].commit ELSE ref
    BY DEF PutFetched, At, Inv
  <1>2. /\ r \in Flight(r) /\ Flight(r) \subseteq Requests
        /\ \A q \in Flight(r) : pc[q] \in Early /\ pc[q] # "new" /\ obj[q] = q
        /\ \A q \in Requests \ Flight(r) : obj[q] \in Requests \ Flight(r)
    BY <1>1, FlightFacts
  <1>3. /\ heap[r] \in Manifest /\ heap[r].commit \in Commits /\ heap[r].files \in [Paths -> Digests]
        /\ FilesOf(heap[r].commit, heap[r].files)
    BY <1>1, ManifestFacts DEF Inv, CommitOK, TypeOK, FilesOK
  <1>4. /\ files' \in [Commits -> [Paths -> Digests]]
        /\ \A c \in Commits : files'[c] = IF c = heap[r].commit THEN heap[r].files ELSE files[c]
    BY <1>1, <1>3 DEF TypeOK
  <1>5. TypeOK'
    <2>1. "entry" \in Points BY DEF Points
    <2>2. pc' \in [Requests -> Points] /\ obj' \in [Requests -> Requests]
      BY <1>1, <2>1 DEF TypeOK
    <2>3. mflight' \in [Revisions -> Requests \cup {None}] /\ stored' \subseteq Commits /\ ref' \in Commits \cup {None}
      BY <1>1, <1>3 DEF TypeOK
    <2> QED BY <1>1, <1>4, <2>2, <2>3 DEF TypeOK
  <1>6. WantOK' /\ KeyedBySha256'
    BY <1>1, <1>2 DEF Inv, WantOK, KeyedBySha256
  <1>7. ObjOK'
    <2>1. "entry" \notin Early BY DEF Early
    <2> QED BY <1>1, <1>2, <2>1 DEF Inv, ObjOK
  <1>8. CommitOK'
    BY <1>1, <1>2, <1>3 DEF Inv, CommitOK, Object
  <1>9. FilesOK'
    BY <1>1, <1>3, <1>4 DEF Inv, FilesOK, FilesOf
  <1>10. PointsOK'
    <2> SUFFICES ASSUME NEW q \in Requests PROVE EntryOf(q)' /\ SoloOf(q)'
      BY DEF PointsOK
    <2>1. CASE q \in Flight(r)
      <3>1. pc'[q] = "entry" BY <1>1, <2>1
      <3> QED BY <3>1 DEF EntryOf, SoloOf, Filled
    <2>2. CASE q \notin Flight(r)
      <3>1. pc'[q] = pc[q] /\ obj'[q] = obj[q]
        BY <1>1, <2>2
      <3>2. Shares(q) => Shares(q)'
        BY <1>1, <1>2, <2>2 DEF Shares
      <3> QED BY <1>1, <3>1, <3>2, PointKept
    <2> QED BY <2>1, <2>2
  <1> QED BY <1>5, <1>6, <1>7, <1>8, <1>9, <1>10 DEF Inv

\* The fetch fails, and the flight falls back on stale copies.
LEMMA FetchFailsStep ==
    ASSUME Inv, NEW r \in Requests, FetchFails(r)
    PROVE  Inv'
  <1>1. /\ UNCHANGED <<head, stored, files, ref, blobs, want, cached, obj, bflight, key, joined>> /\ TypeOK
        /\ pc[r] \in {"info", "put"} /\ Spend("failure") /\ "failure" \in Limited
        /\ heap' = [q \in Requests |-> IF q \in Flight(r) THEN cached[q] ELSE heap[q]]
        /\ mflight' = [mflight EXCEPT ![want[r].rev] = None]
    BY DEF FetchFails, backend, Limited, Inv
  <1>2. pc' = [q \in Requests |-> IF q \notin Flight(r) THEN pc[q]
                                  ELSE IF cached[q] # NoManifest THEN "entry" ELSE "error"]
    BY DEF FetchFails
  <1>3. /\ r \in Flight(r) /\ Flight(r) \subseteq Requests
        /\ \A q \in Flight(r) : pc[q] \in Early /\ pc[q] # "new" /\ obj[q] = q
        /\ \A q \in Requests \ Flight(r) : obj[q] \in Requests \ Flight(r)
    BY <1>1, FlightFacts
  <1>4. spent' \in [Limited -> Nat] /\ spent'["failure"] # 0
    BY <1>1, SpendFacts
  <1>5. TypeOK'
    <2>1. "entry" \in Points /\ "error" \in Points BY DEF Points, Ended
    <2>2. pc' \in [Requests -> Points] /\ heap' \in [Requests -> Manifest]
      BY <1>1, <1>2, <2>1 DEF TypeOK
    <2>3. mflight' \in [Revisions -> Requests \cup {None}]
      BY <1>1 DEF TypeOK
    <2> QED BY <1>1, <1>4, <2>2, <2>3 DEF TypeOK
  <1>6. WantOK' /\ KeyedBySha256'
    BY <1>1, <1>2, <1>3 DEF Inv, WantOK, KeyedBySha256
  <1>7. ObjOK'
    <2>1. "entry" \notin Early /\ "error" \notin Early BY DEF Early
    <2> QED BY <1>1, <1>2, <1>3, <2>1 DEF Inv, ObjOK
  <1>8. CommitOK'
    <2>1. "error" \notin Working BY DEF Working, Filled
    <2>2. \A q \in Requests : cached[q] # NoManifest => cached[q].commit \in Commits
      BY DEF Inv, FilesOK
    <2> QED BY <1>1, <1>2, <1>3, <2>1, <2>2 DEF Inv, CommitOK, Object
  <1>9. FilesOK'
    <2>1. \A q \in Requests : heap'[q].commit \in Commits => FilesOf(heap[q].commit, heap[q].files)'
      BY <1>1 DEF Inv, FilesOK, FilesOf
    <2>2. /\ \A c \in Commits : FilesOf(c, files[c])'
          /\ \A q \in Requests : /\ cached'[q].commit \in Commits => FilesOf(cached[q].commit, cached[q].files)'
                                 /\ cached'[q] # NoManifest => cached'[q].commit \in Commits
      BY <1>1 DEF Inv, FilesOK, FilesOf
    <2> QED BY <2>1, <2>2 DEF FilesOK
  <1>10. PointsOK'
    <2> SUFFICES ASSUME NEW q \in Requests PROVE EntryOf(q)' /\ SoloOf(q)'
      BY DEF PointsOK
    <2>1. CASE q \in Flight(r)
      <3>1. pc'[q] \in {"entry", "error"} BY <1>2, <2>1
      <3> QED BY <1>4, <3>1 DEF EntryOf, SoloOf, Filled
    <2>2. CASE q \notin Flight(r)
      <3>1. pc'[q] = pc[q] /\ heap'[obj[q]] = heap[obj[q]]
        BY <1>1, <1>2, <1>3, <2>2
      <3>2. Shares(q) => Shares(q)'
        BY <1>1 DEF Shares
      <3> QED BY <1>1, <1>4, <3>1, <3>2, PointKept
    <2> QED BY <2>1, <2>2
  <1> QED BY <1>5, <1>6, <1>7, <1>8, <1>9, <1>10 DEF Inv

-----------------------------------------------------------------------------
(* Requests, upstream and the process *)

\* A request arrives.
LEMMA RequestStep ==
    ASSUME Inv, NEW r \in Requests, NEW v \in Revisions, NEW p \in Paths, NEW method \in {"GET", "HEAD"},
           Request(r, v, p, method)
    PROVE  Inv'
  <1> DEFINE w == [rev |-> v, path |-> p, method |-> method]
  <1>1. /\ UNCHANGED <<head, stored, files, ref, blobs, cached, heap, obj, mflight, bflight, key, joined, spent>>
        /\ TypeOK /\ pc[r] = "new" /\ Goto(r, "resolve") /\ want' = [want EXCEPT ![r] = w]
    BY DEF Request, At, backend, flights, Inv
  <1>2. w \in Want /\ w.rev = v /\ w.path = p
    BY DEF Want
  <1> HIDE DEF w
  <1>3. /\ pc' \in [Requests -> Points] /\ pc'[r] = "resolve" /\ \A q \in Requests \ {r} : pc'[q] = pc[q]
        /\ want' \in [Requests -> Want] /\ want'[r] = w /\ \A q \in Requests \ {r} : want'[q] = want[q]
    BY <1>1, <1>2 DEF Goto, TypeOK, Points
  <1>4. TypeOK'
    BY <1>1, <1>3 DEF TypeOK
  <1>5. WantOK' /\ KeyedBySha256'
    BY <1>1, <1>2, <1>3 DEF Inv, WantOK, KeyedBySha256
  <1>6. ObjOK'
    BY <1>1, <1>3 DEF Inv, ObjOK, TypeOK, Early
  <1>7. CommitOK'
    BY <1>1, <1>3 DEF Inv, CommitOK, Object, Working, Filled
  <1>8. FilesOK'
    BY <1>1, FilesSame
  <1>9. PointsOK'
    <2> SUFFICES ASSUME NEW q \in Requests PROVE EntryOf(q)' /\ SoloOf(q)'
      BY DEF PointsOK
    <2>1. CASE q = r
      BY <1>3, <2>1 DEF EntryOf, SoloOf, Filled
    <2>2. CASE q # r
      <3>1. Shares(q) => Shares(q)'
        BY <1>1 DEF Shares
      <3> QED BY <1>1, <1>3, <2>2, <3>1, PointKept
    <2> QED BY <2>1, <2>2
  <1> QED BY <1>4, <1>5, <1>6, <1>7, <1>8, <1>9 DEF Inv

\* Someone pushes to upstream.
LEMMA PushStep ==
    ASSUME Inv, NEW c \in Commits, Push(c)
    PROVE  Inv'
  <1>1. /\ UNCHANGED <<stored, files, ref, blobs, want, pc, cached, heap, obj, mflight, bflight, key, joined>>
        /\ TypeOK /\ head' = c /\ Spend("push") /\ "push" \in Limited
    BY DEF Push, backend, flights, Inv, Limited
  <1>2. spent' \in [Limited -> Nat] /\ (spent'["failure"] = 0 => spent["failure"] = 0)
    BY <1>1, SpendFacts
  <1>3. TypeOK'
    BY <1>1, <1>2 DEF TypeOK
  <1>4. FilesOK' /\ KeyedBySha256'
    BY <1>1, FilesSame, BlobsSame
  <1>5. /\ {} \in SUBSET Requests /\ want' = want /\ obj' = obj /\ heap' = heap /\ blobs \subseteq blobs'
        /\ joined \subseteq joined' /\ \A q \in Requests \ {} : pc'[q] = pc[q]
    BY <1>1
  <1> QED BY <1>2, <1>3, <1>4, <1>5, MoveStep

\* The process dies, and its requests with it.
LEMMA CrashStep ==
    ASSUME Inv, Crash
    PROVE  Inv'
  <1>1. /\ UNCHANGED <<head, stored, files, ref, blobs, want, cached, heap, obj, key, joined>> /\ TypeOK
        /\ pc' = [r \in Requests |-> IF pc[r] \in Ended \cup {"new"} THEN pc[r] ELSE "lost"]
        /\ mflight' = [v \in Revisions |-> None] /\ bflight' = [k \in Keys |-> None]
        /\ Spend("crash") /\ "crash" \in Limited
    BY DEF Crash, backend, Inv, Limited
  <1>2. spent' \in [Limited -> Nat] /\ (spent'["failure"] = 0 => spent["failure"] = 0)
    BY <1>1, SpendFacts
  <1>3. "lost" \in Points /\ "lost" \notin Early /\ "lost" \notin Working /\ "lost" # "new"
    BY DEF Points, Ended, Early, Working, Filled
  <1>4. TypeOK'
    <2>1. pc' \in [Requests -> Points]
      BY <1>1, <1>3 DEF TypeOK
    <2> QED BY <1>1, <1>2, <2>1 DEF TypeOK
  <1>5. WantOK'
    BY <1>1 DEF Inv, WantOK
  <1>6. FilesOK' /\ KeyedBySha256'
    BY <1>1, FilesSame, BlobsSame
  <1>7. ObjOK'
    <2>1. "new" \in Early /\ \A p \in Ended : p \notin Early
      BY DEF Ended, Early
    <2> QED BY <1>1, <1>3, <2>1 DEF Inv, ObjOK, TypeOK
  <1>8. CommitOK'
    <2>1. "put" \notin Ended \cup {"new"} /\ \A p \in Ended \cup {"new"} : p \notin Working
      BY DEF Ended, Working, Filled
    <2> QED BY <1>1, <1>3, <2>1 DEF CommitOK
  <1>9. PointsOK'
    <2> SUFFICES ASSUME NEW q \in Requests PROVE EntryOf(q)' /\ SoloOf(q)'
      BY DEF PointsOK
    <2>1. CASE pc'[q] = "lost"
      BY <2>1 DEF EntryOf, SoloOf, Filled
    <2>2. CASE pc'[q] # "lost"
      <3>1. pc'[q] = pc[q]
        BY <1>1, <2>2
      <3>2. Shares(q) => Shares(q)'
        BY <1>1 DEF Shares
      <3> QED BY <1>1, <1>2, <3>1, <3>2, PointKept
    <2> QED BY <2>1, <2>2
  <1> QED BY <1>4, <1>5, <1>6, <1>7, <1>8, <1>9 DEF Inv

-----------------------------------------------------------------------------
(* The theorems *)

\* No request, no manifest and no blob.
LEMMA InitInv == Init => Inv
  <1> SUFFICES ASSUME Init PROVE Inv
    OBVIOUS
  <1>1. NoManifest \in Manifest /\ NoManifest.commit = None /\ NoManifest.files = [p \in Paths |-> "absent"]
    BY ManifestFacts DEF NoManifest
  <1>2. None \notin Commits
    BY NoneAssumption
  <1>3. TypeOK
    <2>1. files \in [Commits -> [Paths -> Digests]] /\ cached \in [Requests -> Manifest]
          /\ heap \in [Requests -> Manifest]
      BY <1>1 DEF Init, Digests
    <2>2. want \in [Requests -> Want] /\ pc \in [Requests -> Points]
      BY DEF Init, Want, Points
    <2>3. <<"zero", CHOOSE x \in Contents : TRUE>> \in Keys
      BY UpstreamAssumption DEF Keys, Digests
    <2>4. key \in [Requests -> Keys]
      BY <2>3 DEF Init
    <2>5. /\ mflight \in [Revisions -> Requests \cup {None}] /\ bflight \in [Keys -> Requests \cup {None}]
          /\ obj \in [Requests -> Requests] /\ spent \in [Limited -> Nat]
          /\ head \in Commits /\ stored \subseteq Commits /\ ref \in Commits \cup {None} /\ blobs \subseteq Keys
          /\ joined \subseteq Requests
      BY DEF Init
    <2> QED BY <2>1, <2>2, <2>4, <2>5 DEF TypeOK
  <1>4. WantOK /\ ObjOK /\ KeyedBySha256
    BY DEF Init, WantOK, ObjOK, KeyedBySha256, Early
  <1>5. CommitOK
    BY DEF Init, CommitOK, Working, Filled
  <1>6. FilesOK
    BY <1>1, <1>2 DEF Init, FilesOK, FilesOf
  <1>7. PointsOK
    BY DEF Init, PointsOK, EntryOf, SoloOf, Filled
  <1> QED BY <1>3, <1>4, <1>5, <1>6, <1>7 DEF Inv

\* Nothing happens.
LEMMA StutterInv ==
    ASSUME Inv, UNCHANGED vars
    PROVE  Inv'
  <1>1. UNCHANGED <<head, stored, files, ref, blobs, want, pc, cached, heap, obj, mflight, bflight, key,
                    joined, spent>> /\ TypeOK
    BY DEF vars, backend, flights, Inv
  <1>2. TypeOK'
    BY <1>1 DEF TypeOK
  <1>3. FilesOK' /\ KeyedBySha256'
    BY <1>1, FilesSame, BlobsSame
  <1>4. /\ {} \in SUBSET Requests /\ want' = want /\ obj' = obj /\ heap' = heap /\ blobs \subseteq blobs'
        /\ joined \subseteq joined' /\ \A q \in Requests \ {} : pc'[q] = pc[q]
        /\ spent'["failure"] = 0 => spent["failure"] = 0
    BY <1>1
  <1> QED BY <1>2, <1>3, <1>4, MoveStep

\* Every step keeps the invariant.
LEMMA NextInv == Inv /\ [Next]_vars => Inv'
  <1> SUFFICES ASSUME Inv, [Next]_vars PROVE Inv'
    OBVIOUS
  <1>1. ASSUME NEW r \in Requests, Step(r) PROVE Inv'
    <2>1. CASE LocalHit(r) \/ GetModelInfo(r) \/ LocalMiss(r) \/ PutFetched(r)
      BY <2>1, OwnSteps, LocalMissStep, PutFetchedStep
    <2>2. CASE EnsureEntry(r) \/ StatFile(r) \/ Backfill(r) \/ Rekey(r) \/ PersistBackfill(r)
      BY <2>2, EntrySteps, WriteSteps, PersistBackfillStep
    <2>3. CASE OpenBlob(r) \/ OpenUpstream(r) \/ Algo(r) \/ Reopen(r) \/ FetchBlob(r)
      BY <2>3, OpenSteps, FetchBlobStep
    <2>4. CASE PutBlob(r) \/ StoreRegular(r) \/ SaveRekeyed(r)
      BY <2>4, PutBlobStep, StoreRegularStep, SaveRekeyedStep
    <2> QED BY <1>1, <2>1, <2>2, <2>3, <2>4 DEF Step
  <1>2. ASSUME NEW r \in Requests,
               Panic(r) \/ LocalFails(r) \/ FetchFails(r) \/ EntryFails(r) \/ BlobFails(r)
        PROVE  Inv'
    BY <1>2, PanicStep, LocalFailsStep, FetchFailsStep, EntrySteps, BlobFailsStep
  <1>3. ASSUME NEW r \in Requests, NEW v \in Revisions, NEW p \in Paths, NEW method \in {"GET", "HEAD"},
               Request(r, v, p, method)
        PROVE  Inv'
    BY <1>3, RequestStep
  <1>4. CASE Next
    BY <1>1, <1>2, <1>3, <1>4, PushStep, CrashStep DEF Next
  <1>5. CASE UNCHANGED vars
    BY <1>5, StutterInv
  <1> QED BY <1>4, <1>5

\* The inductive invariant holds in every behaviour.
LEMMA InvHolds == Spec => []Inv
  BY InitInv, NextInv, PTL DEF Spec

\* Every variable keeps the type of its Go counterpart.
THEOREM TypeCorrect == Spec => []TypeOK
  <1>1. Inv => TypeOK BY DEF Inv
  <1> QED BY <1>1, InvHolds, PTL

\* A blob that is stored under another key than its sha256 belongs to a file whose
\* listing had no blob details: only such a file's entry can be backfilled with the
\* sha1 between the two reads of it in the flight (fetchBlob and PutBlob).
THEOREM StorageKeyed == Spec => []KeyedBySha256
  <1>1. Inv => KeyedBySha256 BY DEF Inv
  <1> QED BY <1>1, InvHolds, PTL

\* A saved manifest names a regular file by its sha256 only when that blob is
\* there: storeRegularBlob puts the blob before it writes the entry that any sharer
\* of the manifest may save, and a crash in between loses only the key.
THEOREM RekeyAfterBlob == Spec => []RekeyedPresent
  <1>1. Inv => RekeyedPresent
    BY DEF Inv, TypeOK, FilesOK, FilesOf, RekeyedPresent
  <1> QED BY <1>1, InvHolds, PTL

\* Without a failure, a request that shares neither its manifest object nor its
\* download with another one is answered, whatever the others do.
THEOREM SoloAnswered == Spec => []SoloServed
  <1>1. Inv => SoloServed
    BY DEF Inv, PointsOK, SoloOf, SoloServed, At
  <1> QED BY <1>1, InvHolds, PTL

-----------------------------------------------------------------------------
(* singleflight *)

\* A request moves on within its fetch or outside of any.
LEMMA FlightsKept ==
    ASSUME FlightsLed, NEW r \in Requests, want' = want, UNCHANGED flights,
           \A q \in Requests \ {r} : pc'[q] = pc[q],
           pc'[r] \in Fetching <=> pc[r] \in Fetching, pc'[r] \in Pulling <=> pc[r] \in Pulling,
           pc'[r] \notin {"wait", "join"}
    PROVE  FlightsLed'
  BY DEF FlightsLed, flights, At

\* A call of manifestSF.Do begins a fetch or waits for one.
LEMMA FetchManifestFlights ==
    ASSUME Inv, FlightsLed, NEW r \in Requests, At(r, "resolve"), FetchManifest(r)
    PROVE  FlightsLed'
  <1> DEFINE v == want[r].rev
  <1>1. v \in Revisions /\ pc \in [Requests -> Points] /\ mflight \in [Revisions -> Requests \cup {None}]
    BY DEF Inv, TypeOK, WantOK, At
  <1>2. want' = want /\ bflight' = bflight /\ key' = key /\ pc[r] = "resolve"
    BY DEF FetchManifest, At
  <1>3. CASE mflight[v] = None
    <2>1. /\ mflight' = [mflight EXCEPT ![v] = r] /\ pc'[r] = "info"
          /\ \A q \in Requests \ {r} : pc'[q] = pc[q]
      BY <1>1, <1>3 DEF FetchManifest, Goto
    <2>2. \A q \in Requests : ~(pc[q] \in Fetching /\ want[q].rev = v)
      BY <1>1, <1>3, NoneAssumption DEF FlightsLed
    <2>3. \A w \in Revisions, q \in Requests :
             mflight'[w] = q <=> pc'[q] \in Fetching /\ want'[q].rev = w
      <3> SUFFICES ASSUME NEW w \in Revisions, NEW q \in Requests
                   PROVE  mflight'[w] = q <=> pc'[q] \in Fetching /\ want[q].rev = w
        BY <1>2
      <3>1. CASE q = r
        BY <1>1, <1>2, <2>1, <3>1 DEF FlightsLed, Fetching
      <3>2. CASE q # r /\ w = v
        BY <1>1, <2>1, <2>2, <3>2
      <3>3. CASE q # r /\ w # v
        BY <1>1, <2>1, <3>3 DEF FlightsLed
      <3> QED BY <3>1, <3>2, <3>3
    <2>4. \A k \in Keys, q \in Requests : bflight'[k] = q <=> pc'[q] \in Pulling /\ key'[q] = k
      BY <1>2, <2>1 DEF FlightsLed, Pulling
    <2>5. \A q \in Requests : /\ pc'[q] = "wait" => mflight'[want'[q].rev] # None
                              /\ pc'[q] = "join" => bflight'[key'[q]] # None
      <3> SUFFICES ASSUME NEW q \in Requests, pc'[q] \in {"wait", "join"}
                   PROVE  /\ pc'[q] = "wait" => mflight'[want[q].rev] # None
                          /\ pc'[q] = "join" => bflight[key[q]] # None
        BY <1>2
      <3>1. q # r /\ pc'[q] = pc[q] /\ want[q].rev \in Revisions
        BY <2>1 DEF Inv, WantOK
      <3> QED BY <1>1, <2>1, <3>1, NoneAssumption DEF FlightsLed, At
    <2> QED BY <2>3, <2>4, <2>5 DEF FlightsLed, At
  <1>4. CASE mflight[v] # None
    <2>1. mflight' = mflight /\ pc'[r] = "wait" /\ \A q \in Requests \ {r} : pc'[q] = pc[q]
      BY <1>1, <1>4 DEF FetchManifest, Goto
    <2> QED BY <1>2, <1>4, <2>1 DEF FlightsLed, Fetching, Pulling, At
  <1> QED BY <1>3, <1>4

\* The function of a manifest flight returns: its leader and all who wait go on.
LEMMA ManifestFlightEnds ==
    ASSUME Inv, FlightsLed, NEW r \in Requests, pc[r] \in Fetching,
           want' = want, bflight' = bflight, key' = key,
           mflight' = [mflight EXCEPT ![want[r].rev] = None],
           \A q \in Requests \ Flight(r) : pc'[q] = pc[q],
           \A q \in Flight(r) : pc'[q] \in {"entry", "error"}
    PROVE  FlightsLed'
  <1> DEFINE v == want[r].rev
  <1>1. v \in Revisions /\ mflight \in [Revisions -> Requests \cup {None}] /\ mflight[v] = r
    BY DEF Inv, TypeOK, WantOK, Fetching, FlightsLed
  <1>2. \A q \in Requests : q \in Flight(r) <=> q = r \/ (pc[q] = "wait" /\ want[q].rev = v)
    BY DEF Flight, At
  <1>3. \A q \in Flight(r) : /\ q \in Requests /\ pc'[q] \notin Fetching /\ pc'[q] \notin Pulling
                             /\ pc'[q] \notin {"wait", "join"} /\ pc[q] \notin Pulling
    BY DEF Flight, Fetching, Pulling, At
  <1>4. \A w \in Revisions, q \in Requests : mflight'[w] = q <=> pc'[q] \in Fetching /\ want'[q].rev = w
    <2> SUFFICES ASSUME NEW w \in Revisions, NEW q \in Requests
                 PROVE  mflight'[w] = q <=> pc'[q] \in Fetching /\ want[q].rev = w
      OBVIOUS
    <2>1. CASE w = v
      <3>1. mflight'[w] = None /\ q # None
        BY <1>1, <2>1, NoneAssumption
      <3>2. pc[q] \in Fetching /\ want[q].rev = v => q = r
        BY <1>1 DEF FlightsLed
      <3>3. pc'[q] \in Fetching /\ want[q].rev = v => FALSE
        BY <1>2, <1>3, <3>2
      <3> QED BY <2>1, <3>1, <3>3
    <2>2. CASE w # v
      <3>1. mflight'[w] = mflight[w]
        BY <1>1, <2>2
      <3>2. CASE q \in Flight(r)
        <4>1. want[q].rev = v
          BY <1>2, <3>2
        <4> QED BY <2>2, <3>1, <4>1 DEF FlightsLed
      <3>3. CASE q \notin Flight(r)
        BY <3>1, <3>3 DEF FlightsLed
      <3> QED BY <3>2, <3>3
    <2> QED BY <2>1, <2>2
  <1>5. \A k \in Keys, q \in Requests : bflight'[k] = q <=> pc'[q] \in Pulling /\ key'[q] = k
    BY <1>3 DEF FlightsLed
  <1>6. \A q \in Requests : /\ pc'[q] = "wait" => mflight'[want'[q].rev] # None
                            /\ pc'[q] = "join" => bflight'[key'[q]] # None
    <2> SUFFICES ASSUME NEW q \in Requests, pc'[q] \in {"wait", "join"}
                 PROVE  /\ pc'[q] = "wait" => mflight'[want[q].rev] # None
                        /\ pc'[q] = "join" => bflight[key[q]] # None
      OBVIOUS
    <2>1. q \notin Flight(r) /\ pc'[q] = pc[q] /\ want[q].rev \in Revisions
      BY <1>3 DEF Inv, WantOK
    <2>2. pc[q] = "wait" => want[q].rev # v
      BY <1>2, <2>1
    <2> QED BY <1>1, <2>1, <2>2 DEF FlightsLed, At
  <1> QED BY <1>4, <1>5, <1>6 DEF FlightsLed, At

\* A call of blobSF.Do begins a download or waits for one.
LEMMA FetchBlobFlights ==
    ASSUME Inv, FlightsLed, NEW r \in Requests, FetchBlob(r)
    PROVE  FlightsLed'
  <1> DEFINE k == <<Entry(r), Content(r)>>
  <1>1. pc[r] = "fetch" /\ pc[r] \in Working
    BY PointFacts DEF FetchBlob, At, Filled
  <1>2. k \in Keys
    BY <1>1, WorkFacts DEF Keys
  <1>3. /\ pc \in [Requests -> Points] /\ key \in [Requests -> Keys]
        /\ bflight \in [Keys -> Requests \cup {None}]
    BY DEF Inv, TypeOK
  <1>4. /\ want' = want /\ mflight' = mflight /\ key' = [key EXCEPT ![r] = k]
        /\ \A q \in Requests \ {r} : key'[q] = key[q]
        /\ key'[r] = k
    BY <1>3 DEF FetchBlob
  <1> HIDE DEF k
  <1>5. CASE bflight[k] = None
    <2>1. /\ bflight' = [bflight EXCEPT ![k] = r] /\ pc'[r] = "download"
          /\ \A q \in Requests \ {r} : pc'[q] = pc[q]
      BY <1>3, <1>5 DEF FetchBlob, Goto, k
    <2>2. \A q \in Requests : ~(pc[q] \in Pulling /\ key[q] = k)
      BY <1>2, <1>5, NoneAssumption DEF FlightsLed
    <2>3. \A w \in Keys, q \in Requests : bflight'[w] = q <=> pc'[q] \in Pulling /\ key'[q] = w
      <3> SUFFICES ASSUME NEW w \in Keys, NEW q \in Requests
                   PROVE  bflight'[w] = q <=> pc'[q] \in Pulling /\ key'[q] = w
        OBVIOUS
      <3>1. CASE q = r
        BY <1>1, <1>2, <1>3, <1>4, <2>1, <3>1 DEF FlightsLed, Pulling
      <3>2. CASE q # r /\ w = k
        BY <1>2, <1>3, <1>4, <2>1, <2>2, <3>2
      <3>3. CASE q # r /\ w # k
        BY <1>2, <1>3, <1>4, <2>1, <3>3 DEF FlightsLed
      <3> QED BY <3>1, <3>2, <3>3
    <2>4. \A v \in Revisions, q \in Requests : mflight'[v] = q <=> pc'[q] \in Fetching /\ want'[q].rev = v
      BY <1>1, <1>4, <2>1 DEF FlightsLed, Fetching
    <2>5. \A q \in Requests : /\ pc'[q] = "wait" => mflight'[want'[q].rev] # None
                              /\ pc'[q] = "join" => bflight'[key'[q]] # None
      <3> SUFFICES ASSUME NEW q \in Requests, pc'[q] \in {"wait", "join"}
                   PROVE  /\ pc'[q] = "wait" => mflight[want[q].rev] # None
                          /\ pc'[q] = "join" => bflight'[key'[q]] # None
        BY <1>4
      <3>1. q # r /\ pc'[q] = pc[q] /\ key'[q] = key[q] /\ key[q] \in Keys
        BY <1>3, <1>4, <2>1
      <3> QED BY <1>2, <1>3, <2>1, <3>1, NoneAssumption DEF FlightsLed, At
    <2> QED BY <2>3, <2>4, <2>5 DEF FlightsLed, At
  <1>6. CASE bflight[k] # None
    <2>1. bflight' = bflight /\ pc'[r] = "join" /\ \A q \in Requests \ {r} : pc'[q] = pc[q]
      BY <1>3, <1>6 DEF FetchBlob, Goto, k
    <2> QED BY <1>1, <1>4, <1>6, <2>1 DEF FlightsLed, Fetching, Pulling, At
  <1> QED BY <1>5, <1>6

\* The function of a blob flight returns: its leader and its followers go on.
LEMMA LandFlights ==
    ASSUME Inv, FlightsLed, NEW r \in Requests, pc[r] \in Pulling,
           NEW point \in {"reopen", "error"}, Land(r, point), want' = want
    PROVE  FlightsLed'
  <1> DEFINE k == key[r]
             S == {q \in Requests : q = r \/ (pc[q] = "join" /\ key[q] = k)}
  <1>1. /\ k \in Keys /\ bflight \in [Keys -> Requests \cup {None}] /\ bflight[k] = r
        /\ key \in [Requests -> Keys]
    BY DEF Inv, TypeOK, FlightsLed
  <1>2. /\ bflight' = [bflight EXCEPT ![k] = None] /\ mflight' = mflight /\ key' = key
        /\ \A q \in S : pc'[q] = point
        /\ \A q \in Requests \ S : pc'[q] = pc[q]
    BY DEF Land, At
  <1>3. \A q \in S : /\ q \in Requests /\ pc'[q] \notin Fetching /\ pc'[q] \notin Pulling
                     /\ pc'[q] \notin {"wait", "join"} /\ pc[q] \notin Fetching /\ key[q] = k
    BY <1>2 DEF Fetching, Pulling
  <1>4. \A w \in Keys, q \in Requests : bflight'[w] = q <=> pc'[q] \in Pulling /\ key'[q] = w
    <2> SUFFICES ASSUME NEW w \in Keys, NEW q \in Requests
                 PROVE  bflight'[w] = q <=> pc'[q] \in Pulling /\ key[q] = w
      BY <1>2
    <2>1. CASE w = k
      <3>1. bflight'[w] = None /\ q # None
        BY <1>1, <1>2, <2>1, NoneAssumption
      <3>2. pc[q] \in Pulling /\ key[q] = k => q = r
        BY <1>1 DEF FlightsLed
      <3>3. r \in S
        OBVIOUS
      <3> HIDE DEF S
      <3>4. pc'[q] \in Pulling /\ key[q] = k => FALSE
        BY <1>2, <1>3, <3>2, <3>3
      <3> QED BY <2>1, <3>1, <3>4
    <2>2. CASE w # k
      <3> HIDE DEF S
      <3>1. bflight'[w] = bflight[w]
        BY <1>1, <1>2, <2>2
      <3>2. CASE q \in S
        BY <1>3, <2>2, <3>1, <3>2 DEF FlightsLed
      <3>3. CASE q \notin S
        BY <1>2, <3>1, <3>3 DEF FlightsLed
      <3> QED BY <3>2, <3>3
    <2> QED BY <2>1, <2>2
  <1>5. \A v \in Revisions, q \in Requests : mflight'[v] = q <=> pc'[q] \in Fetching /\ want'[q].rev = v
    <2> HIDE DEF S
    <2> QED BY <1>2, <1>3 DEF FlightsLed
  <1>6. \A q \in Requests : /\ pc'[q] = "wait" => mflight'[want'[q].rev] # None
                            /\ pc'[q] = "join" => bflight'[key'[q]] # None
    <2> SUFFICES ASSUME NEW q \in Requests, pc'[q] \in {"wait", "join"}
                 PROVE  /\ pc'[q] = "wait" => mflight[want[q].rev] # None
                        /\ pc'[q] = "join" => bflight'[key[q]] # None
      BY <1>2
    <2>1. q \notin S /\ pc'[q] = pc[q] /\ key[q] \in Keys
      <3> HIDE DEF S
      <3> QED BY <1>1, <1>2, <1>3
    <2>2. pc[q] = "join" => key[q] # k
      BY <2>1
    <2> QED BY <1>1, <1>2, <2>1, <2>2 DEF FlightsLed, At
  <1> QED BY <1>4, <1>5, <1>6 DEF FlightsLed, At

\* The steps that leave all flights alone.
LEMMA QuietFlights ==
    ASSUME Inv, FlightsLed, NEW r \in Requests,
           \/ LocalHit(r) \/ GetModelInfo(r) \/ EnsureEntry(r) \/ StatFile(r) \/ Backfill(r)
           \/ PersistBackfill(r) \/ OpenBlob(r) \/ OpenUpstream(r) \/ Algo(r) \/ Rekey(r)
           \/ Reopen(r) \/ EntryFails(r)
    PROVE  FlightsLed'
  <1>1. pc \in [Requests -> Points] /\ UNCHANGED <<want, flights>>
    BY DEF Inv, TypeOK, LocalHit, GetModelInfo, EnsureEntry, StatFile, Backfill, PersistBackfill,
       OpenBlob, OpenUpstream, Algo, Rekey, Reopen, EntryFails, WriteEntry
  <1>2. SUFFICES ASSUME NEW p, Goto(r, p), p \in Fetching <=> pc[r] \in Fetching,
                        p \in Pulling <=> pc[r] \in Pulling, p \notin {"wait", "join"}
                 PROVE  FlightsLed'
    <2>1. CASE LocalHit(r)
      BY <1>2, <2>1 DEF LocalHit, At, Fetching, Pulling
    <2>2. CASE GetModelInfo(r)
      BY <1>2, <2>2 DEF GetModelInfo, At, Fetching, Pulling
    <2>3. CASE EnsureEntry(r)
      <3>1. PICK p \in {"notfound", "stat", "served", "open"} : Goto(r, p)
        BY <2>3 DEF EnsureEntry
      <3> QED BY <1>2, <2>3, <3>1 DEF EnsureEntry, At, Fetching, Pulling
    <2>4. CASE StatFile(r) \/ Backfill(r)
      BY <1>2, <2>4 DEF StatFile, Backfill, WriteEntry, At, Fetching, Pulling
    <2>5. CASE PersistBackfill(r)
      <3>1. PICK p \in {"served", "open"} : Goto(r, p)
        BY <2>5 DEF PersistBackfill
      <3> QED BY <1>2, <2>5, <3>1 DEF PersistBackfill, At, Fetching, Pulling
    <2>6. CASE OpenBlob(r)
      <3>1. PICK p \in {"served", "fetch"} : Goto(r, p)
        BY <2>6 DEF OpenBlob
      <3> QED BY <1>2, <2>6, <3>1 DEF OpenBlob, At, Fetching, Pulling
    <2>7. CASE OpenUpstream(r)
      BY <1>2, <2>7 DEF OpenUpstream, At, Fetching, Pulling
    <2>8. CASE Algo(r)
      <3>1. PICK p \in {"verify", "putBlob"} : Goto(r, p)
        BY <2>8 DEF Algo
      <3> QED BY <1>2, <2>8, <3>1 DEF Algo, At, Fetching, Pulling
    <2>9. CASE Rekey(r)
      <3>1. PICK p \in {"rekeyed", "save"} : Goto(r, p) /\ pc[r] \in {"rekey", "rekeyed"}
        BY <2>9 DEF Rekey, WriteEntry, At
      <3> QED BY <1>2, <3>1 DEF Fetching, Pulling
    <2>10. CASE Reopen(r)
      <3>1. PICK p \in {"served", "error"} : Goto(r, p)
        BY <2>10 DEF Reopen
      <3> QED BY <1>2, <2>10, <3>1 DEF Reopen, At, Fetching, Pulling
    <2>11. CASE EntryFails(r)
      BY <1>2, <2>11 DEF EntryFails, Fetching, Pulling
    <2> QED BY <2>1, <2>2, <2>3, <2>4, <2>5, <2>6, <2>7, <2>8, <2>9, <2>10, <2>11
  <1>3. pc'[r] = p /\ \A q \in Requests \ {r} : pc'[q] = pc[q]
    BY <1>1, <1>2 DEF Goto
  <1> QED BY <1>1, <1>2, <1>3, FlightsKept

\* Steps that end a flight, or may.
LEMMA FlightSteps ==
    ASSUME Inv, FlightsLed, NEW r \in Requests,
           \/ PutFetched(r) \/ FetchFails(r) \/ PutBlob(r) \/ StoreRegular(r) \/ SaveRekeyed(r)
           \/ BlobFails(r) \/ Panic(r)
    PROVE  FlightsLed'
  <1>1. CASE PutFetched(r)
    <2>1. /\ pc[r] \in Fetching /\ want' = want /\ bflight' = bflight /\ key' = key
          /\ mflight' = [mflight EXCEPT ![want[r].rev] = None]
          /\ \A q \in Requests \ Flight(r) : pc'[q] = pc[q]
          /\ \A q \in Flight(r) : pc'[q] \in {"entry", "error"}
      BY <1>1 DEF PutFetched, Fetching, At, Flight
    <2> QED BY <2>1, ManifestFlightEnds
  <1>2. CASE FetchFails(r)
    <2>1. /\ pc[r] \in Fetching /\ want' = want /\ bflight' = bflight /\ key' = key
          /\ mflight' = [mflight EXCEPT ![want[r].rev] = None]
          /\ \A q \in Requests \ Flight(r) : pc'[q] = pc[q]
          /\ \A q \in Flight(r) : pc'[q] \in {"entry", "error"}
      BY <1>2 DEF FetchFails, Fetching, At, Flight
    <2> QED BY <2>1, ManifestFlightEnds
  <1>3. CASE PutBlob(r) \/ SaveRekeyed(r) \/ BlobFails(r)
    <2>1. PICK point \in {"reopen", "error"} : Land(r, point) /\ want' = want /\ pc[r] \in Pulling
      BY <1>3 DEF PutBlob, SaveRekeyed, BlobFails, Pulling, At
    <2> QED BY <2>1, LandFlights
  <1>4. CASE StoreRegular(r)
    <2>1. pc[r] = "verify" /\ pc[r] \in Pulling /\ want' = want
      BY <1>4 DEF StoreRegular, Pulling, At
    <2>2. CASE Goto(r, "rekey") /\ UNCHANGED flights
      <3>1. pc'[r] = "rekey" /\ \A q \in Requests \ {r} : pc'[q] = pc[q]
        BY <2>2 DEF Goto, Inv, TypeOK
      <3>2. pc'[r] \notin Fetching /\ pc[r] \notin Fetching /\ pc'[r] \in Pulling
        BY <2>1, <3>1 DEF Fetching, Pulling
      <3>3. pc'[r] \notin {"wait", "join"}
        BY <3>1
      <3> QED BY <2>1, <2>2, <3>1, <3>2, <3>3, FlightsKept
    <2>3. CASE Land(r, "error")
      BY <2>1, <2>3, LandFlights
    <2> QED BY <1>4, <2>2, <2>3 DEF StoreRegular
  <1>5. CASE Panic(r)
    <2>1. CASE Land(r, "error")
      <3>1. want' = want
        BY <1>5 DEF Panic
      <3>2. CASE At(r, "save")
        BY <2>1, <3>1, <3>2, LandFlights DEF Pulling, At
      <3>3. CASE pc[r] \in {"entry", "open", "fetch", "keep"} /\ Goto(r, "error") /\ UNCHANGED flights
        <4>1. pc'[r] = "error" /\ \A q \in Requests \ {r} : pc'[q] = pc[q]
          BY <3>3 DEF Goto, Inv, TypeOK
        <4> QED BY <3>1, <3>3, <4>1, FlightsKept DEF Fetching, Pulling
      <3> QED BY <1>5, <3>2, <3>3 DEF Panic
    <2>2. CASE pc[r] \in {"entry", "open", "fetch", "keep"} /\ Goto(r, "error") /\ UNCHANGED flights
      <3>1. /\ want' = want /\ pc'[r] = "error"
            /\ \A q \in Requests \ {r} : pc'[q] = pc[q]
        BY <1>5, <2>2 DEF Panic, Goto, Inv, TypeOK
      <3> QED BY <2>2, <3>1, FlightsKept DEF Fetching, Pulling
    <2> QED BY <1>5, <2>1, <2>2 DEF Panic
  <1> QED BY <1>1, <1>2, <1>3, <1>4, <1>5

\* Every step keeps flights and fetches together.
LEMMA FlightsStep == Inv /\ FlightsLed /\ [Next]_vars => FlightsLed'
  <1> SUFFICES ASSUME Inv, FlightsLed, [Next]_vars PROVE FlightsLed'
    OBVIOUS
  <1>1. ASSUME NEW r \in Requests, Step(r) PROVE FlightsLed'
    <2>1. CASE LocalMiss(r)
      BY <2>1, FetchManifestFlights DEF LocalMiss
    <2>2. CASE FetchBlob(r)
      BY <2>2, FetchBlobFlights
    <2> QED BY <1>1, <2>1, <2>2, QuietFlights, FlightSteps DEF Step
  <1>2. ASSUME NEW r \in Requests, LocalFails(r) PROVE FlightsLed'
    BY <1>2, FetchManifestFlights DEF LocalFails
  <1>3. ASSUME NEW r \in Requests, NEW v \in Revisions, NEW p \in Paths, NEW method \in {"GET", "HEAD"},
               Request(r, v, p, method)
        PROVE  FlightsLed'
    <2>1. /\ pc[r] = "new" /\ pc'[r] = "resolve" /\ UNCHANGED flights
          /\ \A q \in Requests \ {r} : pc'[q] = pc[q] /\ want'[q] = want[q]
      BY <1>3 DEF Request, Goto, At, Inv, TypeOK
    <2> QED BY <2>1 DEF FlightsLed, Fetching, Pulling, At, flights
  <1>4. ASSUME NEW c \in Commits, Push(c) PROVE FlightsLed'
    BY <1>4 DEF Push, flights, FlightsLed, At
  <1>5. CASE Crash
    <2>1. /\ \A v \in Revisions : mflight'[v] = None
          /\ \A k \in Keys : bflight'[k] = None
          /\ \A q \in Requests : /\ pc'[q] \in Ended \cup {"new"} /\ q # None
      BY <1>5, NoneAssumption DEF Crash, Ended
    <2>2. \A q \in Requests : /\ pc'[q] \notin Fetching /\ pc'[q] \notin Pulling
                              /\ pc'[q] # "wait" /\ pc'[q] # "join"
      BY <2>1 DEF Ended, Fetching, Pulling
    <2> QED BY <2>1, <2>2 DEF FlightsLed, At
  <1>6. CASE UNCHANGED vars
    BY <1>6 DEF vars, flights, FlightsLed, At
  <1> QED BY <1>1, <1>2, <1>3, <1>4, <1>5, <1>6, QuietFlights, FlightSteps DEF Next

\* relay.go's singleflight: for any requests, failures and crashes, nobody fetches
\* what another request is fetching, and who waits for a fetch waits for one that
\* is under way; no error path forgets a flight or its followers.
THEOREM FlightsHaveLeaders == Spec => []FlightsLed
  <1>1. Init => FlightsLed
    BY NoneAssumption DEF Init, FlightsLed, Fetching, Pulling, At
  <1> QED BY <1>1, InitInv, NextInv, FlightsStep, PTL DEF Spec

=============================================================================
