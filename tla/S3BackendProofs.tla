-------------------------- MODULE S3BackendProofs -------------------------
(***************************************************************************)
(* Theorems about S3Backend, for any callers, readers, keys, page and blob *)
(* sizes, and any number of calls, failures and crashes.                   *)
(***************************************************************************)
EXTENDS S3Backend, FiniteSetTheorems, SequenceTheorems, WellFoundedInduction, TLAPS

\* What is stored under a key is of the key's kind, and a blob is a good one.
BucketOK == /\ bucket[Ref] \in Commits \cup {None}
            /\ BlobsGood

\* What a caller at p with o has made sure of.
CallOf(p, o) ==
    /\ p \in {"manifest", "ref"} => o.key \in Commits
    /\ p \in {"head", "spool", "put"} => o.key \in Blobs
    /\ p = "put" => o.body = "good"
    /\ p \in {"manifest", "ref"} => o.doomed = {}
    /\ p = "ref" /\ o.undisturbed = 1 => bucket[o.key] # None

\* What a delete at p with o will still remove: of the keys it found, those that
\* are left are on the page or behind its end.
DoomOf(p, o) ==
    \A key \in o.doomed : bucket[key] # None =>
        /\ p = "list" => Index(key) > o.token
        /\ p = "delete" => key \in o.keys \/ (o.next # 0 /\ Index(key) > o.next)

CallsOK == \A k \in Callers : CallOf(pc[k], op[k]) /\ DoomOf(pc[k], op[k])

\* The manifest behind the ref is there while no delete has run.
RefOK == intact = 1 /\ bucket[Ref] # None => bucket[bucket[Ref]] # None

\* What a reader knows of the manifest it follows ...
FollowOf(x) ==
    /\ x.at = "manifest" => x.commit \in Commits /\ (x.intact = 1 => bucket[x.commit] # None)
    /\ x.at = "dangling" => x.intact = 0

\* ... and of the stream it reads: it stands at the position, which is as far from
\* the last seek as bytes were delivered.
StreamOf(x) ==
    x.at \in {"manifest", "open", "read", "eof"} =>
        /\ x.at \in {"read", "eof"} => x.key \in Blobs
        /\ x.cur \in {None, x.pos}
        /\ x.pos = x.from + Len(x.got)
        /\ \A i \in 1..Len(x.got) : x.got[i] = x.from + i - 1
        /\ x.at = "eof" => x.pos = BlobSize

ReadersOK == \A r \in Readers : FollowOf(rd[r]) /\ StreamOf(rd[r])

Inv == TypeOK /\ BucketOK /\ CallsOK /\ RefOK /\ ReadersOK /\ DeletedGone

-----------------------------------------------------------------------------
(* Facts about the keys and the records *)

\* Keys are not None, and keys of different kinds differ.
LEMMA KeyFacts ==
    /\ None \notin Keys /\ None \notin Commits /\ None \notin Blobs /\ None \notin Bodies
    /\ None # "marker" /\ None # "manifest" /\ Marker \in Keys /\ Ref \in Keys
    /\ Commits \subseteq Keys /\ Blobs \subseteq Keys
    /\ Marker \notin Blobs /\ Ref \notin Blobs /\ Marker # Ref /\ Ref \notin Commits /\ Commits \cap Blobs = {}
  BY KeysAssumption DEF Keys, Bodies

\* The type of a call's record, field by field.
LEMMA OpFields ==
    ASSUME NEW o \in Op
    PROVE  /\ o.key \in Keys \cup {None} /\ o.ref \in {0, 1} /\ o.body \in Bodies /\ o.keys \subseteq Keys
           /\ o.token \in 0..Len(Order) /\ o.next \in 0..Len(Order) /\ o.found \in {0, 1}
           /\ o.undisturbed \in {0, 1} /\ o.doomed \subseteq Keys
  BY DEF Op

\* An idle caller has no arguments.
LEMMA NoOpFacts ==
    /\ NoOp \in Op /\ NoOp.key = None /\ NoOp.doomed = {} /\ NoOp.keys = {} /\ NoOp.undisturbed = 1
    /\ NoOp.next = 0 /\ NoOp.token = 0 /\ NoOp.body = "good"
  <1>1. Len(Order) \in Nat
    BY OrderAssumption
  <1>2. 0 \in 0..Len(Order)
    BY <1>1
  <1>3. NoOp \in Op
    <2> DEFINE T == 0..Len(Order)
               K == Keys \cup {None}
               S == SUBSET Keys
    <2>1. 0 \in T /\ None \in K /\ {} \in S BY <1>2
    <2>2. Op = [key: K, ref: {0, 1}, body: Bodies, keys: S, token: T, next: T, found: {0, 1},
                undisturbed: {0, 1}, doomed: S]
      BY DEF Op
    <2> HIDE DEF T, K, S
    <2> QED BY <2>1, <2>2 DEF NoOp, Bodies
  <1> QED BY <1>3 DEF NoOp

\* The arguments of a call are put into an empty record.
LEMMA OpNew ==
    ASSUME NEW x \in Keys, NEW ref \in {0, 1}, NEW body \in Bodies, NEW ks \in SUBSET Keys
    PROVE  /\ [NoOp EXCEPT !.key = x, !.ref = ref] \in Op
           /\ [NoOp EXCEPT !.key = x, !.body = body] \in Op
           /\ [NoOp EXCEPT !.doomed = ks] \in Op
  <1> DEFINE T == 0..Len(Order)
             K == Keys \cup {None}
             S == SUBSET Keys
             R == {0, 1}
  <1>1. NoOp \in Op /\ x \in K /\ ks \in S /\ ref \in R
    BY NoOpFacts
  <1>2. Op = [key: K, ref: R, body: Bodies, keys: S, token: T, next: T, found: R,
              undisturbed: R, doomed: S]
    BY DEF Op
  <1> HIDE DEF T, K, S, R
  <1>3. [NoOp EXCEPT !.key = x, !.ref = ref] \in Op
    BY <1>1, <1>2
  <1>4. [NoOp EXCEPT !.key = x, !.body = body] \in Op
    BY <1>1, <1>2
  <1>5. [NoOp EXCEPT !.doomed = ks] \in Op
    BY <1>1, <1>2
  <1> QED BY <1>3, <1>4, <1>5

\* The fields of a call that its arguments and its page take.
SameArgs(a, b) ==
    /\ a.key = b.key /\ a.ref = b.ref /\ a.body = b.body /\ a.token = b.token
    /\ a.next = b.next /\ a.found = b.found /\ a.keys = b.keys

\* A key is taken off the list of a delete.
LEMMA OpSpared ==
    ASSUME NEW o \in Op, NEW x
    PROVE  /\ [o EXCEPT !.doomed = @ \ {x}] \in Op
           /\ SameArgs([o EXCEPT !.doomed = @ \ {x}], o)
           /\ [o EXCEPT !.doomed = @ \ {x}].undisturbed = o.undisturbed
           /\ [o EXCEPT !.doomed = @ \ {x}].doomed = o.doomed \ {x}
  <1> DEFINE T == 0..Len(Order)
             K == Keys \cup {None}
             S == SUBSET Keys
             R == {0, 1}
             d == o.doomed \ {x}
  <1>1. d \in S
    BY OpFields
  <1>2. Op = [key: K, ref: R, body: Bodies, keys: S, token: T, next: T, found: R,
              undisturbed: R, doomed: S]
    BY DEF Op
  <1> HIDE DEF T, K, S, R, d
  <1>3. [o EXCEPT !.doomed = d] \in Op
    BY <1>1, <1>2
  <1>4. SameArgs([o EXCEPT !.doomed = d], o) /\ [o EXCEPT !.doomed = d].undisturbed = o.undisturbed
        /\ [o EXCEPT !.doomed = d].doomed = d
    BY <1>2 DEF SameArgs
  <1> QED BY <1>3, <1>4 DEF d

\* A page arrives, or the next one is asked for.
LEMMA OpPaged ==
    ASSUME NEW o \in Op, NEW ks \in SUBSET Keys, NEW n \in 0..Len(Order)
    PROVE  /\ [o EXCEPT !.keys = ks, !.next = n] \in Op
           /\ [o EXCEPT !.token = n] \in Op
  <1> DEFINE T == 0..Len(Order)
             K == Keys \cup {None}
             S == SUBSET Keys
             R == {0, 1}
  <1>1. ks \in S /\ n \in T
    OBVIOUS
  <1>2. Op = [key: K, ref: R, body: Bodies, keys: S, token: T, next: T, found: R,
              undisturbed: R, doomed: S]
    BY DEF Op
  <1> HIDE DEF T, K, S, R
  <1>3. [o EXCEPT !.keys = ks, !.next = n] \in Op
    BY <1>1, <1>2
  <1>4. [o EXCEPT !.token = n] \in Op
    BY <1>1, <1>2
  <1> QED BY <1>3, <1>4

\* A key of the page is deleted.
LEMMA OpDeleted ==
    ASSUME NEW o \in Op, NEW u \in {0, 1}, NEW ks \in SUBSET Keys, NEW f \in {0, 1}
    PROVE  [o EXCEPT !.undisturbed = u, !.keys = ks, !.found = f] \in Op
  <1> DEFINE T == 0..Len(Order)
             K == Keys \cup {None}
             S == SUBSET Keys
             R == {0, 1}
  <1>1. ks \in S /\ u \in R /\ f \in R
    OBVIOUS
  <1>2. Op = [key: K, ref: R, body: Bodies, keys: S, token: T, next: T, found: R,
              undisturbed: R, doomed: S]
    BY DEF Op
  <1> HIDE DEF T, K, S, R
  <1> QED BY <1>1, <1>2

-----------------------------------------------------------------------------
(* The pages of a listing *)

\* A set of numbers has a least one.
LEMMA LeastNat ==
    ASSUME NEW T \in SUBSET Nat, T # {}
    PROVE  \E m \in T : \A n \in T : m <= n
  <1>1. \E x \in T : \A y \in T : ~ (<<y, x>> \in OpToRel(<, Nat))
    <2>1. T \subseteq Nat OBVIOUS
    <2> QED BY <2>1, NatLessThanWellFounded, WFMin, Zenon
  <1>2. \A x, y \in Nat : x < y => <<x, y>> \in OpToRel(<, Nat)
    BY DEF OpToRel
  <1>3. \E R : /\ \E x \in T : \A y \in T : ~ (<<y, x>> \in R)
               /\ \A x, y \in Nat : x < y => <<x, y>> \in R
    BY <1>1, <1>2, Zenon
  <1>4. PICK R : /\ \E x \in T : \A y \in T : ~ (<<y, x>> \in R)
                 /\ \A x, y \in Nat : x < y => <<x, y>> \in R
    BY <1>3, Zenon
  <1>5. PICK x \in T : \A y \in T : ~ (<<y, x>> \in R)
    BY <1>4
  <1>6. ASSUME NEW y \in T PROVE x <= y
    <2>1. x \in Nat /\ y \in Nat /\ ~(y < x)
      BY <1>4, <1>5, Zenon
    <2> QED BY <2>1
  <1> QED BY <1>6

\* Every key has a place of its own in the order.
LEMMA IndexFacts ==
    /\ Len(Order) \in Nat
    /\ \A x \in Keys : Index(x) \in 1..Len(Order) /\ Order[Index(x)] = x
    /\ \A x, y \in Keys : Index(x) = Index(y) => x = y
  <1>1. Len(Order) \in Nat /\ DOMAIN Order = 1..Len(Order)
    BY OrderAssumption
  <1>2. \A x \in Keys : Index(x) \in DOMAIN Order /\ Order[Index(x)] = x
    BY OrderAssumption DEF Index
  <1> QED BY <1>1, <1>2

\* There are finitely many.
LEMMA KeysFinite == \A ks \in SUBSET Keys : IsFiniteSet(ks) /\ Cardinality(ks) \in Nat
  <1> DEFINE f == [x \in Keys |-> Index(x)]
  <1>1. f \in Injection(Keys, 1..Len(Order))
    BY IndexFacts DEF Injection, IsInjective
  <1>2. IsFiniteSet(1..Len(Order))
    BY IndexFacts, FS_Interval
  <1>3. IsFiniteSet(Keys)
    BY <1>1, <1>2, FS_Injection
  <1> QED BY <1>3, FS_Subset, FS_CardinalityType

\* The keys of rest that fit on its first page.
Page(rest) == {key \in rest : Cardinality({j \in rest : Index(j) < Index(key)}) < PageSize}
LastOf(page) == CHOOSE key \in page : \A j \in page : Index(j) <= Index(key)

\* A set of keys that is not empty has a first and a last one.
LEMMA FirstLast ==
    ASSUME NEW ks \in SUBSET Keys, ks # {}
    PROVE  /\ \E x \in ks : \A j \in ks : Index(x) <= Index(j)
           /\ LastOf(ks) \in ks /\ \A j \in ks : Index(j) <= Index(LastOf(ks))
  <1>1. \E x \in ks : \A j \in ks : Index(x) <= Index(j)
    <2> DEFINE T == {Index(x) : x \in ks}
    <2>1. T \in SUBSET Nat /\ T # {}
      BY IndexFacts
    <2>2. PICK m \in T : \A n \in T : m <= n
      <3> HIDE DEF T
      <3> QED BY <2>1, LeastNat
    <2> QED BY <2>2
  <1>2. \E x \in ks : \A j \in ks : Index(j) <= Index(x)
    <2> DEFINE T == {Len(Order) - Index(x) : x \in ks}
    <2>1. T \in SUBSET Nat /\ T # {}
      BY IndexFacts
    <2>2. PICK m \in T : \A n \in T : m <= n
      <3> HIDE DEF T
      <3> QED BY <2>1, LeastNat
    <2>3. PICK x \in ks : m = Len(Order) - Index(x)
      BY <2>2
    <2>4. \A j \in ks : Len(Order) - Index(x) <= Len(Order) - Index(j)
      BY <2>2, <2>3
    <2>5. \A j \in ks : Index(j) <= Index(x)
      BY <2>4, IndexFacts
    <2> QED BY <2>5
  <1>3. LastOf(ks) \in ks /\ \A j \in ks : Index(j) <= Index(LastOf(ks))
    BY <1>2 DEF LastOf
  <1> QED BY <1>1, <1>3

\* A page takes the keys from the front: what is not on it lies behind its last one.
LEMMA PageIsPrefix ==
    ASSUME NEW rest \in SUBSET Keys, rest # {}
    PROVE  /\ Page(rest) \subseteq rest /\ LastOf(Page(rest)) \in Page(rest)
           /\ \A j \in rest \ Page(rest) : Index(j) > Index(LastOf(Page(rest)))
  <1> DEFINE Before(x) == {j \in rest : Index(j) < Index(x)}
  <1>1. \A x \in rest : x \in Page(rest) <=> Cardinality(Before(x)) < PageSize
    BY DEF Page
  <1>2. \A x \in rest : Before(x) \in SUBSET Keys
    OBVIOUS
  <1>3. Page(rest) \in SUBSET Keys /\ Page(rest) \subseteq rest
    BY DEF Page
  <1>4. Page(rest) # {}
    <2>1. PICK x \in rest : \A j \in rest : Index(x) <= Index(j)
      BY FirstLast
    <2>2. Before(x) = {}
      BY <2>1, IndexFacts
    <2>3. Cardinality(Before(x)) = 0
      BY <2>2, FS_EmptySet
    <2> QED BY <1>1, <2>1, <2>3, SizesAssumption
  <1>5. LastOf(Page(rest)) \in Page(rest)
    BY <1>3, <1>4, FirstLast
  <1>6. ASSUME NEW j \in rest \ Page(rest), ~(Index(j) > Index(LastOf(Page(rest))))
        PROVE  FALSE
    <2> DEFINE l == LastOf(Page(rest))
    <2>1. l \in rest /\ Index(j) \in Nat /\ Index(l) \in Nat /\ Index(j) <= Index(l)
      BY <1>3, <1>5, <1>6, IndexFacts
    <2>2. Before(j) \in SUBSET Before(l)
      BY <2>1, IndexFacts
    <2>3. IsFiniteSet(Before(l)) /\ Cardinality(Before(l)) \in Nat /\ Cardinality(Before(j)) \in Nat
      BY <1>2, <2>1, KeysFinite
    <2>4. Cardinality(Before(j)) <= Cardinality(Before(l))
      BY <2>2, <2>3, FS_Subset
    <2>5. Cardinality(Before(l)) < PageSize /\ ~(Cardinality(Before(j)) < PageSize)
      BY <1>1, <1>3, <1>5
    <2> HIDE DEF Before, l
    <2> QED BY <2>3, <2>4, <2>5, SizesAssumption
  <1> QED BY <1>3, <1>5, <1>6

-----------------------------------------------------------------------------
(* What a step leaves alone *)

\* What the other callers know survives, when the keys they deal with are kept and
\* their deletes are not blamed for what arrives.
LEMMA CallsKept ==
    ASSUME CallsOK, NEW k \in Callers,
           \A j \in Callers \ {k} :
              /\ pc'[j] = pc[j] /\ op'[j].key = op[j].key /\ op'[j].body = op[j].body
              /\ op'[j].keys = op[j].keys /\ op'[j].token = op[j].token /\ op'[j].next = op[j].next
              /\ op'[j].doomed \subseteq op[j].doomed
              /\ \A x \in op'[j].doomed : bucket'[x] # None => bucket[x] # None
              /\ pc[j] = "ref" /\ op'[j].undisturbed = 1 =>
                    op[j].undisturbed = 1 /\ (bucket[op[j].key] # None => bucket'[op[j].key] # None),
           CallOf(pc[k], op[k])', DoomOf(pc[k], op[k])'
    PROVE  CallsOK'
  <1> SUFFICES ASSUME NEW j \in Callers, j # k
               PROVE  CallOf(pc[j], op[j])' /\ DoomOf(pc[j], op[j])'
    BY DEF CallsOK
  <1>1. CallOf(pc[j], op[j]) /\ DoomOf(pc[j], op[j])
    BY DEF CallsOK
  <1>2. CallOf(pc[j], op[j])'
    BY <1>1 DEF CallOf
  <1>3. DoomOf(pc[j], op[j])'
    BY <1>1 DEF DoomOf
  <1> QED BY <1>2, <1>3

\* A step of caller k that leaves the bucket and the readers alone.
LEMMA QuietStep ==
    ASSUME Inv, NEW k \in Callers, NEW p \in Points, NEW o \in Op, Goto(k, p),
           op' = [op EXCEPT ![k] = o], bucket' = bucket, rd' = rd, intact' = intact,
           escaped' = {}, spent' \in [Limited -> Nat], CallOf(p, o), DoomOf(p, o)
    PROVE  Inv'
  <1>1. TypeOK'
    BY DEF Inv, TypeOK, Goto
  <1>2. pc'[k] = p /\ op'[k] = o /\ \A j \in Callers \ {k} : pc'[j] = pc[j] /\ op'[j] = op[j]
    BY DEF Inv, TypeOK, Goto
  <1>3. CallOf(pc[k], op[k])' /\ DoomOf(pc[k], op[k])'
    BY <1>2 DEF CallOf, DoomOf
  <1>4. CallsOK'
    <2>1. CallsOK BY DEF Inv
    <2> QED BY <1>2, <1>3, <2>1, CallsKept
  <1>5. BucketOK' /\ RefOK'
    BY DEF Inv, BucketOK, BlobsGood, RefOK
  <1>6. ReadersOK'
    BY DEF Inv, ReadersOK, FollowOf, StreamOf
  <1> QED BY <1>1, <1>4, <1>5, <1>6 DEF Inv, DeletedGone

\* A step of a reader.
LEMMA ReaderStep ==
    ASSUME Inv, NEW r \in Readers, NEW x \in Rd, rd' = [rd EXCEPT ![r] = x],
           bucket' = bucket, pc' = pc, op' = op, intact' = intact, escaped' = escaped,
           spent' \in [Limited -> Nat], FollowOf(x), StreamOf(x)
    PROVE  Inv'
  <1>1. TypeOK'
    BY DEF Inv, TypeOK
  <1>2. BucketOK' /\ RefOK' /\ DeletedGone'
    BY DEF Inv, BucketOK, BlobsGood, RefOK, DeletedGone
  <1>3. CallsOK'
    BY DEF Inv, CallsOK, CallOf, DoomOf
  <1>4. ReadersOK'
    <2> SUFFICES ASSUME NEW q \in Readers PROVE FollowOf(rd[q])' /\ StreamOf(rd[q])'
      BY DEF ReadersOK
    <2>1. rd'[q] = IF q = r THEN x ELSE rd[q]
      BY DEF Inv, TypeOK
    <2>2. FollowOf(rd[q]) /\ StreamOf(rd[q])
      BY DEF Inv, ReadersOK
    <2> QED BY <2>1, <2>2 DEF FollowOf, StreamOf
  <1> QED BY <1>1, <1>2, <1>3, <1>4 DEF Inv

\* An object is put: by a caller that goes on, or by one that returns.
LEMMA PutStep ==
    ASSUME Inv, NEW k \in Callers, NEW p \in Points, NEW key \in Keys, NEW value \in Objects,
           NEW o \in Op, Goto(k, p), Put(key, value, [op EXCEPT ![k] = o]),
           rd' = rd, escaped' = escaped, spent' = spent, intact' \in {0, 1},
           key = Ref => value \in Commits, key \in Blobs => value = "good",
           intact' = 1 /\ bucket'[Ref] # None => bucket'[bucket'[Ref]] # None,
           p \in {"idle", "ref"}, p = "ref" => o.key = key /\ key \in Commits, o.doomed = {}
    PROVE  Inv'
  <1> USE KeyFacts
  <1>1. bucket' = [bucket EXCEPT ![key] = value] /\ value # None
    BY DEF Put, Objects
  <1>2. bucket' \in [Keys -> Objects \cup {None}]
        /\ \A x \in Keys : bucket'[x] = IF x = key THEN value ELSE bucket[x]
    BY <1>1 DEF Inv, TypeOK
  <1>3. \A x \in Keys : bucket[x] # None => bucket'[x] # None
    BY <1>1, <1>2
  <1>4. /\ op' \in [Callers -> Op]
        /\ \A j \in Callers \ {k} : SameArgs(op'[j], op[j]) /\ op'[j].undisturbed = op[j].undisturbed
                                    /\ op'[j].doomed = op[j].doomed \ {key}
        /\ SameArgs(op'[k], o) /\ op'[k].undisturbed = o.undisturbed /\ op'[k].doomed = o.doomed \ {key}
    <2> DEFINE w == [op EXCEPT ![k] = o]
    <2>1. w \in [Callers -> Op] /\ w[k] = o /\ \A j \in Callers \ {k} : w[j] = op[j]
      BY DEF Inv, TypeOK
    <2>2. op' = [j \in Callers |-> [w[j] EXCEPT !.doomed = @ \ {key}]]
      BY DEF Put
    <2>3. \A j \in Callers : op'[j] \in Op /\ SameArgs(op'[j], w[j])
                             /\ op'[j].undisturbed = w[j].undisturbed
                             /\ op'[j].doomed = w[j].doomed \ {key}
      <3> HIDE DEF w
      <3> QED BY <2>1, <2>2, OpSpared
    <2> HIDE DEF w
    <2> QED BY <2>1, <2>2, <2>3
  <1>5. pc'[k] = p /\ pc' \in [Callers -> Points] /\ \A j \in Callers \ {k} : pc'[j] = pc[j]
    BY DEF Inv, TypeOK, Goto
  <1>6. TypeOK'
    BY <1>2, <1>4, <1>5 DEF Inv, TypeOK
  <1>7. BucketOK' /\ RefOK'
    BY <1>2 DEF Inv, BucketOK, BlobsGood, RefOK
  <1>8. CallsOK'
    <2>1. CallOf(pc[k], op[k])' /\ DoomOf(pc[k], op[k])'
      BY <1>1, <1>2, <1>4, <1>5 DEF CallOf, DoomOf, SameArgs
    <2>2. ASSUME NEW j \in Callers \ {k}
          PROVE  /\ op'[j].key = op[j].key /\ op'[j].body = op[j].body
                 /\ op'[j].keys = op[j].keys /\ op'[j].token = op[j].token /\ op'[j].next = op[j].next
                 /\ op'[j].doomed \subseteq op[j].doomed
                 /\ \A x \in op'[j].doomed : bucket'[x] # None => bucket[x] # None
                 /\ pc[j] = "ref" /\ op'[j].undisturbed = 1 =>
                       op[j].undisturbed = 1 /\ (bucket[op[j].key] # None => bucket'[op[j].key] # None)
      <3>1. op[j] \in Op BY DEF Inv, TypeOK
      <3>2. op[j].doomed \subseteq Keys BY <3>1, OpFields
      <3>3. pc[j] = "ref" => op[j].key \in Commits
        BY DEF Inv, CallsOK, CallOf
      <3> QED BY <1>2, <1>3, <1>4, <3>2, <3>3 DEF SameArgs
    <2>3. CallsOK BY DEF Inv
    <2> QED BY <1>5, <2>1, <2>2, <2>3, CallsKept
  <1>9. ReadersOK'
    <2> SUFFICES ASSUME NEW q \in Readers PROVE FollowOf(rd[q])' /\ StreamOf(rd[q])'
      BY DEF ReadersOK
    <2>1. FollowOf(rd[q]) /\ StreamOf(rd[q])
      BY DEF Inv, ReadersOK
    <2> QED BY <1>3, <2>1 DEF FollowOf, StreamOf
  <1> QED BY <1>6, <1>7, <1>8, <1>9 DEF Inv, DeletedGone

-----------------------------------------------------------------------------
(* The callers' steps *)

\* A caller's own facts, and that spending keeps the counters.
LEMMA OwnFacts ==
    ASSUME Inv, NEW k \in Callers
    PROVE  /\ op[k] \in Op /\ pc[k] \in Points /\ CallOf(pc[k], op[k]) /\ DoomOf(pc[k], op[k])
           /\ bucket \in [Keys -> Objects \cup {None}] /\ escaped = {} /\ spent \in [Limited -> Nat]
           /\ intact \in {0, 1} /\ op \in [Callers -> Op] /\ pc \in [Callers -> Points]
           /\ op = [op EXCEPT ![k] = op[k]]
           /\ \A w \in Limited : Spend(w) => spent' \in [Limited -> Nat]
  BY DEF Inv, TypeOK, CallsOK, DeletedGone, Spend

\* The request of a new call is checked by the points it goes to.
LEMMA CallStep ==
    ASSUME Inv, NEW k \in Callers, NEW what \in Limited, NEW p \in Points, NEW o \in Op,
           Call(k, what, p, o), bucket' = bucket, rd' = rd, intact' = intact, escaped' = escaped,
           CallOf(p, o), DoomOf(p, o)
    PROVE  Inv'
  <1>1. Goto(k, p) /\ op' = [op EXCEPT ![k] = o] /\ spent' \in [Limited -> Nat] /\ escaped' = {}
    BY OwnFacts DEF Call
  <1> QED BY <1>1, QuietStep

\* The public operations begin.
LEMMA CallSteps ==
    ASSUME Inv, NEW k \in Callers,
           \/ CreateRepo(k) \/ DeleteRepo(k)
           \/ \E c \in Commits, ref \in {0, 1} : PutManifest(k, c, ref)
           \/ \E b \in Blobs, body \in Bodies : PutBlob(k, b, body)
    PROVE  Inv'
  <1> USE KeyFacts
  <1>1. /\ {"create", "delete", "put", "blob"} \subseteq Limited
        /\ {"exists", "list", "manifest", "head"} \subseteq Points
    BY DEF Limited, Points
  <1>2. CASE CreateRepo(k)
    <2>1. CallOf("exists", NoOp) /\ DoomOf("exists", NoOp)
      BY NoOpFacts DEF CallOf, DoomOf
    <2> QED BY <1>1, <1>2, <2>1, NoOpFacts, CallStep DEF CreateRepo
  <1>3. CASE DeleteRepo(k)
    <2> DEFINE o == [NoOp EXCEPT !.doomed = Stored]
    <2>1. Stored \in SUBSET Keys /\ 0 \in {0, 1} /\ "good" \in Bodies
      BY DEF Stored, Bodies
    <2>2. o \in Op
      BY <2>1, OpNew
    <2>3. o.token = 0 /\ o.doomed = Stored
      BY NoOpFacts DEF Op
    <2>4. CallOf("list", o) /\ DoomOf("list", o)
      BY <2>1, <2>3, IndexFacts DEF CallOf, DoomOf
    <2> HIDE DEF o
    <2>5. Call(k, "delete", "list", o) /\ bucket' = bucket /\ rd' = rd /\ intact' = intact /\ escaped' = escaped
      BY <1>3 DEF DeleteRepo, o
    <2> QED BY <1>1, <2>2, <2>4, <2>5, CallStep
  <1>4. ASSUME NEW c \in Commits, NEW ref \in {0, 1}, PutManifest(k, c, ref) PROVE Inv'
    <2> DEFINE o == [NoOp EXCEPT !.key = c, !.ref = ref]
    <2>1. o \in Op /\ o.key = c
      <3>1. {} \in SUBSET Keys /\ "good" \in Bodies /\ c \in Keys BY DEF Bodies
      <3>2. o \in Op BY <3>1, OpNew
      <3> QED BY <3>2, NoOpFacts DEF Op
    <2>2. o.doomed = {}
      BY NoOpFacts DEF Op
    <2>3. CallOf("manifest", o) /\ DoomOf("manifest", o)
      BY <2>1, <2>2 DEF CallOf, DoomOf
    <2> HIDE DEF o
    <2>4. Call(k, "put", "manifest", o) /\ bucket' = bucket /\ rd' = rd /\ intact' = intact /\ escaped' = escaped
      BY <1>4 DEF PutManifest, o
    <2> QED BY <1>1, <2>1, <2>3, <2>4, CallStep
  <1>5. ASSUME NEW b \in Blobs, NEW body \in Bodies, PutBlob(k, b, body) PROVE Inv'
    <2> DEFINE o == [NoOp EXCEPT !.key = b, !.body = body]
    <2>1. o \in Op /\ o.key = b
      <3>1. {} \in SUBSET Keys /\ 0 \in {0, 1} /\ b \in Keys OBVIOUS
      <3>2. o \in Op BY <3>1, OpNew
      <3> QED BY <3>2, NoOpFacts DEF Op
    <2>2. o.doomed = {}
      BY NoOpFacts DEF Op
    <2>3. CallOf("head", o) /\ DoomOf("head", o)
      BY <2>1, <2>2 DEF CallOf, DoomOf
    <2> HIDE DEF o
    <2>4. Call(k, "blob", "head", o) /\ bucket' = bucket /\ rd' = rd /\ intact' = intact /\ escaped' = escaped
      BY <1>5 DEF PutBlob, o
    <2> QED BY <1>1, <2>1, <2>3, <2>4, CallStep
  <1> QED BY <1>2, <1>3, <1>4, <1>5

\* A call returns, or goes on with the arguments it has.
LEMMA ReturnStep ==
    ASSUME Inv, NEW k \in Callers, Goto(k, "idle"), op' = Returned(k), bucket' = bucket, rd' = rd,
           intact' = intact, escaped' = {}, spent' \in [Limited -> Nat]
    PROVE  Inv'
  <1>1. CallOf("idle", NoOp) /\ DoomOf("idle", NoOp) /\ "idle" \in Points /\ NoOp \in Op
    BY NoOpFacts DEF CallOf, DoomOf, Points
  <1> QED BY <1>1, QuietStep DEF Returned

\* Steps that only look: RepoExists, HeadBlob, SpoolAndVerify, and an error.
LEMMA LookSteps ==
    ASSUME Inv, NEW k \in Callers, RepoExists(k) \/ HeadBlob(k) \/ SpoolAndVerify(k) \/ Fail(k)
    PROVE  Inv'
  <1>1. {"idle", "marker", "spool", "put"} \subseteq Points /\ "failure" \in Limited
    BY DEF Points, Limited
  <1>2. CASE RepoExists(k)
    <2>1. PICK p \in {"idle", "marker"} : Goto(k, p)
      BY <1>2 DEF RepoExists
    <2>2. CallOf(p, op[k]) /\ DoomOf(p, op[k])
      BY DEF CallOf, DoomOf
    <2>3. op' = op /\ bucket' = bucket /\ rd' = rd /\ intact' = intact /\ escaped' = escaped /\ spent' = spent
      BY <1>2 DEF RepoExists
    <2> QED BY <1>1, <2>1, <2>2, <2>3, OwnFacts, QuietStep
  <1>3. CASE HeadBlob(k)
    <2>1. bucket' = bucket /\ rd' = rd /\ intact' = intact /\ escaped' = escaped
          /\ spent' \in [Limited -> Nat] /\ pc[k] = "head"
      BY <1>1, <1>3, OwnFacts DEF HeadBlob, At
    <2>2. CASE Goto(k, "spool") /\ op' = op
      <3>1. CallOf("spool", op[k]) /\ DoomOf("spool", op[k])
        BY <2>1, OwnFacts DEF CallOf, DoomOf
      <3> QED BY <1>1, <2>1, <2>2, <3>1, OwnFacts, QuietStep
    <2>3. CASE Goto(k, "idle") /\ op' = Returned(k)
      BY <2>1, <2>3, OwnFacts, ReturnStep
    <2> QED BY <1>3, <2>2, <2>3 DEF HeadBlob
  <1>4. CASE SpoolAndVerify(k)
    <2>1. bucket' = bucket /\ rd' = rd /\ intact' = intact /\ escaped' = escaped
          /\ spent' = spent /\ pc[k] = "spool"
      BY <1>4 DEF SpoolAndVerify, At
    <2>2. CASE op[k].body = "good"
      <3>1. CallOf("put", op[k]) /\ DoomOf("put", op[k])
        BY <2>1, <2>2, OwnFacts DEF CallOf, DoomOf
      <3>2. Goto(k, "put") /\ op' = op
        BY <1>4, <2>2 DEF SpoolAndVerify
      <3> QED BY <1>1, <2>1, <3>1, <3>2, OwnFacts, QuietStep
    <2>3. CASE op[k].body # "good"
      BY <1>4, <2>1, <2>3, OwnFacts, ReturnStep DEF SpoolAndVerify
    <2> QED BY <2>2, <2>3
  <1>5. CASE Fail(k)
    BY <1>1, <1>5, OwnFacts, ReturnStep DEF Fail
  <1> QED BY <1>2, <1>3, <1>4, <1>5

\* A page of a delete: what it leaves out lies behind its end.
LEMMA ListPageStep ==
    ASSUME Inv, NEW k \in Callers, ListPage(k)
    PROVE  Inv'
  <1> DEFINE rest == {key \in Stored : Index(key) > op[k].token}
             page == Page(rest)
             n == IF page = rest THEN 0 ELSE Index(LastOf(page))
             o == [op[k] EXCEPT !.keys = page, !.next = n]
  <1>1. /\ pc[k] = "list" /\ Goto(k, "delete") /\ "delete" \in Points
        /\ bucket' = bucket /\ rd' = rd /\ intact' = intact /\ escaped' = escaped /\ spent' = spent
    BY DEF ListPage, At, Points
  <1>2. op' = [op EXCEPT ![k] = o]
    <2>1. op' = [op EXCEPT ![k].keys = page, ![k].next = n]
      BY Zenon DEF ListPage, Page, LastOf
    <2> HIDE DEF page, n
    <2>2. op \in [Callers -> Op] BY OwnFacts
    <2> QED BY <2>1, <2>2
  <1>3. rest \in SUBSET Keys /\ Stored \subseteq Keys
    BY DEF Stored
  <1>4. page \in SUBSET Keys /\ page \subseteq rest
    BY <1>3 DEF Page
  <1>5. page # rest => LastOf(page) \in Keys /\ \A j \in rest \ page : Index(j) > Index(LastOf(page))
    <2> HIDE DEF rest
    <2> QED BY <1>3, <1>4, PageIsPrefix
  <1>6. n \in 0..Len(Order)
    BY <1>5, IndexFacts
  <1>7. o \in Op
    <2> HIDE DEF page, n
    <2> QED BY <1>4, <1>6, OwnFacts, OpPaged
  <1>8. o.keys = page /\ o.next = n /\ o.doomed = op[k].doomed
    <2> HIDE DEF page, n
    <2> QED BY OwnFacts DEF Op
  <1>9. CallOf("delete", o)
    BY DEF CallOf
  <1>10. DoomOf("delete", o)
    <2> SUFFICES ASSUME NEW key \in op[k].doomed, bucket[key] # None
                 PROVE  key \in page \/ (n # 0 /\ Index(key) > n)
      BY <1>8 DEF DoomOf
    <2>1. key \in Keys BY OwnFacts, OpFields
    <2>2. key \in rest
      BY <1>1, <2>1, OwnFacts DEF DoomOf, Stored
    <2>3. CASE page = rest
      BY <2>2, <2>3
    <2>4. CASE page # rest /\ key \notin page
      BY <1>5, <2>2, <2>4, IndexFacts
    <2> QED BY <2>3, <2>4
  <1> HIDE DEF o
  <1> QED BY <1>1, <1>2, <1>7, <1>9, <1>10, OwnFacts, QuietStep

\* A page is done: on to the next, or everything that was found is gone.
LEMMA PageDoneStep ==
    ASSUME Inv, NEW k \in Callers, PageDone(k)
    PROVE  Inv'
  <1>1. /\ pc[k] = "delete" /\ op[k].keys = {}
        /\ bucket' = bucket /\ rd' = rd /\ intact' = intact /\ spent' = spent
    BY DEF PageDone, At
  <1>2. CASE op[k].next # 0
    <2> DEFINE o == [op[k] EXCEPT !.token = op[k].next]
    <2>1. Goto(k, "list") /\ "list" \in Points /\ escaped' = escaped /\ op' = [op EXCEPT ![k] = o]
      BY <1>2, OwnFacts DEF PageDone, Points
    <2>2. o \in Op
      <3>1. op[k].next \in 0..Len(Order) /\ {} \in SUBSET Keys BY OwnFacts, OpFields
      <3> QED BY <3>1, OwnFacts, OpPaged
    <2>3. o.token = op[k].next /\ o.doomed = op[k].doomed
      BY OwnFacts DEF Op
    <2>4. CallOf("list", o) /\ DoomOf("list", o)
      BY <1>1, <2>3, OwnFacts DEF CallOf, DoomOf
    <2> HIDE DEF o
    <2> QED BY <1>1, <2>1, <2>2, <2>4, OwnFacts, QuietStep
  <1>3. CASE op[k].next = 0
    <2>1. op[k].doomed \cap Stored = {}
      BY <1>1, <1>3, OwnFacts DEF DoomOf, Stored
    <2>2. Goto(k, "idle") /\ op' = Returned(k) /\ escaped' = {}
      BY <1>3, <2>1, OwnFacts DEF PageDone
    <2> QED BY <1>1, <2>2, OwnFacts, ReturnStep
  <1> QED BY <1>2, <1>3

\* The objects that are put: the marker, a manifest, a ref whose manifest is there,
\* a blob that was verified.
LEMMA PutSteps ==
    ASSUME Inv, NEW k \in Callers,
           PutMarker(k) \/ PutManifestObject(k) \/ PutRef(k) \/ PutBlobObject(k)
    PROVE  Inv'
  <1> USE KeyFacts
  <1>1. /\ {"idle", "ref"} \subseteq Points /\ NoOp \in Op /\ NoOp.doomed = {} /\ NoOp.undisturbed = 1
        /\ {"marker", "manifest", "good"} \cup Commits \subseteq Objects
    BY NoOpFacts DEF Points, Objects, Bodies
  <1>2. "idle" # "ref"
    OBVIOUS
  <1>3. bucket \in [Keys -> Objects \cup {None}] /\ RefOK /\ bucket[Ref] \in Commits \cup {None}
    BY OwnFacts DEF Inv, BucketOK
  <1>4. ASSUME NEW key \in Keys, NEW value \in Objects, NEW o, Put(key, value, o)
        PROVE  /\ bucket' = [bucket EXCEPT ![key] = value] /\ value # None
               /\ \A x \in Keys : bucket'[x] = IF x = key THEN value ELSE bucket[x]
    BY <1>3, <1>4 DEF Put, Objects
  <1>5. CASE PutMarker(k)
    <2>1. Goto(k, "idle") /\ Put(Marker, "marker", [op EXCEPT ![k] = NoOp]) /\ rd' = rd
          /\ escaped' = escaped /\ spent' = spent /\ intact' = intact
      BY <1>5 DEF PutMarker, Returned
    <2>2. intact' = 1 /\ bucket'[Ref] # None => bucket'[bucket'[Ref]] # None
      BY <1>1, <1>3, <1>4, <2>1 DEF RefOK
    <2> QED BY <1>1, <1>2, <2>1, <2>2, OwnFacts, PutStep
  <1>6. CASE PutManifestObject(k)
    <2>1. op[k].key \in Commits /\ op[k].ref \in {0, 1} /\ op[k] \in Op
      BY <1>6, OwnFacts, OpFields DEF PutManifestObject, At, CallOf
    <2>2. rd' = rd /\ escaped' = escaped /\ spent' = spent /\ intact' = intact /\ intact' \in {0, 1}
      BY <1>6, OwnFacts DEF PutManifestObject
    <2>5. op[k].key \in Keys /\ op[k].key # Ref /\ op[k].key \notin Blobs /\ "manifest" \in Objects
      BY <1>1, <2>1
    <2>3. CASE op[k].ref = 1
      <3>1. Goto(k, "ref") /\ Put(op[k].key, "manifest", [op EXCEPT ![k] = op[k]])
        BY <1>6, <2>3, OwnFacts DEF PutManifestObject
      <3>2. \A x \in Keys : bucket'[x] = IF x = op[k].key THEN "manifest" ELSE bucket[x]
        BY <1>1, <1>4, <2>1, <3>1
      <3>3. intact' = 1 /\ bucket'[Ref] # None => bucket'[bucket'[Ref]] # None
        BY <1>3, <2>1, <2>2, <3>2 DEF RefOK
      <3>4. op[k].doomed = {}
        BY <1>6, OwnFacts DEF PutManifestObject, At, CallOf
      <3> QED BY <1>1, <2>1, <2>2, <2>5, <3>1, <3>3, <3>4, PutStep
    <2>4. CASE op[k].ref = 0
      <3>1. Goto(k, "idle") /\ Put(op[k].key, "manifest", [op EXCEPT ![k] = NoOp])
        BY <1>6, <2>4 DEF PutManifestObject, Returned
      <3>2. \A x \in Keys : bucket'[x] = IF x = op[k].key THEN "manifest" ELSE bucket[x]
        BY <1>1, <1>4, <2>1, <3>1
      <3>3. intact' = 1 /\ bucket'[Ref] # None => bucket'[bucket'[Ref]] # None
        BY <1>3, <2>1, <2>2, <3>2 DEF RefOK
      <3> QED BY <1>1, <1>2, <2>2, <2>5, <3>1, <3>3, PutStep
    <2> QED BY <2>1, <2>3, <2>4
  <1>7. CASE PutRef(k)
    <2>1. op[k].key \in Commits /\ (op[k].undisturbed = 1 => bucket[op[k].key] # None) /\ op[k] \in Op
          /\ op[k].undisturbed \in {0, 1}
      BY <1>7, OwnFacts, OpFields DEF PutRef, At, CallOf
    <2>2. rd' = rd /\ escaped' = escaped /\ spent' = spent /\ intact' = op[k].undisturbed
          /\ Goto(k, "idle") /\ Put(Ref, op[k].key, [op EXCEPT ![k] = NoOp])
      BY <1>7 DEF PutRef, Returned
    <2>3. \A x \in Keys : bucket'[x] = IF x = Ref THEN op[k].key ELSE bucket[x]
      BY <1>1, <1>4, <2>1, <2>2
    <2>4. intact' = 1 /\ bucket'[Ref] # None => bucket'[bucket'[Ref]] # None
      BY <2>1, <2>2, <2>3
    <2> QED BY <1>1, <1>2, <2>1, <2>2, <2>4, PutStep
  <1>8. CASE PutBlobObject(k)
    <2>1. op[k].key \in Blobs /\ op[k].body = "good"
      BY <1>8, OwnFacts DEF PutBlobObject, At, CallOf
    <2>2. rd' = rd /\ escaped' = escaped /\ spent' = spent /\ intact' = intact
          /\ Goto(k, "idle") /\ Put(op[k].key, "good", [op EXCEPT ![k] = NoOp])
      BY <1>8, <2>1 DEF PutBlobObject, Returned
    <2>3. \A x \in Keys : bucket'[x] = IF x = op[k].key THEN "good" ELSE bucket[x]
      BY <1>1, <1>4, <2>1, <2>2
    <2>4. intact' = 1 /\ bucket'[Ref] # None => bucket'[bucket'[Ref]] # None
      BY <1>3, <2>1, <2>2, <2>3 DEF RefOK
    <2> QED BY <1>1, <1>2, <2>1, <2>2, <2>4, OwnFacts, PutStep
  <1> QED BY <1>5, <1>6, <1>7, <1>8

\* The type of a reader's record, field by field, and of one with new fields.
LEMMA RdFields ==
    ASSUME NEW x \in Rd
    PROVE  /\ x.at \in {"idle", "manifest", "open", "read", "eof", "dangling"}
           /\ x.commit \in Commits \cup {None} /\ x.intact \in {0, 1} /\ x.key \in Blobs \cup {None}
           /\ x.pos \in 0..BlobSize /\ x.from \in 0..BlobSize /\ x.got \in Seq(0..BlobSize)
           /\ x.cur \in (0..BlobSize) \cup {None}
  BY DEF Rd

\* A reader that holds nothing.
LEMMA NoRdFacts ==
    /\ NoRd \in Rd /\ NoRd.at = "idle" /\ NoRd.cur = None /\ NoRd.pos = 0 /\ NoRd.from = 0
    /\ NoRd.got = <<>>
  <1>1. 0 \in 0..BlobSize
    BY SizesAssumption
  <1>2. NoRd \in Rd
    <2> DEFINE B == 0..BlobSize
               C == Commits \cup {None}
               K == Blobs \cup {None}
               M == B \cup {None}
               A == {"idle", "manifest", "open", "read", "eof", "dangling"}
               R == {0, 1}
               S == Seq(B)
    <2>1. 0 \in B /\ None \in C /\ None \in K /\ None \in M /\ <<>> \in S /\ "idle" \in A /\ 1 \in R
      BY <1>1
    <2>2. Rd = [at: A, commit: C, intact: R, key: K, pos: B, cur: M, from: B, got: S]
      BY DEF Rd
    <2> HIDE DEF A, B, C, K, M, R, S
    <2> QED BY <2>1, <2>2 DEF NoRd
  <1> QED BY <1>2 DEF NoRd

\* A reader is disturbed by a delete, or not.
LEMMA RdIntact ==
    ASSUME NEW x \in Rd, NEW i \in {0, 1}, NEW y, y = [x EXCEPT !.intact = i]
    PROVE  /\ y \in Rd /\ y.at = x.at /\ y.commit = x.commit /\ y.intact = i /\ y.key = x.key
           /\ y.pos = x.pos /\ y.cur = x.cur /\ y.from = x.from /\ y.got = x.got
  <1> DEFINE B == 0..BlobSize
             C == Commits \cup {None}
             K == Blobs \cup {None}
             M == B \cup {None}
             A == {"idle", "manifest", "open", "read", "eof", "dangling"}
             R == {0, 1}
             S == Seq(B)
  <1>1. i \in R OBVIOUS
  <1>2. Rd = [at: A, commit: C, intact: R, key: K, pos: B, cur: M, from: B, got: S]
    BY DEF Rd
  <1> HIDE DEF A, B, C, K, M, R, S
  <1> QED BY <1>1, <1>2

\* A reader resolves a ref.
LEMMA RdNew ==
    ASSUME NEW x \in Rd, NEW c \in Commits, NEW i \in {0, 1}
    PROVE  [x EXCEPT !.at = "manifest", !.commit = c, !.intact = i] \in Rd
  <1> DEFINE B == 0..BlobSize
             C == Commits \cup {None}
             K == Blobs \cup {None}
             M == B \cup {None}
             A == {"idle", "manifest", "open", "read", "eof", "dangling"}
             R == {0, 1}
             S == Seq(B)
  <1>1. c \in C /\ i \in R /\ "manifest" \in A
    OBVIOUS
  <1>2. Rd = [at: A, commit: C, intact: R, key: K, pos: B, cur: M, from: B, got: S]
    BY DEF Rd
  <1> HIDE DEF A, B, C, K, M, R, S
  <1> QED BY <1>1, <1>2

\* A reader goes on.
LEMMA RdAt ==
    ASSUME NEW x \in Rd, NEW at \in {"open", "eof", "dangling"}
    PROVE  [x EXCEPT !.at = at] \in Rd
  <1> DEFINE B == 0..BlobSize
             C == Commits \cup {None}
             K == Blobs \cup {None}
             M == B \cup {None}
             A == {"idle", "manifest", "open", "read", "eof", "dangling"}
             R == {0, 1}
             S == Seq(B)
  <1>1. at \in A
    OBVIOUS
  <1>2. Rd = [at: A, commit: C, intact: R, key: K, pos: B, cur: M, from: B, got: S]
    BY DEF Rd
  <1> HIDE DEF A, B, C, K, M, R, S
  <1> QED BY <1>1, <1>2

\* A reader opens a blob.
LEMMA RdOpened ==
    ASSUME NEW x \in Rd, NEW b \in Blobs
    PROVE  [x EXCEPT !.at = "read", !.key = b] \in Rd
  <1> DEFINE B == 0..BlobSize
             C == Commits \cup {None}
             K == Blobs \cup {None}
             M == B \cup {None}
             A == {"idle", "manifest", "open", "read", "eof", "dangling"}
             R == {0, 1}
             S == Seq(B)
  <1>1. b \in K /\ "read" \in A
    OBVIOUS
  <1>2. Rd = [at: A, commit: C, intact: R, key: K, pos: B, cur: M, from: B, got: S]
    BY DEF Rd
  <1> HIDE DEF A, B, C, K, M, R, S
  <1> QED BY <1>1, <1>2

\* A reader seeks.
LEMMA RdSought ==
    ASSUME NEW x \in Rd, NEW p \in 0..BlobSize, NEW m \in (0..BlobSize) \cup {None}
    PROVE  [x EXCEPT !.at = "read", !.pos = p, !.from = p, !.got = <<>>, !.cur = m] \in Rd
  <1> DEFINE B == 0..BlobSize
             C == Commits \cup {None}
             K == Blobs \cup {None}
             M == B \cup {None}
             A == {"idle", "manifest", "open", "read", "eof", "dangling"}
             R == {0, 1}
             S == Seq(B)
  <1>1. p \in B /\ m \in M /\ <<>> \in S /\ "read" \in A
    OBVIOUS
  <1>2. Rd = [at: A, commit: C, intact: R, key: K, pos: B, cur: M, from: B, got: S]
    BY DEF Rd
  <1> HIDE DEF A, B, C, K, M, R, S
  <1> QED BY <1>1, <1>2

\* A reader reads.
LEMMA RdRead ==
    ASSUME NEW x \in Rd, NEW p \in 0..BlobSize, NEW s \in Seq(0..BlobSize)
    PROVE  [x EXCEPT !.pos = p, !.cur = p, !.got = s] \in Rd
  <1> DEFINE B == 0..BlobSize
             C == Commits \cup {None}
             K == Blobs \cup {None}
             M == B \cup {None}
             A == {"idle", "manifest", "open", "read", "eof", "dangling"}
             R == {0, 1}
             S == Seq(B)
  <1>1. p \in B /\ p \in M /\ s \in S
    OBVIOUS
  <1>2. Rd = [at: A, commit: C, intact: R, key: K, pos: B, cur: M, from: B, got: S]
    BY DEF Rd
  <1> HIDE DEF A, B, C, K, M, R, S
  <1> QED BY <1>1, <1>2

\* A delete removes a key: calls and readers that are under way are disturbed.
LEMMA DeleteKeyStep ==
    ASSUME Inv, NEW k \in Callers, DeleteKey(k)
    PROVE  Inv'
  <1> USE KeyFacts
  <1> DEFINE u(j) == IF op[j] = NoOp THEN 1 ELSE 0
             ks(j, key) == IF j = k THEN op[j].keys \ {key} ELSE op[j].keys
             f(j) == IF j = k THEN 1 ELSE op[j].found
  <1>1. PICK key \in op[k].keys :
           /\ bucket' = [bucket EXCEPT ![key] = None]
           /\ op' = [j \in Callers |-> [op[j] EXCEPT !.undisturbed = u(j), !.keys = ks(j, key), !.found = f(j)]]
    BY OwnFacts DEF DeleteKey, Op
  <1>2. /\ pc[k] = "delete" /\ pc' = pc /\ intact' = 0 /\ escaped' = escaped /\ spent' = spent
        /\ rd' = [r \in Readers |-> [rd[r] EXCEPT !.intact = IF rd[r] = NoRd THEN 1 ELSE 0]]
    BY DEF DeleteKey, At
  <1>3. key \in Keys
    BY OwnFacts, OpFields
  <1>4. bucket' \in [Keys -> Objects \cup {None}]
        /\ \A x \in Keys : bucket'[x] = IF x = key THEN None ELSE bucket[x]
    BY <1>1, <1>3, OwnFacts
  <1>5. \A j \in Callers : /\ op'[j] \in Op /\ op'[j].undisturbed = u(j) /\ op'[j].keys = ks(j, key)
                           /\ op'[j].doomed = op[j].doomed /\ op'[j].next = op[j].next
                           /\ op'[j].token = op[j].token /\ op'[j].key = op[j].key /\ op'[j].body = op[j].body
    <2> SUFFICES ASSUME NEW j \in Callers
                 PROVE  /\ op'[j] \in Op /\ op'[j].undisturbed = u(j) /\ op'[j].keys = ks(j, key)
                        /\ op'[j].doomed = op[j].doomed /\ op'[j].next = op[j].next
                        /\ op'[j].token = op[j].token /\ op'[j].key = op[j].key /\ op'[j].body = op[j].body
      OBVIOUS
    <2>1. op[j] \in Op BY OwnFacts
    <2>2. u(j) \in {0, 1} /\ ks(j, key) \in SUBSET Keys /\ f(j) \in {0, 1}
      BY <2>1, OpFields
    <2>3. op'[j] = [op[j] EXCEPT !.undisturbed = u(j), !.keys = ks(j, key), !.found = f(j)]
      BY <1>1
    <2> HIDE DEF u, ks, f
    <2>4. PICK uj \in {0, 1}, kj \in SUBSET Keys, fj \in {0, 1} :
             /\ uj = u(j) /\ kj = ks(j, key) /\ fj = f(j)
             /\ op'[j] = [op[j] EXCEPT !.undisturbed = uj, !.keys = kj, !.found = fj]
      BY <2>2, <2>3
    <2>5. /\ op'[j] \in Op /\ op'[j].undisturbed = uj /\ op'[j].keys = kj
          /\ op'[j].doomed = op[j].doomed /\ op'[j].next = op[j].next
          /\ op'[j].token = op[j].token /\ op'[j].key = op[j].key /\ op'[j].body = op[j].body
      <3> DEFINE y == [op[j] EXCEPT !.undisturbed = uj, !.keys = kj, !.found = fj]
      <3>1. y \in Op
        BY <2>1, OpDeleted
      <3>2. y.undisturbed = uj /\ y.keys = kj
        BY <2>1 DEF Op
      <3>3. /\ y.doomed = op[j].doomed /\ y.next = op[j].next
            /\ y.token = op[j].token /\ y.key = op[j].key /\ y.body = op[j].body
        BY <2>1 DEF Op
      <3>4. op'[j] = y
        BY <2>4
      <3> HIDE DEF y
      <3> QED BY <3>1, <3>2, <3>3, <3>4
    <2> QED BY <2>4, <2>5
  <1>6. \A r \in Readers : /\ rd'[r] \in Rd /\ rd'[r].at = rd[r].at /\ rd'[r].commit = rd[r].commit
                           /\ rd'[r].key = rd[r].key /\ rd'[r].pos = rd[r].pos /\ rd'[r].cur = rd[r].cur
                           /\ rd'[r].from = rd[r].from /\ rd'[r].got = rd[r].got
                           /\ (rd[r].at # "idle" => rd'[r].intact = 0)
    <2> SUFFICES ASSUME NEW r \in Readers
                 PROVE  /\ rd'[r] \in Rd /\ rd'[r].at = rd[r].at /\ rd'[r].commit = rd[r].commit
                        /\ rd'[r].key = rd[r].key /\ rd'[r].pos = rd[r].pos /\ rd'[r].cur = rd[r].cur
                        /\ rd'[r].from = rd[r].from /\ rd'[r].got = rd[r].got
                        /\ (rd[r].at # "idle" => rd'[r].intact = 0)
      OBVIOUS
    <2>1. PICK i \in {0, 1} : rd'[r] = [rd[r] EXCEPT !.intact = i] /\ (rd[r] # NoRd => i = 0)
      BY <1>2
    <2>2. rd[r] \in Rd BY DEF Inv, TypeOK
    <2>3. rd[r].at # "idle" => rd[r] # NoRd
      BY DEF NoRd
    <2> QED BY <2>1, <2>2, <2>3, RdIntact
  <1>7. TypeOK'
    <2>1. op' \in [Callers -> Op] BY <1>1, <1>5
    <2>2. rd' \in [Readers -> Rd] BY <1>2, <1>6
    <2> QED BY <1>2, <1>4, <2>1, <2>2 DEF Inv, TypeOK
  <1>8. BucketOK' /\ RefOK'
    BY <1>2, <1>4 DEF Inv, BucketOK, BlobsGood, RefOK
  <1>9. CallsOK'
    <2>1. CallOf(pc[k], op[k])'
      BY <1>2, <1>5 DEF CallOf
    <2>2. DoomOf(pc[k], op[k])'
      <3>1. op[k].doomed \subseteq Keys BY OwnFacts, OpFields
      <3>2. DoomOf(pc[k], op[k]) BY OwnFacts
      <3>3. op'[k].keys = op[k].keys \ {key} /\ op'[k].doomed = op[k].doomed /\ op'[k].next = op[k].next
        BY <1>5
      <3> HIDE DEF u, ks, f
      <3> QED BY <1>2, <1>4, <3>1, <3>2, <3>3 DEF DoomOf
    <2>3. ASSUME NEW j \in Callers \ {k}
          PROVE  /\ op'[j].keys = op[j].keys
                 /\ \A x \in op'[j].doomed : bucket'[x] # None => bucket[x] # None
                 /\ pc[j] = "ref" => op'[j].undisturbed = 0
      <3>1. op[j].doomed \subseteq Keys BY OwnFacts, OpFields
      <3>2. pc[j] = "ref" => op[j] # NoOp
        BY OwnFacts, NoOpFacts DEF CallOf
      <3> QED BY <1>4, <1>5, <3>1, <3>2
    <2>4. CallsOK BY DEF Inv
    <2> HIDE DEF u, ks, f
    <2> QED BY <1>2, <1>5, <2>1, <2>2, <2>3, <2>4, CallsKept
  <1>10. ReadersOK'
    <2> SUFFICES ASSUME NEW r \in Readers PROVE FollowOf(rd[r])' /\ StreamOf(rd[r])'
      BY DEF ReadersOK
    <2>1. FollowOf(rd[r]) /\ StreamOf(rd[r])
      BY DEF Inv, ReadersOK
    <2> QED BY <1>6, <2>1 DEF FollowOf, StreamOf
  <1> QED BY <1>2, <1>7, <1>8, <1>9, <1>10 DEF Inv, DeletedGone

-----------------------------------------------------------------------------
(* The readers' steps *)

\* Resolving a ref, and finding its manifest, as nothing was deleted in between.
LEMMA FollowSteps ==
    ASSUME Inv, NEW r \in Readers, ResolveRef(r) \/ GetManifest(r)
    PROVE  Inv'
  <1> USE KeyFacts
  <1>1. /\ rd \in [Readers -> Rd] /\ rd[r] \in Rd /\ FollowOf(rd[r]) /\ StreamOf(rd[r])
        /\ intact \in {0, 1} /\ bucket[Ref] \in Commits \cup {None} /\ spent \in [Limited -> Nat] /\ RefOK
    BY DEF Inv, TypeOK, ReadersOK, BucketOK
  <1>2. CASE ResolveRef(r)
    <2> DEFINE x == [NoRd EXCEPT !.at = "manifest", !.commit = bucket[Ref], !.intact = intact]
    <2>1. bucket[Ref] \in Commits
      BY <1>1, <1>2 DEF ResolveRef
    <2>2. x \in Rd
      BY <1>1, <2>1, NoRdFacts, RdNew
    <2>3. /\ x.at = "manifest" /\ x.commit = bucket[Ref] /\ x.intact = intact /\ x.cur = None /\ x.pos = 0
          /\ x.from = 0 /\ x.got = <<>>
      BY NoRdFacts DEF Rd
    <2>4. FollowOf(x) /\ StreamOf(x)
      BY <1>1, <2>1, <2>3 DEF FollowOf, StreamOf, RefOK
    <2>5. rd' = [rd EXCEPT ![r] = x] /\ bucket' = bucket /\ pc' = pc /\ op' = op /\ intact' = intact
          /\ escaped' = escaped /\ spent' = spent
      BY <1>2 DEF ResolveRef
    <2> HIDE DEF x
    <2> QED BY <1>1, <2>2, <2>4, <2>5, ReaderStep
  <1>3. CASE GetManifest(r)
    <2>1. PICK at \in {"open", "dangling"} : /\ rd' = [rd EXCEPT ![r].at = at]
                                             /\ at = "dangling" => bucket[rd[r].commit] = None
      BY <1>3 DEF GetManifest
    <2> DEFINE x == [rd[r] EXCEPT !.at = at]
    <2>2. x \in Rd
      BY <1>1, RdAt
    <2>3. /\ x.at = at /\ x.intact = rd[r].intact /\ x.cur = rd[r].cur /\ x.pos = rd[r].pos
          /\ x.from = rd[r].from /\ x.got = rd[r].got
      BY <1>1 DEF Rd
    <2>4. rd[r].at = "manifest" /\ rd[r].intact \in {0, 1}
      BY <1>1, <1>3, RdFields DEF GetManifest
    <2>5. FollowOf(x) /\ StreamOf(x)
      BY <1>1, <2>1, <2>3, <2>4 DEF FollowOf, StreamOf
    <2>6. rd' = [rd EXCEPT ![r] = x] /\ bucket' = bucket /\ pc' = pc /\ op' = op /\ intact' = intact
          /\ escaped' = escaped /\ spent' = spent
      BY <1>1, <1>3, <2>1 DEF GetManifest
    <2> HIDE DEF x
    <2> QED BY <1>1, <2>2, <2>5, <2>6, ReaderStep
  <1> QED BY <1>2, <1>3

\* A reader gives up what it holds.
LEMMA DropStep ==
    ASSUME Inv, NEW r \in Readers, rd' = [rd EXCEPT ![r] = NoRd],
           bucket' = bucket, pc' = pc, op' = op, intact' = intact, escaped' = escaped, spent' = spent
    PROVE  Inv'
  <1>1. FollowOf(NoRd) /\ StreamOf(NoRd) /\ NoRd \in Rd /\ spent' \in [Limited -> Nat]
    BY NoRdFacts DEF FollowOf, StreamOf, Inv, TypeOK
  <1> QED BY <1>1, ReaderStep

\* Opening a blob, and seeking, which drops a stream that stands elsewhere.
LEMMA OpenSeekSteps ==
    ASSUME Inv, NEW r \in Readers,
           (\E b \in Blobs : OpenBlob(r, b)) \/ (\E n \in 0..BlobSize : Seek(r, n)) \/ ReadEOF(r) \/ Close(r)
    PROVE  Inv'
  <1> USE KeyFacts
  <1>1. /\ rd \in [Readers -> Rd] /\ rd[r] \in Rd /\ FollowOf(rd[r]) /\ StreamOf(rd[r])
        /\ spent \in [Limited -> Nat]
    BY DEF Inv, TypeOK, ReadersOK
  <1>2. ASSUME NEW b \in Blobs, OpenBlob(r, b) PROVE Inv'
    <2>1. bucket' = bucket /\ pc' = pc /\ op' = op /\ intact' = intact /\ escaped' = escaped /\ spent' = spent
          /\ rd[r].at = "open"
      BY <1>2 DEF OpenBlob
    <2>2. CASE bucket[b] = None
      BY <1>2, <2>1, <2>2, DropStep DEF OpenBlob
    <2>3. CASE bucket[b] # None
      <3> DEFINE x == [rd[r] EXCEPT !.at = "read", !.key = b]
      <3>1. x \in Rd
        BY <1>1, RdOpened
      <3>2. /\ x.at = "read" /\ x.key = b /\ x.cur = rd[r].cur /\ x.pos = rd[r].pos
            /\ x.from = rd[r].from /\ x.got = rd[r].got
        BY <1>1 DEF Rd
      <3>3. FollowOf(x) /\ StreamOf(x)
        BY <1>1, <2>1, <3>2 DEF FollowOf, StreamOf
      <3>4. rd' = [rd EXCEPT ![r] = x]
        BY <1>1, <1>2, <2>3 DEF OpenBlob
      <3> HIDE DEF x
      <3> QED BY <1>1, <2>1, <3>1, <3>3, <3>4, ReaderStep
    <2> QED BY <2>2, <2>3
  <1>3. ASSUME NEW n \in 0..BlobSize, Seek(r, n) PROVE Inv'
    <2>1. bucket' = bucket /\ pc' = pc /\ op' = op /\ intact' = intact /\ escaped' = escaped
          /\ rd[r].at \in {"read", "eof"} /\ spent' \in [Limited -> Nat]
      <3>1. bucket' = bucket /\ pc' = pc /\ op' = op /\ intact' = intact /\ escaped' = escaped
            /\ rd[r].at \in {"read", "eof"} /\ spent' = [spent EXCEPT !["seek"] = @ + 1]
        BY <1>3 DEF Seek, Spend
      <3>2. spent' \in [Limited -> Nat]
        BY <1>1, <3>1 DEF Limited
      <3> QED BY <3>1, <3>2
    <2>2. PICK m \in (0..BlobSize) \cup {None} :
             /\ m = IF n # rd[r].pos THEN None ELSE rd[r].cur
             /\ rd' = [rd EXCEPT ![r] = [rd[r] EXCEPT !.at = "read", !.pos = n, !.from = n, !.got = <<>>, !.cur = m]]
      <3> DEFINE w == IF n # rd[r].pos THEN None ELSE rd[r].cur
      <3>1. w \in (0..BlobSize) \cup {None}
        BY <1>1, RdFields
      <3>2. rd' = [rd EXCEPT ![r] = [rd[r] EXCEPT !.at = "read", !.pos = n, !.from = n, !.got = <<>>, !.cur = w]]
        BY <1>1, <1>3 DEF Seek
      <3> QED BY <3>1, <3>2, Zenon
    <2> DEFINE x == [rd[r] EXCEPT !.at = "read", !.pos = n, !.from = n, !.got = <<>>, !.cur = m]
    <2>3. x \in Rd
      BY <1>1, RdSought
    <2>4. x.at = "read" /\ x.key = rd[r].key /\ x.cur = m /\ x.pos = n /\ x.from = n /\ x.got = <<>>
      BY <1>1 DEF Rd
    <2>5. m \in {None, n} /\ rd[r].key \in Blobs /\ n \in Nat
      BY <1>1, <2>1, <2>2, SizesAssumption DEF StreamOf
    <2>6. FollowOf(x) /\ StreamOf(x)
      BY <2>4, <2>5 DEF FollowOf, StreamOf
    <2>7. rd' = [rd EXCEPT ![r] = x] BY <2>2
    <2> HIDE DEF x
    <2> QED BY <2>1, <2>3, <2>6, <2>7, ReaderStep
  <1>4. CASE ReadEOF(r)
    <2>1. bucket' = bucket /\ pc' = pc /\ op' = op /\ intact' = intact /\ escaped' = escaped /\ spent' = spent
          /\ rd[r].at = "read" /\ rd[r].pos >= BlobSize /\ rd' = [rd EXCEPT ![r].at = "eof"]
      BY <1>4 DEF ReadEOF
    <2> DEFINE x == [rd[r] EXCEPT !.at = "eof"]
    <2>2. x \in Rd
      BY <1>1, RdAt
    <2>3. /\ x.at = "eof" /\ x.key = rd[r].key /\ x.cur = rd[r].cur /\ x.pos = rd[r].pos
          /\ x.from = rd[r].from /\ x.got = rd[r].got
      BY <1>1 DEF Rd
    <2>4. rd[r].pos = BlobSize
      BY <1>1, <2>1, RdFields, SizesAssumption
    <2>5. FollowOf(x) /\ StreamOf(x)
      BY <1>1, <2>1, <2>3, <2>4 DEF FollowOf, StreamOf
    <2>6. rd' = [rd EXCEPT ![r] = x] BY <1>1, <2>1
    <2> HIDE DEF x
    <2> QED BY <1>1, <2>1, <2>2, <2>5, <2>6, ReaderStep
  <1>5. CASE Close(r)
    BY <1>5, DropStep DEF Close
  <1> QED BY <1>2, <1>3, <1>4, <1>5

\* What is read is put behind what was.
LEMMA ConcatFacts ==
    ASSUME NEW S, NEW a \in Seq(S), NEW n \in Nat, NEW f \in [1..n -> S]
    PROVE  /\ f \in Seq(S) /\ Len(f) = n
           /\ a \o f \in Seq(S) /\ Len(a \o f) = Len(a) + n
           /\ \A i \in 1..Len(a) : (a \o f)[i] = a[i]
           /\ \A i \in (Len(a) + 1)..(Len(a) + n) : (a \o f)[i] = f[i - Len(a)]
  <1>1. f \in Seq(S) /\ Len(f) = n
    BY SeqDef, LenProperties
  <1>2. /\ a \o f \in Seq(S) /\ Len(a \o f) = Len(a) + Len(f)
        /\ \A i \in 1..Len(a) + Len(f) : (a \o f)[i] = IF i <= Len(a) THEN a[i] ELSE f[i - Len(a)]
    BY <1>1, ConcatProperties
  <1>3. Len(a) \in Nat
    OBVIOUS
  <1> HIDE <1>1
  <1> QED BY <1>1, <1>2, <1>3

\* A read: the stream stands at the position, so the bytes are the next ones.
LEMMA ReadStep ==
    ASSUME Inv, NEW r \in Readers, NEW n \in 1..BlobSize, Read(r, n)
    PROVE  Inv'
  <1> USE KeyFacts
  <1>1. /\ rd \in [Readers -> Rd] /\ rd[r] \in Rd /\ FollowOf(rd[r]) /\ StreamOf(rd[r])
        /\ spent \in [Limited -> Nat]
    BY DEF Inv, TypeOK, ReadersOK
  <1>2. /\ bucket' = bucket /\ pc' = pc /\ op' = op /\ intact' = intact /\ escaped' = escaped /\ spent' = spent
        /\ rd[r].at = "read"
    BY DEF Read
  <1> DEFINE p == rd[r].pos
             B == 0..BlobSize
             f == [i \in 1..n |-> p + i - 1]
             s == rd[r].got \o f
             x == [rd[r] EXCEPT !.pos = p + n, !.cur = p + n, !.got = s]
  <1>3. /\ rd[r].key \in Blobs /\ rd[r].cur \in {None, p} /\ p = rd[r].from + Len(rd[r].got)
        /\ \A i \in 1..Len(rd[r].got) : rd[r].got[i] = rd[r].from + i - 1
    BY <1>1, <1>2 DEF StreamOf
  <1>4. (IF rd[r].cur = None THEN rd[r].pos ELSE rd[r].cur) = p
    BY <1>3
  <1>5. /\ n <= BlobSize - p
        /\ rd' = [rd EXCEPT ![r] = IF rd[r].cur = None /\ bucket[rd[r].key] = None THEN NoRd ELSE x]
    BY <1>4 DEF Read
  <1>6. CASE rd[r].cur = None /\ bucket[rd[r].key] = None
    <2>1. rd' = [rd EXCEPT ![r] = NoRd]
      BY <1>5, <1>6
    <2> QED BY <1>2, <2>1, DropStep
  <1>7. CASE ~(rd[r].cur = None /\ bucket[rd[r].key] = None)
    <2>1. rd' = [rd EXCEPT ![r] = x]
      BY <1>5, <1>7
    <2>2. p \in B /\ rd[r].from \in B /\ rd[r].got \in Seq(B) /\ BlobSize \in Nat /\ n \in Nat
      BY <1>1, RdFields, SizesAssumption
    <2>3. p + n \in B /\ f \in [1..n -> B]
      <3> HIDE DEF x, s, p
      <3>1. p \in Nat /\ p + n <= BlobSize
        BY <1>5, <2>2
      <3>2. \A i \in 1..n : p + i - 1 \in B
        BY <2>2, <3>1
      <3> QED BY <2>2, <3>1, <3>2
    <2>4. /\ s \in Seq(B) /\ Len(s) = Len(rd[r].got) + n
          /\ \A i \in 1..Len(rd[r].got) : s[i] = rd[r].got[i]
          /\ \A i \in (Len(rd[r].got) + 1)..(Len(rd[r].got) + n) : s[i] = f[i - Len(rd[r].got)]
      <3> HIDE DEF f, B, p
      <3> QED BY <2>2, <2>3, ConcatFacts
    <2>5. x \in Rd
      <3> HIDE DEF s, p
      <3> QED BY <1>1, <2>3, <2>4, RdRead
    <2>6. x.at = "read" /\ x.key = rd[r].key /\ x.cur = p + n /\ x.pos = p + n /\ x.from = rd[r].from
          /\ x.got = s
      <3> HIDE DEF s, p
      <3> QED BY <1>1, <1>2 DEF Rd
    <2>7. Len(rd[r].got) \in Nat /\ p \in Nat /\ rd[r].from \in Nat /\ p = rd[r].from + Len(rd[r].got)
          /\ Len(s) = Len(rd[r].got) + n
      BY <1>3, <2>2, <2>4
    <2>8. p + n = rd[r].from + Len(s)
      <3> HIDE DEF s, p
      <3> QED BY <2>7
    <2>9. \A i \in 1..Len(s) : s[i] = rd[r].from + i - 1
      <3> SUFFICES ASSUME NEW i \in 1..Len(s) PROVE s[i] = rd[r].from + i - 1
        OBVIOUS
      <3>1. CASE i <= Len(rd[r].got)
        <4> HIDE DEF s, p
        <4> QED BY <1>3, <2>4, <2>7, <3>1
      <3>2. CASE i > Len(rd[r].got)
        <4>1. i \in (Len(rd[r].got) + 1)..(Len(rd[r].got) + n) /\ i - Len(rd[r].got) \in 1..n
          <5> HIDE DEF s, p
          <5> QED BY <2>2, <2>4, <2>7, <3>2
        <4>2. s[i] = f[i - Len(rd[r].got)]
          <5> HIDE DEF s, f, p
          <5> QED BY <2>4, <4>1
        <4>3. f[i - Len(rd[r].got)] = p + (i - Len(rd[r].got)) - 1
          BY <4>1
        <4>4. i \in Int
          OBVIOUS
        <4> HIDE DEF x, s, f, p, B
        <4> QED BY <2>7, <4>2, <4>3, <4>4
      <3> HIDE DEF s
      <3> QED BY <2>7, <3>1, <3>2
    <2> HIDE DEF x, s, p
    <2>10. FollowOf(x) /\ StreamOf(x)
      BY <1>3, <2>6, <2>8, <2>9 DEF FollowOf, StreamOf
    <2> QED BY <1>1, <1>2, <2>1, <2>5, <2>10, ReaderStep
  <1> QED BY <1>6, <1>7

-----------------------------------------------------------------------------
(* The theorems *)

\* Whoever was under way is gone after a crash; the bucket is as it was.
LEMMA CrashStep ==
    ASSUME Inv, Crash
    PROVE  Inv'
  <1>1. /\ bucket' = bucket /\ intact' = intact /\ escaped' = escaped
        /\ pc' = [k \in Callers |-> "idle"] /\ op' = [k \in Callers |-> NoOp]
        /\ rd' = [r \in Readers |-> NoRd] /\ Spend("failure")
    BY DEF Crash
  <1>2. "idle" \in Points /\ "failure" \in Limited /\ spent \in [Limited -> Nat]
    BY DEF Points, Limited, Inv, TypeOK
  <1>3. spent' \in [Limited -> Nat]
    BY <1>1, <1>2 DEF Spend
  <1>4. pc' \in [Callers -> Points] /\ op' \in [Callers -> Op] /\ rd' \in [Readers -> Rd]
    BY <1>1, <1>2, NoOpFacts, NoRdFacts
  <1>5. TypeOK'
    BY <1>1, <1>3, <1>4 DEF Inv, TypeOK
  <1>6. BucketOK' /\ RefOK' /\ DeletedGone'
    BY <1>1 DEF Inv, BucketOK, BlobsGood, RefOK, DeletedGone
  <1>7. CallsOK'
    BY <1>1, NoOpFacts DEF CallsOK, CallOf, DoomOf
  <1>8. ReadersOK'
    BY <1>1, NoRdFacts DEF ReadersOK, FollowOf, StreamOf
  <1> QED BY <1>5, <1>6, <1>7, <1>8 DEF Inv

\* An empty bucket, no call and no reader.
LEMMA InitInv == Init => Inv
  <1> SUFFICES ASSUME Init PROVE Inv
    OBVIOUS
  <1> USE KeyFacts
  <1>1. TypeOK
    <2>1. "idle" \in Points BY DEF Points
    <2>2. pc \in [Callers -> Points] /\ op \in [Callers -> Op] /\ rd \in [Readers -> Rd]
      BY <2>1, NoOpFacts, NoRdFacts DEF Init
    <2>3. bucket \in [Keys -> Objects \cup {None}] /\ intact \in {0, 1} /\ escaped \subseteq Keys
          /\ spent \in [Limited -> Nat]
      BY DEF Init
    <2> QED BY <2>2, <2>3 DEF TypeOK
  <1>2. BucketOK /\ RefOK /\ DeletedGone
    BY DEF Init, BucketOK, BlobsGood, RefOK, DeletedGone
  <1>3. CallsOK
    BY NoOpFacts DEF Init, CallsOK, CallOf, DoomOf
  <1>4. ReadersOK
    BY NoRdFacts DEF Init, ReadersOK, FollowOf, StreamOf
  <1> QED BY <1>1, <1>2, <1>3, <1>4 DEF Inv

\* Every step keeps the invariant.
LEMMA NextInv == Inv /\ [Next]_vars => Inv'
  <1> SUFFICES ASSUME Inv, [Next]_vars PROVE Inv'
    OBVIOUS
  <1>1. ASSUME NEW k \in Callers, Step(k) PROVE Inv'
    BY <1>1, LookSteps, PutSteps, ListPageStep, DeleteKeyStep, PageDoneStep DEF Step
  <1>2. ASSUME NEW k \in Callers, Fail(k) PROVE Inv'
    BY <1>2, LookSteps
  <1>3. CASE UNCHANGED vars
    BY <1>3 DEF vars, Inv, TypeOK, BucketOK, BlobsGood, CallsOK, CallOf, DoomOf, RefOK, ReadersOK,
                FollowOf, StreamOf, DeletedGone
  <1> QED BY <1>1, <1>2, <1>3, CallSteps, FollowSteps, OpenSeekSteps, ReadStep, CrashStep DEF Next

\* The inductive invariant holds in every behaviour.
LEMMA InvHolds == Spec => []Inv
  BY InitInv, NextInv, PTL DEF Spec

\* Every object, call and reader keeps a value the code can give it.
THEOREM TypeCorrect == Spec => []TypeOK
  <1>1. Inv => TypeOK BY DEF Inv
  <1> QED BY <1>1, InvHolds, PTL

\* A reader that resolved the ref (ResolveRef) finds the manifest it names
\* (GetManifest) unless a DeleteRepo removed an object since that manifest was put:
\* PutManifest writes the manifest before the ref, whatever fails in between.
THEOREM ManifestFound == Spec => []ReadersFindManifest
  <1>1. Inv => ReadersFindManifest
    BY DEF Inv, ReadersOK, FollowOf, ReadersFindManifest
  <1> QED BY <1>1, InvHolds, PTL

\* No upload with the wrong content becomes visible as a blob: spoolAndVerify comes
\* before every put of PutBlob, also when the HEAD before it failed.
THEOREM BlobsVerified == Spec => []BlobsGood
  <1>1. Inv => BlobsGood BY DEF Inv, BucketOK
  <1> QED BY <1>1, InvHolds, PTL

\* A DeleteRepo that succeeds has removed all that it found, for any number of keys
\* and any page size: a page is a prefix of what is left behind the token, and the
\* next page begins behind its last key.
THEOREM DeleteComplete == Spec => []DeletedGone
  <1>1. Inv => DeletedGone BY DEF Inv
  <1> QED BY <1>1, InvHolds, PTL

\* A ranged reader delivers the bytes from the last seek on, in order and without a
\* gap, and the end of the file only after the last one: the open stream stands at
\* the position whenever a seek has not dropped it.
THEOREM ReadsExact == Spec => []ReadExact
  <1>1. Inv => ReadExact
    <2> SUFFICES ASSUME Inv, NEW r \in Readers, rd[r].at \in {"read", "eof"}
                 PROVE  /\ rd[r].got = [i \in 1..Len(rd[r].got) |-> rd[r].from + i - 1]
                        /\ rd[r].at = "eof" => rd[r].from + Len(rd[r].got) = BlobSize
      BY DEF ReadExact
    <2>1. StreamOf(rd[r]) /\ rd[r] \in Rd
      BY DEF Inv, TypeOK, ReadersOK
    <2>2. rd[r].got \in Seq(0..BlobSize)
      BY <2>1, RdFields
    <2>3. rd[r].got = [i \in 1..Len(rd[r].got) |-> rd[r].got[i]]
      BY <2>2, LenProperties
    <2>4. /\ \A i \in 1..Len(rd[r].got) : rd[r].got[i] = rd[r].from + i - 1
          /\ rd[r].pos = rd[r].from + Len(rd[r].got)
          /\ rd[r].at = "eof" => rd[r].pos = BlobSize
      BY <2>1 DEF StreamOf
    <2> QED BY <2>3, <2>4
  <1> QED BY <1>1, InvHolds, PTL

=============================================================================
