------------------------- MODULE RelayWriteProofs -------------------------
(***************************************************************************)
(* Theorems about RelayWrite, for any clients, files and edits, and any    *)
(* number of requests, retries, lost replies, failures and crashes.        *)
(***************************************************************************)
EXTENDS RelayWrite, SequenceTheorems, TLAPS

\* Where a request is says what it asks for and what its handler has found.
PointOf(cl) ==
    /\ pc[cl] \in {"stat", "mkdir"} => req[cl].kind = "create"
    /\ pc[cl] \in {"wait", "resolve", "read", "files"} => req[cl].kind = "commit"
    /\ pc[cl] \in {"manifest", "ref", "queue"} =>
          req[cl].kind \in {"create", "commit"} /\ local[cl].new \in Commits
    /\ pc[cl] \in {"rmdir", "rmmeta", "unqueue"} => req[cl].kind = "delete"
    /\ pc[cl] \in {"rmmeta", "unqueue"} => deletes > 0
    /\ pc[cl] # "idle" => reply[cl] = "none"
    /\ reply[cl] # "none" => req[cl].kind # "none"
    /\ req[cl].kind = "commit" => req[cl].edit \in Edits
    /\ req[cl].kind = "commit" /\ pc[cl] \in {"read", "files", "manifest", "ref", "queue"} =>
          local[cl].parent \in Commits
    /\ req[cl].kind = "create" /\ pc[cl] \in {"manifest", "ref", "queue"} => local[cl].new = InitCommit
    /\ req[cl].kind = "commit" /\ pc[cl] \in {"manifest", "ref", "queue"} =>
          \E t \in Tree : local[cl].new = Append(local[cl].parent, t)
    /\ effect[cl] # None => req[cl].kind \in {"create", "commit"}
    /\ effect[cl] # None /\ req[cl].kind = "create" => effect[cl] = InitCommit

\* The blobs and the manifest of what a handler is about to publish are there.
ServableOf(cl) ==
    /\ req[cl].kind = "commit" /\ pc[cl] \in {"read", "files"} => BlobsOf(local[cl].parent) \subseteq blobs
    /\ pc[cl] \in {"manifest", "ref"} => BlobsOf(local[cl].new) \subseteq blobs
    /\ pc[cl] = "ref" => local[cl].new \in manifests

\* A CreateRepo past its check that has not pointed main yet.
Creating(cl) == req[cl].kind = "create" /\ pc[cl] \in {"mkdir", "manifest", "ref"}

\* The branch as the handlers see it: a commit under the mutex works on the head.
BranchOf(cl) ==
    /\ Creating(cl) => births = 1 /\ main = None
    /\ req[cl].kind = "commit" /\ pc[cl] \in {"read", "files", "manifest", "ref"} => main = local[cl].parent
    /\ req[cl].kind = "commit" /\ pc[cl] = "queue" => main = local[cl].new
    /\ pc[cl] = "queue" => main # None
    /\ effect[cl] # None => main # None /\ Ancestor(effect[cl], main)

PointOK == \A cl \in Clients : PointOf(cl)
DiskOK == deletes = 0 => HeadServable /\ \A cl \in Clients : ServableOf(cl)
BranchOK ==
    Calm => /\ births = 0 => main = None
            /\ \A cl \in Clients : BranchOf(cl)
            /\ \A cl, dl \in Clients : Creating(cl) /\ Creating(dl) => cl = dl
            /\ OnBranch
            /\ \A i \in 1 .. Len(queued) : queued[i] # None => main # None /\ Ancestor(queued[i], main)

Inv == /\ TypeOK /\ PointOK /\ LockByCommit /\ DiskOK /\ BranchOK
       /\ RetryContains /\ CommitsInOrder

-----------------------------------------------------------------------------
(* Facts about commits *)

\* "Nothing" is none of the things it stands in for.
LEMMA NoneFacts == None \notin Clients /\ None \notin Blobs /\ None \notin Edits /\ None \notin Commits
  BY NoneAssumption DEF Commits, Tree

\* A commit determines its tree, and one more edit is a new commit.
LEMMA CommitFacts ==
    /\ InitCommit \in Commits
    /\ \A c \in Commits : TreeOf(c) \in Tree
    /\ \A c \in Commits, t \in Tree : Append(c, t) \in Commits /\ Append(c, t) # InitCommit
                                      /\ TreeOf(Append(c, t)) = t
  <1>1. EmptyTree \in Tree
    BY DEF EmptyTree, Tree
  <1>2. \A c \in Commits : TreeOf(c) \in Tree
    BY <1>1 DEF TreeOf, Commits, InitCommit
  <1>3. \A c \in Commits, t \in Tree : Append(c, t) \in Commits /\ Append(c, t) # InitCommit
                                      /\ TreeOf(Append(c, t)) = t
    BY DEF TreeOf, Commits, InitCommit
  <1> QED BY <1>2, <1>3 DEF Commits, InitCommit

\* Ancestry is a partial order with the initial commit at its bottom.
LEMMA AncestorFacts ==
    /\ \A c \in Commits : Ancestor(c, c) /\ Ancestor(InitCommit, c)
    /\ \A a, b, c \in Commits : Ancestor(a, b) /\ Ancestor(b, c) => Ancestor(a, c)
    /\ \A a, b \in Commits : Ancestor(a, b) /\ Ancestor(b, a) => a = b
    /\ \A a, c \in Commits, t \in Tree : Ancestor(a, c) => Ancestor(a, Append(c, t))
  <1>1. \A c \in Commits : Ancestor(c, c) /\ Ancestor(InitCommit, c)
    BY DEF Ancestor, Commits, InitCommit
  <1>2. \A a, b, c \in Commits : Ancestor(a, b) /\ Ancestor(b, c) => Ancestor(a, c)
    BY DEF Ancestor, Commits
  <1>3. \A a, b \in Commits : Ancestor(a, b) /\ Ancestor(b, a) => a = b
    <2> SUFFICES ASSUME NEW a \in Commits, NEW b \in Commits, Ancestor(a, b), Ancestor(b, a) PROVE a = b
      OBVIOUS
    <2>1. Len(a) = Len(b) /\ \A i \in 1 .. Len(a) : a[i] = b[i]
      BY DEF Ancestor, Commits
    <2> QED BY <2>1, SeqEqual DEF Commits
  <1>4. \A a, c \in Commits, t \in Tree : Ancestor(a, c) => Ancestor(a, Append(c, t))
    BY DEF Ancestor, Commits
  <1> QED BY <1>1, <1>2, <1>3, <1>4

\* The tree of an edit, and what its files need.
LEMMA ApplyFacts ==
    ASSUME NEW e \in Edits, NEW tree \in Tree
    PROVE  /\ Apply(e, tree) \in Tree
           /\ \A x \in Paths : Apply(e, tree)[x] \in {tree[x], None} \cup (IF e.via = "remove" THEN {} ELSE {e.blob})
  <1>1. e.path \in Paths /\ e.blob \in Blobs /\ e.via \in Vias
    BY EditsAssumption
  <1> QED BY <1>1 DEF Apply, Tree

-----------------------------------------------------------------------------
(* What a step of one client leaves alone *)

\* The other clients' requests stay where they are.
Frame(cl) ==
    \A j \in Clients \ {cl} :
        /\ pc'[j] = pc[j] /\ req'[j] = req[j] /\ local'[j] = local[j]
        /\ reply'[j] = reply[j] /\ told'[j] = told[j] /\ effect'[j] = effect[j]

\* LockByCommit for one client.
LockOf(cl) == lock = cl <=> req[cl].kind = "commit" /\ pc[cl] \notin {"idle", "wait"}

\* What a request knows survives the steps of the others.
LEMMA PointFrame ==
    ASSUME TypeOK, PointOK, NEW cl \in Clients, Frame(cl), PointOf(cl)',
           deletes' = deletes \/ deletes' = deletes + 1
    PROVE  PointOK'
  <1> SUFFICES ASSUME NEW j \in Clients, j # cl PROVE PointOf(j)'
    BY DEF PointOK
  <1>1. PointOf(j) BY DEF PointOK
  <1>2. /\ pc'[j] = pc[j] /\ req'[j] = req[j] /\ local'[j] = local[j]
        /\ reply'[j] = reply[j] /\ effect'[j] = effect[j]
    BY DEF Frame
  <1>3. deletes > 0 => deletes' > 0
    BY DEF TypeOK
  <1> QED BY <1>1, <1>2, <1>3 DEF PointOf

\* So does its hold of the mutex.
LEMMA LockFrame ==
    ASSUME LockByCommit, NEW cl \in Clients, Frame(cl), LockOf(cl)',
           \A j \in Clients \ {cl} : lock' = j <=> lock = j
    PROVE  LockByCommit'
  <1> SUFFICES ASSUME NEW j \in Clients, j # cl
               PROVE (lock = j <=> req[j].kind = "commit" /\ pc[j] \notin {"idle", "wait"})'
    BY DEF LockByCommit, LockOf
  <1>1. lock = j <=> req[j].kind = "commit" /\ pc[j] \notin {"idle", "wait"}
    BY DEF LockByCommit
  <1>2. pc'[j] = pc[j] /\ req'[j] = req[j] /\ (lock' = j <=> lock = j)
    BY DEF Frame
  <1> QED BY <1>1, <1>2

\* Blobs and manifests that are there stay there while nothing is deleted.
LEMMA DiskFrame ==
    ASSUME DiskOK, NEW cl \in Clients, Frame(cl), deletes' = deletes,
           blobs \subseteq blobs', manifests \subseteq manifests',
           deletes = 0 => HeadServable' /\ ServableOf(cl)'
    PROVE  DiskOK'
  <1> SUFFICES ASSUME deletes = 0, NEW j \in Clients, j # cl PROVE ServableOf(j)'
    BY DEF DiskOK
  <1>1. ServableOf(j) BY DEF DiskOK
  <1>2. pc'[j] = pc[j] /\ req'[j] = req[j] /\ local'[j] = local[j]
    BY DEF Frame
  <1> QED BY <1>1, <1>2 DEF ServableOf

\* The branch, for steps that do not move it.
LEMMA BranchFrame ==
    ASSUME TypeOK, BranchOK, NEW cl \in Clients, Frame(cl), deletes' = deletes,
           births' = births \/ (births' = births + 1 /\ (Calm' => main = None) /\ Creating(cl)'),
           main' = main, births' = births /\ Creating(cl)' => Creating(cl),
           Calm' => BranchOf(cl)',
           Calm => \A a \in acked' : a \in acked \/ (main # None /\ Ancestor(a, main)),
           Calm => \A i \in 1 .. Len(queued') :
                      queued'[i] # None => main # None /\ Ancestor(queued'[i], main)
    PROVE  BranchOK'
  <1> SUFFICES ASSUME Calm' PROVE BranchOK'
    BY DEF BranchOK
  <1>1. Calm /\ (births' = births \/ births = 0)
    BY DEF Calm, TypeOK
  <1>2. \A j \in Clients : BranchOf(j)
    BY <1>1 DEF BranchOK
  <1>3. \A j \in Clients \ {cl} : Creating(j)' <=> Creating(j)
    BY DEF Frame, Creating
  <1>4. \A j \in Clients \ {cl} : births = 0 => ~Creating(j)
    BY <1>2 DEF BranchOf
  <1>5. ASSUME NEW j \in Clients, j # cl PROVE BranchOf(j)'
    <2>1. pc'[j] = pc[j] /\ req'[j] = req[j] /\ local'[j] = local[j] /\ effect'[j] = effect[j]
      BY <1>5 DEF Frame
    <2>2. Creating(j)' => births' = 1
      BY <1>2, <1>3, <1>4, <1>1, <1>5 DEF BranchOf
    <2> QED BY <1>2, <1>3, <1>5, <2>1, <2>2 DEF BranchOf
  <1>6. births' = 0 => main' = None
    BY <1>1, <1>2 DEF BranchOK
  <1>7. \A c, d \in Clients : Creating(c)' /\ Creating(d)' => c = d
    <2>1. \A c, d \in Clients : Creating(c) /\ Creating(d) => c = d
      BY <1>1 DEF BranchOK
    <2>2. CASE births' = births
      BY <1>3, <2>1, <2>2
    <2>3. CASE births = 0
      BY <1>3, <1>4, <2>3
    <2> QED BY <1>1, <2>2, <2>3
  <1>8. OnBranch'
    BY <1>1 DEF BranchOK, OnBranch
  <1> QED BY <1>1, <1>5, <1>6, <1>7, <1>8 DEF BranchOK

-----------------------------------------------------------------------------
(* A handler ends *)

\* An enqueue call is the last of the log.
LEMMA QueueFacts ==
    ASSUME NEW s \in Seq(Commits \cup {None}), NEW x \in Commits \cup {None}
    PROVE  /\ Append(s, x) \in Seq(Commits \cup {None})
           /\ Len(Append(s, x)) = Len(s) + 1 /\ Append(s, x)[Len(s) + 1] = x
           /\ Len(s) \in Nat
           /\ \A k \in 1 .. Len(s) : Append(s, x)[k] = s[k] /\ s[k] \in Commits \cup {None}
           /\ \A k \in 1 .. Len(s) + 1 : k \in 1 .. Len(s) \/ k = Len(s) + 1
  <1> DEFINE S == Commits \cup {None}
  <1>1. s \in Seq(S) /\ x \in S OBVIOUS
  <1> HIDE DEF S
  <1>2. /\ Append(s, x) \in Seq(S)
        /\ Len(Append(s, x)) = Len(s) + 1 /\ Append(s, x)[Len(s) + 1] = x
        /\ Len(s) \in Nat
        /\ \A k \in 1 .. Len(s) : Append(s, x)[k] = s[k] /\ s[k] \in S
    BY <1>1
  <1>3. \A k \in 1 .. Len(s) + 1 : k \in 1 .. Len(s) \/ k = Len(s) + 1
    BY <1>2
  <1> QED BY <1>2, <1>3 DEF S

\* The handler of cl ends with the answer r, naming the commit c.  The queue may
\* have been told of q, which is the head or the initial commit.
LEMMA LeaveStep ==
    ASSUME Inv, NEW cl \in Clients, pc[cl] # "idle", Leave(cl),
           NEW r \in Replies \ {"none"}, NEW c \in Commits \cup {None},
           reply' = [reply EXCEPT ![cl] = r], told' = [told EXCEPT ![cl] = c],
           main' = main, manifests' = manifests, effect' = effect,
           births' = births, deletes' = deletes, exists' \in {0, 1},
           blobs \subseteq blobs', blobs' \subseteq Blobs, spent' \in [Limited -> Nat],
           acked' \subseteq Commits, NEW q \in Commits \cup {None},
           queued' = queued \/ queued' = Append(queued, q),
           Calm /\ q # None => main # None /\ Ancestor(q, main) /\ q \in {main, InitCommit},
           Calm /\ r = "ok" /\ effect[cl] # None => Ancestor(effect[cl], c),
           Calm => \A a \in acked' : a \in acked \/ (main # None /\ Ancestor(a, main))
    PROVE  Inv'
  <1> USE NoneFacts
  <1>1. Frame(cl)
    BY DEF Inv, TypeOK, Leave, Goto, Frame
  <1>2. pc'[cl] = "idle" /\ req' = req /\ local'[cl] = NoLocal /\ reply'[cl] = r /\ told'[cl] = c
    BY DEF Inv, TypeOK, Leave, Goto
  <1>3. TypeOK'
    <2>1. pc' \in [Clients -> Points] /\ reply' \in [Clients -> Replies]
          /\ told' \in [Clients -> Commits \cup {None}]
      BY DEF Inv, TypeOK, Leave, Goto, Points
    <2>2. local' \in [Clients -> [parent: Commits \cup {None}, new: Commits \cup {None}]]
      BY DEF Inv, TypeOK, Leave, NoLocal
    <2>3. queued' \in Seq(Commits \cup {None})
      <3>1. queued \in Seq(Commits \cup {None}) BY DEF Inv, TypeOK
      <3>2. Append(queued, q) \in Seq(Commits \cup {None}) BY <3>1, QueueFacts
      <3> QED BY <3>1, <3>2, Zenon
    <2>4. lock' \in Clients \cup {None}
      BY DEF Inv, TypeOK, Leave
    <2> QED BY <1>2, <2>1, <2>2, <2>3, <2>4 DEF Inv, TypeOK
  <1>4. PointOK'
    <2>1. PointOf(cl) BY DEF Inv, PointOK
    <2>2. PointOf(cl)'
      <3>1. pc[cl] \in Points BY DEF Inv, TypeOK
      <3>2. req[cl].kind # "none" BY <2>1, <3>1 DEF Points, PointOf
      <3> QED BY <1>2, <2>1, <3>2 DEF PointOf
    <2> QED BY <1>1, <2>2, PointFrame DEF Inv
  <1>5. LockByCommit'
    <2>1. LockOf(cl)' /\ \A j \in Clients \ {cl} : lock' = j <=> lock = j
      BY <1>2 DEF LockOf, Leave
    <2> QED BY <1>1, <2>1, LockFrame DEF Inv
  <1>6. DiskOK'
    <2>1. ServableOf(cl)'
      BY <1>2 DEF ServableOf
    <2>2. deletes = 0 => HeadServable'
      BY DEF Inv, DiskOK, HeadServable
    <2> QED BY <1>1, <2>1, <2>2, DiskFrame DEF Inv
  <1>7. Calm' <=> Calm
    BY DEF Calm
  <1>8. BranchOK'
    <2>1. ~Creating(cl)'
      BY <1>2 DEF Creating
    <2>2. Calm' => BranchOf(cl)'
      BY <1>2, <1>7, <2>1 DEF Inv, BranchOK, BranchOf
    <2>3. Calm => \A i \in 1 .. Len(queued') :
                     queued'[i] # None => main # None /\ Ancestor(queued'[i], main)
      <3>1. Calm => \A i \in 1 .. Len(queued) :
                       queued[i] # None => main # None /\ Ancestor(queued[i], main)
        BY DEF Inv, BranchOK
      <3>2. queued \in Seq(Commits \cup {None}) BY DEF Inv, TypeOK
      <3>3. CASE queued' = Append(queued, q)
        BY <3>1, <3>2, <3>3, QueueFacts
      <3> QED BY <3>1, <3>3
    <2> QED BY <1>1, <2>1, <2>2, <2>3, BranchFrame DEF Inv
  <1>9. RetryContains'
    <2> SUFFICES ASSUME Calm, NEW j \in Clients, reply'[j] = "ok", effect[j] # None
                 PROVE  Ancestor(effect[j], told'[j])
      BY <1>7 DEF RetryContains
    <2> QED BY <1>1, <1>2 DEF Inv, RetryContains, Frame
  <1>10. CommitsInOrder'
    <2> SUFFICES ASSUME Calm, queued' = Append(queued, q) PROVE CommitsInOrder'
      BY <1>7 DEF Inv, CommitsInOrder, Overtaken
    <2> SUFFICES ASSUME NEW i \in 1 .. Len(queued'), NEW j \in 1 .. Len(queued'),
                        i < j, queued'[j] # InitCommit
                 PROVE  ~Overtaken(i, j)'
      BY DEF CommitsInOrder
    <2>1. Len(queued') = Len(queued) + 1 /\ queued'[Len(queued) + 1] = q
          /\ \A k \in 1 .. Len(queued) : queued'[k] = queued[k] /\ queued[k] \in Commits \cup {None}
          /\ Len(queued) \in Nat
      BY QueueFacts DEF Inv, TypeOK
    <2>2. i \in 1 .. Len(queued)
      BY <2>1
    <2>3. CASE j \in 1 .. Len(queued)
      BY <2>1, <2>2, <2>3 DEF Inv, CommitsInOrder, Overtaken
    <2>4. CASE j = Len(queued) + 1 /\ q # None /\ queued[i] # None
      <3>1. q = main /\ Ancestor(queued[i], main)
        BY <2>1, <2>2, <2>4 DEF Inv, BranchOK
      <3> QED BY <2>1, <2>2, <2>4, <3>1, AncestorFacts DEF Overtaken
    <2>5. CASE j = Len(queued) + 1 /\ ~(q # None /\ queued[i] # None)
      BY <2>1, <2>2, <2>5 DEF Overtaken
    <2>6. j \in 1 .. Len(queued) \/ j = Len(queued) + 1
      BY <2>1
    <2> QED BY <2>3, <2>4, <2>5, <2>6
  <1> QED BY <1>3, <1>4, <1>5, <1>6, <1>8, <1>9, <1>10 DEF Inv

\* An answer reaches its client or is lost.
LEMMA AnswerCases ==
    ASSUME TypeOK, NEW cl \in Clients, NEW outcome, NEW commit \in Commits \cup {None},
           Answer(cl, outcome, commit)
    PROVE  /\ Leave(cl) /\ spent' \in [Limited -> Nat]
           /\ \/ /\ reply' = [reply EXCEPT ![cl] = outcome] /\ told' = [told EXCEPT ![cl] = commit]
                 /\ acked' = acked \cup ({commit} \ {None})
              \/ /\ reply' = [reply EXCEPT ![cl] = "lost"] /\ told' = [told EXCEPT ![cl] = told[cl]]
                 /\ acked' = acked
  BY DEF TypeOK, Answer, Spend, Limited

\* An answer that names no commit, or one the branch has.
LEMMA AnswerStep ==
    ASSUME Inv, NEW cl \in Clients, pc[cl] # "idle",
           NEW outcome \in Replies \ {"none"}, NEW commit \in Commits \cup {None},
           Answer(cl, outcome, commit),
           main' = main, manifests' = manifests, effect' = effect,
           births' = births, deletes' = deletes, exists' \in {0, 1},
           blobs \subseteq blobs', blobs' \subseteq Blobs,
           NEW q \in Commits \cup {None}, queued' = queued \/ queued' = Append(queued, q),
           Calm /\ q # None => main # None /\ Ancestor(q, main) /\ q \in {main, InitCommit},
           Calm /\ outcome = "ok" /\ effect[cl] # None => Ancestor(effect[cl], commit),
           Calm /\ commit # None => main # None /\ Ancestor(commit, main)
    PROVE  Inv'
  <1>1. TypeOK BY DEF Inv
  <1>2. Leave(cl) /\ spent' \in [Limited -> Nat]
    BY <1>1, AnswerCases
  <1>3. acked' \subseteq Commits
        /\ (Calm => \A a \in acked' : a \in acked \/ (main # None /\ Ancestor(a, main)))
    BY <1>1, AnswerCases DEF TypeOK
  <1>4. CASE reply' = [reply EXCEPT ![cl] = outcome] /\ told' = [told EXCEPT ![cl] = commit]
    BY <1>2, <1>3, <1>4, LeaveStep
  <1>5. CASE reply' = [reply EXCEPT ![cl] = "lost"] /\ told' = [told EXCEPT ![cl] = told[cl]]
    <2>1. "lost" \in Replies \ {"none"} /\ told[cl] \in Commits \cup {None}
      BY <1>1 DEF TypeOK, Replies
    <2> QED BY <1>2, <1>3, <1>5, <2>1, LeaveStep
  <1> QED BY <1>1, <1>4, <1>5, AnswerCases

\* The handlers' answers: a repo that is there already, a branch that is not, a
\* parent that is not the head, a commit without manifest, a missing LFS blob.
LEMMA AnswerNothing ==
    ASSUME Inv, NEW cl \in Clients, pc[cl] # "idle",
           NEW outcome \in Replies \ {"none", "ok"}, Answer(cl, outcome, None),
           main' = main, manifests' = manifests, effect' = effect,
           births' = births, deletes' = deletes, exists' \in {0, 1},
           blobs \subseteq blobs', blobs' \subseteq Blobs, queued' = queued
    PROVE  Inv'
  BY AnswerStep

\* A failing backend call.
LEMMA FailStep ==
    ASSUME Inv, NEW cl \in Clients, Fail(cl)
    PROVE  Inv'
  <1>1. pc[cl] # "idle" /\ Leave(cl) /\ reply' = [reply EXCEPT ![cl] = "error"]
        /\ "error" \in Replies \ {"none"}
    BY DEF Fail, Replies
  <1>2. told' = [told EXCEPT ![cl] = told[cl]] /\ told[cl] \in Commits \cup {None}
        /\ queued' = queued /\ acked' = acked /\ acked \subseteq Commits
    BY DEF Fail, Inv, TypeOK, history
  <1>3. /\ main' = main /\ manifests' = manifests /\ effect' = effect
        /\ births' = births /\ deletes' = deletes /\ exists' \in {0, 1}
        /\ blobs \subseteq blobs' /\ blobs' \subseteq Blobs /\ spent' \in [Limited -> Nat]
    BY DEF Fail, Inv, TypeOK, history, disk, Spend, Limited
  <1> QED BY <1>1, <1>2, <1>3, LeaveStep

\* What the handler at fan-out has published is on the branch.
LEMMA Published ==
    ASSUME Inv, NEW cl \in Clients, pc[cl] = "queue"
    PROVE  /\ local[cl].new \in Commits
           /\ Calm => /\ main # None /\ Ancestor(local[cl].new, main)
                      /\ local[cl].new \in {main, InitCommit}
                      /\ effect[cl] # None => Ancestor(effect[cl], local[cl].new)
  <1>1. PointOf(cl) /\ main \in Commits \cup {None} /\ effect[cl] \in Commits \cup {None}
    BY DEF Inv, PointOK, TypeOK
  <1>2. local[cl].new \in Commits /\ req[cl].kind \in {"create", "commit"}
    BY <1>1 DEF PointOf
  <1>3. CASE req[cl].kind = "create"
    <2>1. local[cl].new = InitCommit /\ (effect[cl] # None => effect[cl] = InitCommit)
      BY <1>1, <1>3 DEF PointOf
    <2>2. Calm => main # None
      BY DEF Inv, BranchOK, BranchOf
    <2> QED BY <1>1, <1>2, <2>1, <2>2, AncestorFacts
  <1>4. CASE req[cl].kind = "commit"
    <2>1. Calm => main = local[cl].new /\ main # None /\ (effect[cl] # None => Ancestor(effect[cl], main))
      BY <1>4 DEF Inv, BranchOK, BranchOf
    <2> QED BY <1>2, <2>1, AncestorFacts
  <1> QED BY <1>2, <1>3, <1>4

\* Fan-out and the success answer.
LEMMA FanOutStep ==
    ASSUME Inv, NEW cl \in Clients, FanOut(cl)
    PROVE  Inv'
  <1>1. pc[cl] = "queue" /\ Answer(cl, "ok", local[cl].new) /\ queued' = Append(queued, local[cl].new)
        /\ "ok" \in Replies \ {"none"}
    BY DEF FanOut, Replies
  <1>2. /\ main' = main /\ manifests' = manifests /\ effect' = effect
        /\ births' = births /\ deletes' = deletes /\ exists' \in {0, 1}
        /\ blobs \subseteq blobs' /\ blobs' \subseteq Blobs
    BY DEF FanOut, Inv, TypeOK, disk
  <1>3. local[cl].new \in Commits \cup {None} /\ pc[cl] # "idle"
    BY <1>1, Published
  <1> QED BY <1>1, <1>2, <1>3, Published, AnswerStep

\* A failing enqueue is only logged.
LEMMA FanOutErrStep ==
    ASSUME Inv, NEW cl \in Clients, FanOutErr(cl)
    PROVE  Inv'
  <1>1. pc[cl] = "queue" /\ Leave(cl) /\ reply' = [reply EXCEPT ![cl] = "ok"]
        /\ "ok" \in Replies \ {"none"} /\ told' = [told EXCEPT ![cl] = local[cl].new] /\ queued' = queued
    BY DEF FanOutErr, Replies
  <1>2. /\ main' = main /\ manifests' = manifests /\ effect' = effect
        /\ births' = births /\ deletes' = deletes /\ exists' \in {0, 1}
        /\ blobs \subseteq blobs' /\ blobs' \subseteq Blobs /\ spent' \in [Limited -> Nat]
    BY DEF FanOutErr, Inv, TypeOK, disk, Spend, Limited
  <1>3. local[cl].new \in Commits \cup {None} /\ pc[cl] # "idle"
    BY <1>1, Published
  <1>4. acked' \subseteq Commits
        /\ (Calm => \A a \in acked' : a \in acked \/ (main # None /\ Ancestor(a, main)))
    BY <1>1, Published DEF FanOutErr, Inv, TypeOK
  <1> QED BY <1>1, <1>2, <1>3, <1>4, Published, LeaveStep

\* The end of a delete: its requests never put anything on the branch.
LEMMA FanOutDeleteStep ==
    ASSUME Inv, NEW cl \in Clients, FanOutDelete(cl)
    PROVE  Inv'
  <1>1. pc[cl] = "unqueue" /\ Answer(cl, "ok", None) /\ queued' = Append(queued, None)
        /\ "ok" \in Replies \ {"none"}
    BY DEF FanOutDelete, Replies
  <1>2. /\ main' = main /\ manifests' = manifests /\ effect' = effect
        /\ births' = births /\ deletes' = deletes /\ exists' \in {0, 1}
        /\ blobs \subseteq blobs' /\ blobs' \subseteq Blobs
    BY DEF FanOutDelete, Inv, TypeOK, disk
  <1>3. ~Calm
    BY <1>1 DEF Inv, PointOK, PointOf, Calm
  <1> QED BY <1>1, <1>2, <1>3, AnswerStep

-----------------------------------------------------------------------------
(* A handler goes on *)

\* The handler of cl moves from one point to another and leaves the branch alone.
LEMMA GotoStep ==
    ASSUME Inv, NEW cl \in Clients, NEW p \in Points, Goto(cl, p),
           local' \in [Clients -> [parent: Commits \cup {None}, new: Commits \cup {None}]],
           \A j \in Clients \ {cl} : local'[j] = local[j],
           acked' = acked, queued' = queued, main' = main, deletes' = deletes,
           spent' \in [Limited -> Nat],
           req' \in [Clients -> [kind: {"none", "create", "commit", "delete"},
                                 edit: Edits \cup {None}, parent: Commits \cup {None}]],
           told' \in [Clients -> Commits \cup {None}], effect' \in [Clients -> Commits \cup {None}],
           reply' \in [Clients -> Replies], reply'[cl] # "ok",
           \A j \in Clients \ {cl} : req'[j] = req[j] /\ told'[j] = told[j]
                                     /\ effect'[j] = effect[j] /\ reply'[j] = reply[j],
           births' = births \/ (births' = births + 1 /\ (Calm' => main = None) /\ Creating(cl)'),
           births' = births /\ Creating(cl)' => Creating(cl),
           exists' \in {0, 1}, blobs \subseteq blobs', blobs' \subseteq Blobs,
           manifests \subseteq manifests', manifests' \subseteq Commits,
           lock' \in Clients \cup {None}, LockOf(cl)',
           \A j \in Clients \ {cl} : lock' = j <=> lock = j,
           PointOf(cl)', deletes = 0 => ServableOf(cl)', Calm' => BranchOf(cl)'
    PROVE  Inv'
  <1>1. Frame(cl)
    BY DEF Inv, TypeOK, Goto, Frame
  <1>2. Calm' => Calm
    BY DEF Calm, Inv, TypeOK
  <1>3. TypeOK'
    <2>1. pc' \in [Clients -> Points] /\ births' \in Nat
      BY DEF Inv, TypeOK, Goto
    <2>2. /\ main' \in Commits \cup {None} /\ acked' \subseteq Commits /\ deletes' \in Nat
          /\ queued' \in Seq(Commits \cup {None})
      BY DEF Inv, TypeOK
    <2> QED BY <2>1, <2>2 DEF TypeOK
  <1>4. PointOK'
    BY <1>1, PointFrame DEF Inv
  <1>5. LockByCommit'
    BY <1>1, LockFrame DEF Inv
  <1>6. DiskOK'
    <2>1. deletes = 0 => HeadServable'
      BY DEF Inv, DiskOK, HeadServable
    <2> QED BY <1>1, <2>1, DiskFrame DEF Inv
  <1>7. BranchOK'
    <2>1. Calm => \A i \in 1 .. Len(queued') :
                     queued'[i] # None => main # None /\ Ancestor(queued'[i], main)
      BY DEF Inv, BranchOK
    <2>2. TypeOK /\ BranchOK BY DEF Inv
    <2> QED BY <1>1, <2>1, <2>2, BranchFrame
  <1>8. RetryContains'
    BY <1>1, <1>2 DEF Inv, RetryContains, Frame
  <1>9. CommitsInOrder'
    BY <1>2 DEF Inv, CommitsInOrder, Overtaken
  <1> QED BY <1>3, <1>4, <1>5, <1>6, <1>7, <1>8, <1>9 DEF Inv

\* The handler's locals after one of them was assigned.
LEMMA LocalFacts ==
    ASSUME TypeOK, NEW cl \in Clients, NEW c \in Commits \cup {None}
    PROVE  /\ local' = [local EXCEPT ![cl].new = c] =>
                 /\ local' \in [Clients -> [parent: Commits \cup {None}, new: Commits \cup {None}]]
                 /\ \A j \in Clients \ {cl} : local'[j] = local[j]
                 /\ local'[cl].new = c /\ local'[cl].parent = local[cl].parent
           /\ local' = [local EXCEPT ![cl].parent = c] =>
                 /\ local' \in [Clients -> [parent: Commits \cup {None}, new: Commits \cup {None}]]
                 /\ \A j \in Clients \ {cl} : local'[j] = local[j]
                 /\ local'[cl].parent = c /\ local'[cl].new = local[cl].new
  <1> DEFINE C == Commits \cup {None}
  <1>1. local \in [Clients -> [parent: C, new: C]] /\ c \in C
    BY DEF TypeOK
  <1> HIDE DEF C
  <1>2. ASSUME local' = [local EXCEPT ![cl].new = c]
        PROVE  /\ local' \in [Clients -> [parent: C, new: C]]
               /\ \A j \in Clients \ {cl} : local'[j] = local[j]
               /\ local'[cl].new = c /\ local'[cl].parent = local[cl].parent
    BY <1>1, <1>2
  <1>3. ASSUME local' = [local EXCEPT ![cl].parent = c]
        PROVE  /\ local' \in [Clients -> [parent: C, new: C]]
               /\ \A j \in Clients \ {cl} : local'[j] = local[j]
               /\ local'[cl].parent = c /\ local'[cl].new = local[cl].new
    BY <1>1, <1>3
  <1> QED BY <1>2, <1>3 DEF C

\* What one handler knows, as facts of the invariant.
LEMMA OwnFacts ==
    ASSUME Inv, NEW cl \in Clients
    PROVE  /\ TypeOK /\ PointOf(cl) /\ LockOf(cl)
           /\ deletes = 0 => ServableOf(cl) /\ HeadServable
           /\ Calm => BranchOf(cl)
           /\ pc[cl] \in Points /\ lock \in Clients \cup {None} /\ main \in Commits \cup {None}
           /\ deletes \in Nat /\ births \in Nat /\ exists \in {0, 1} /\ blobs \subseteq Blobs
           /\ local \in [Clients -> [parent: Commits \cup {None}, new: Commits \cup {None}]]
           /\ reply \in [Clients -> Replies] /\ manifests \subseteq Commits
           /\ req \in [Clients -> [kind: {"none", "create", "commit", "delete"},
                                   edit: Edits \cup {None}, parent: Commits \cup {None}]]
           /\ told \in [Clients -> Commits \cup {None}] /\ effect \in [Clients -> Commits \cup {None}]
           /\ spent \in [Limited -> Nat]
           /\ \A p \in Points : Goto(cl, p) => pc'[cl] = p
  BY DEF Inv, TypeOK, PointOK, LockByCommit, LockOf, DiskOK, BranchOK, Goto

\* CreateRepo finds the repo, or goes on to make it; the first one to do so in a
\* calm run finds no branch.
LEMMA StatRepoStep ==
    ASSUME Inv, NEW cl \in Clients, StatRepo(cl)
    PROVE  Inv'
  <1> USE NoneFacts
  <1>1. pc[cl] = "stat" /\ req[cl].kind = "create" /\ reply[cl] = "none"
    BY OwnFacts DEF StatRepo, PointOf
  <1>2. CASE exists = 1
    <2>1. Answer(cl, "exists", None) /\ births' = births /\ "exists" \in Replies \ {"none", "ok"}
      BY <1>2 DEF StatRepo, Replies
    <2>2. /\ main' = main /\ manifests' = manifests /\ effect' = effect /\ deletes' = deletes
          /\ exists' \in {0, 1} /\ blobs \subseteq blobs' /\ blobs' \subseteq Blobs /\ queued' = queued
      BY OwnFacts DEF StatRepo, disk
    <2> QED BY <1>1, <2>1, <2>2, AnswerNothing
  <1>3. CASE exists # 1
    <2>1. /\ Goto(cl, "mkdir") /\ births' = births + 1 /\ lock' = lock /\ req' = req /\ local' = local
          /\ reply' = reply /\ told' = told /\ acked' = acked /\ spent' = spent /\ queued' = queued
          /\ effect' = effect /\ deletes' = deletes /\ main' = main /\ exists' = exists
          /\ manifests' = manifests /\ blobs' = blobs
      BY <1>3 DEF StatRepo, disk
    <2>2. pc'[cl] = "mkdir" /\ "mkdir" \in Points
      BY <2>1, OwnFacts DEF Points
    <2>3. Creating(cl)'
      BY <1>1, <2>1, <2>2 DEF Creating
    <2>4. PointOf(cl)' /\ ServableOf(cl)' /\ LockOf(cl)'
      BY <1>1, <2>1, <2>2, OwnFacts DEF PointOf, ServableOf, LockOf
    <2>5. ASSUME Calm' PROVE main = None /\ BranchOf(cl)'
      <3>1. Calm /\ births = 0 /\ main = None
        BY <2>1, <2>5, OwnFacts DEF Inv, BranchOK, Calm
      <3>2. births' = 1 /\ main' = None /\ effect'[cl] = None
        BY <2>1, <3>1, OwnFacts DEF BranchOf
      <3> QED BY <1>1, <2>1, <2>2, <3>1, <3>2 DEF BranchOf, Creating
    <2> QED BY <1>1, <2>1, <2>2, <2>3, <2>4, <2>5, OwnFacts, GotoStep
  <1> QED BY <1>2, <1>3

\* CreateRepo makes the directory and mints the initial commit.
LEMMA MkdirRepoStep ==
    ASSUME Inv, NEW cl \in Clients, MkdirRepo(cl)
    PROVE  Inv'
  <1> USE NoneFacts
  <1>1. pc[cl] = "mkdir" /\ req[cl].kind = "create" /\ reply[cl] = "none"
    BY OwnFacts DEF MkdirRepo, PointOf
  <1>2. /\ Goto(cl, "manifest") /\ births' = births /\ lock' = lock /\ req' = req
        /\ local' = [local EXCEPT ![cl].new = InitCommit] /\ exists' = 1
        /\ reply' = reply /\ told' = told /\ acked' = acked /\ spent' = spent /\ queued' = queued
        /\ effect' = effect /\ deletes' = deletes /\ main' = main
        /\ manifests' = manifests /\ blobs' = blobs
    BY DEF MkdirRepo, history
  <1>3. pc'[cl] = "manifest" /\ "manifest" \in Points
    BY <1>2, OwnFacts DEF Points
  <1>4. InitCommit \in Commits \cup {None} /\ TypeOK
    BY CommitFacts, OwnFacts
  <1>5. /\ local' \in [Clients -> [parent: Commits \cup {None}, new: Commits \cup {None}]]
        /\ \A j \in Clients \ {cl} : local'[j] = local[j]
        /\ local'[cl].new = InitCommit
    BY <1>2, <1>4, LocalFacts
  <1>6. BlobsOf(InitCommit) = {}
    BY DEF BlobsOf, TreeOf, EmptyTree
  <1>7. Creating(cl) /\ PointOf(cl)' /\ ServableOf(cl)' /\ LockOf(cl)'
    BY <1>1, <1>2, <1>3, <1>5, <1>6, CommitFacts, OwnFacts DEF PointOf, ServableOf, LockOf, Creating
  <1>8. Calm' => BranchOf(cl)'
    BY <1>1, <1>2, <1>3, <1>7, OwnFacts DEF Calm, BranchOf, Creating
  <1> QED BY <1>1, <1>2, <1>3, <1>5, <1>7, <1>8, OwnFacts, GotoStep

\* A commit takes the mutex that nobody holds.
LEMMA LockRepoStep ==
    ASSUME Inv, NEW cl \in Clients, LockRepo(cl)
    PROVE  Inv'
  <1> USE NoneFacts
  <1>1. pc[cl] = "wait" /\ lock = None /\ req[cl].kind = "commit" /\ reply[cl] = "none"
    BY OwnFacts DEF LockRepo, PointOf
  <1>2. /\ Goto(cl, "resolve") /\ births' = births /\ lock' = cl /\ req' = req
        /\ local' = local /\ exists' = exists
        /\ reply' = reply /\ told' = told /\ acked' = acked /\ spent' = spent /\ queued' = queued
        /\ effect' = effect /\ deletes' = deletes /\ main' = main
        /\ manifests' = manifests /\ blobs' = blobs
    BY DEF LockRepo, history, disk
  <1>3. pc'[cl] = "resolve" /\ "resolve" \in Points
    BY <1>2, OwnFacts DEF Points
  <1>4. ~Creating(cl)' /\ PointOf(cl)' /\ ServableOf(cl)' /\ LockOf(cl)'
        /\ \A j \in Clients \ {cl} : lock' = j <=> lock = j
    BY <1>1, <1>2, <1>3, OwnFacts DEF PointOf, ServableOf, LockOf, Creating
  <1>5. Calm' => BranchOf(cl)'
    BY <1>1, <1>2, <1>3, <1>4, OwnFacts DEF Calm, BranchOf
  <1> QED BY <1>1, <1>2, <1>3, <1>4, <1>5, OwnFacts, GotoStep

\* A commit reads the head as its parent.
LEMMA ResolveRefStep ==
    ASSUME Inv, NEW cl \in Clients, ResolveRef(cl)
    PROVE  Inv'
  <1> USE NoneFacts
  <1>1. pc[cl] = "resolve" /\ req[cl].kind = "commit" /\ reply[cl] = "none"
    BY OwnFacts DEF ResolveRef, PointOf
  <1>2. /\ births' = births /\ exists' = exists /\ queued' = queued
        /\ effect' = effect /\ deletes' = deletes /\ main' = main
        /\ manifests' = manifests /\ blobs' = blobs
    BY DEF ResolveRef, disk
  <1>3. CASE Answer(cl, "notfound", None) \/ Answer(cl, "mismatch", None)
    <2>1. {"notfound", "mismatch"} \subseteq Replies \ {"none", "ok"}
      BY DEF Replies
    <2> QED BY <1>1, <1>2, <1>3, <2>1, OwnFacts, AnswerNothing
  <1>4. CASE ~(Answer(cl, "notfound", None) \/ Answer(cl, "mismatch", None))
    <2>1. /\ main # None /\ Goto(cl, "read") /\ local' = [local EXCEPT ![cl].parent = main]
          /\ lock' = lock /\ req' = req /\ reply' = reply /\ told' = told /\ acked' = acked
          /\ spent' = spent
      BY <1>4 DEF ResolveRef
    <2>2. pc'[cl] = "read" /\ "read" \in Points /\ TypeOK
      BY <2>1, OwnFacts DEF Points
    <2>3. main \in Commits \cup {None}
      BY OwnFacts
    <2>4. /\ local' \in [Clients -> [parent: Commits \cup {None}, new: Commits \cup {None}]]
          /\ \A j \in Clients \ {cl} : local'[j] = local[j]
          /\ local'[cl].parent = main
      BY <2>1, <2>2, <2>3, LocalFacts
    <2>5. ~Creating(cl)' /\ PointOf(cl)' /\ LockOf(cl)'
      BY <1>1, <1>2, <2>1, <2>2, <2>3, <2>4, OwnFacts DEF PointOf, LockOf, Creating
    <2>6. deletes = 0 => ServableOf(cl)'
      BY <1>1, <1>2, <2>1, <2>2, <2>4, OwnFacts DEF ServableOf, HeadServable
    <2>7. Calm' => BranchOf(cl)'
      BY <1>1, <1>2, <2>1, <2>2, <2>4, <2>5, OwnFacts DEF Calm, BranchOf
    <2> QED BY <1>1, <1>2, <2>1, <2>2, <2>4, <2>5, <2>6, <2>7, OwnFacts, GotoStep
  <1> QED BY <1>3, <1>4

\* It reads the parent's manifest.
LEMMA GetManifestStep ==
    ASSUME Inv, NEW cl \in Clients, GetManifest(cl)
    PROVE  Inv'
  <1> USE NoneFacts
  <1>1. pc[cl] = "read" /\ req[cl].kind = "commit" /\ reply[cl] = "none" /\ local[cl].parent \in Commits
    BY OwnFacts DEF GetManifest, PointOf
  <1>2. /\ births' = births /\ exists' = exists /\ queued' = queued
        /\ effect' = effect /\ deletes' = deletes /\ main' = main
        /\ manifests' = manifests /\ blobs' = blobs
    BY DEF GetManifest, disk
  <1>3. CASE Answer(cl, "notfound", None)
    <2>1. "notfound" \in Replies \ {"none", "ok"}
      BY DEF Replies
    <2> QED BY <1>1, <1>2, <1>3, <2>1, OwnFacts, AnswerNothing
  <1>4. CASE ~Answer(cl, "notfound", None)
    <2>1. /\ Goto(cl, "files") /\ local' = local
          /\ lock' = lock /\ req' = req /\ reply' = reply /\ told' = told /\ acked' = acked
          /\ spent' = spent
      BY <1>4 DEF GetManifest
    <2>2. pc'[cl] = "files" /\ "files" \in Points
      BY <2>1, OwnFacts DEF Points
    <2>3. ~Creating(cl)' /\ PointOf(cl)' /\ LockOf(cl)'
      BY <1>1, <1>2, <2>1, <2>2, OwnFacts DEF PointOf, LockOf, Creating
    <2>4. deletes = 0 => ServableOf(cl)'
      BY <1>1, <1>2, <2>1, <2>2, OwnFacts DEF ServableOf
    <2>5. Calm' => BranchOf(cl)'
      BY <1>1, <1>2, <2>1, <2>2, <2>3, OwnFacts DEF Calm, BranchOf
    <2> QED BY <1>1, <1>2, <2>1, <2>2, <2>3, <2>4, <2>5, OwnFacts, GotoStep
  <1> QED BY <1>3, <1>4

\* The edit is refused, changes nothing, or is minted into a commit whose blobs
\* are there.
LEMMA ApplyOpsStep ==
    ASSUME Inv, NEW cl \in Clients, ApplyOps(cl)
    PROVE  Inv'
  <1> USE NoneFacts
  <1> DEFINE e == req[cl].edit
             parent == local[cl].parent
             tree == Apply(e, TreeOf(parent))
  <1>1. pc[cl] = "files" /\ req[cl].kind = "commit" /\ reply[cl] = "none" /\ parent \in Commits
        /\ e \in Edits
    BY OwnFacts DEF ApplyOps, PointOf
  <1>2. /\ births' = births /\ queued' = queued
        /\ effect' = effect /\ deletes' = deletes /\ main' = main /\ manifests' = manifests
    BY DEF ApplyOps
  <1>3. e.blob \in Blobs /\ TreeOf(parent) \in Tree /\ tree \in Tree
    BY <1>1, EditsAssumption, CommitFacts, ApplyFacts
  <1>4. exists' \in {0, 1} /\ blobs \subseteq blobs' /\ blobs' \subseteq Blobs
        /\ (e.via = "inline" => e.blob \in blobs')
    BY <1>3, OwnFacts DEF ApplyOps
  <1>5. CASE Answer(cl, "missing", None)
    <2>1. "missing" \in Replies \ {"none", "ok"}
      BY DEF Replies
    <2> QED BY <1>1, <1>2, <1>4, <1>5, <2>1, AnswerNothing
  <1>6. CASE Answer(cl, "ok", parent)
    <2>1. "ok" \in Replies \ {"none"} /\ parent \in Commits \cup {None}
      BY <1>1 DEF Replies
    <2>2. Calm => main = parent /\ Ancestor(parent, main)
                  /\ (effect[cl] # None => Ancestor(effect[cl], parent))
      BY <1>1, OwnFacts, AncestorFacts DEF BranchOf
    <2> QED BY <1>1, <1>2, <1>4, <1>6, <2>1, <2>2, AnswerStep
  <1>7. CASE ~(Answer(cl, "missing", None) \/ Answer(cl, "ok", parent))
    <2>1. Mint(cl, parent, tree) /\ (e.via = "lfs" => e.blob \in blobs)
      BY <1>7 DEF ApplyOps
    <2>2. /\ Goto(cl, "manifest") /\ local' = [local EXCEPT ![cl].new = Append(parent, tree)]
          /\ lock' = lock /\ req' = req /\ reply' = reply /\ told' = told /\ acked' = acked
          /\ spent' = spent
      BY <2>1 DEF Mint
    <2>3. pc'[cl] = "manifest" /\ "manifest" \in Points /\ TypeOK
      BY <2>2, OwnFacts DEF Points
    <2>4. Append(parent, tree) \in Commits /\ TreeOf(Append(parent, tree)) = tree
      BY <1>1, <1>3, CommitFacts
    <2>5. /\ local' \in [Clients -> [parent: Commits \cup {None}, new: Commits \cup {None}]]
          /\ \A j \in Clients \ {cl} : local'[j] = local[j]
          /\ local'[cl].new = Append(parent, tree) /\ local'[cl].parent = parent
      BY <2>2, <2>3, <2>4, LocalFacts
    <2>6. ~Creating(cl)' /\ PointOf(cl)' /\ LockOf(cl)'
      <3>1. local'[cl].parent \in Commits /\ local'[cl].new \in Commits
            /\ \E t \in Tree : local'[cl].new = Append(local'[cl].parent, t)
        BY <1>1, <1>3, <2>4, <2>5
      <3> HIDE DEF e, parent, tree
      <3> QED BY <1>1, <1>2, <2>2, <2>3, <3>1, OwnFacts DEF PointOf, LockOf, Creating
    <2>7. ASSUME deletes = 0 PROVE ServableOf(cl)'
      <3>1. BlobsOf(parent) \subseteq blobs'
        BY <1>1, <1>4, <2>7, OwnFacts DEF ServableOf
      <3>2. e.via \in Vias BY <1>1, EditsAssumption
      <3>3. e.via # "remove" => e.blob \in blobs'
        BY <1>4, <2>1, <3>2 DEF Vias
      <3>4. \A x \in Paths : tree[x] \in {TreeOf(parent)[x], None} \cup (IF e.via = "remove" THEN {} ELSE {e.blob})
        BY <1>1, <1>3, ApplyFacts
      <3>5. \A x \in Paths : tree[x] \in blobs' \cup {None}
        BY <3>1, <3>3, <3>4 DEF BlobsOf
      <3>6. BlobsOf(Append(parent, tree)) \subseteq blobs'
        BY <2>4, <3>5 DEF BlobsOf
      <3> QED BY <2>3, <2>5, <3>6 DEF ServableOf
    <2>8. Calm' => BranchOf(cl)'
      BY <1>1, <1>2, <2>2, <2>3, <2>5, <2>6, OwnFacts DEF Calm, BranchOf
    <2> HIDE DEF e, parent, tree
    <2> QED BY <1>1, <1>2, <1>4, <2>2, <2>3, <2>5, <2>6, <2>7, <2>8, OwnFacts, GotoStep
  <1> QED BY <1>5, <1>6, <1>7

\* The manifest is written before the ref.
LEMMA PutManifestStep ==
    ASSUME Inv, NEW cl \in Clients, PutManifest(cl)
    PROVE  Inv'
  <1> USE NoneFacts
  <1>1. pc[cl] = "manifest" /\ reply[cl] = "none" /\ local[cl].new \in Commits
    BY OwnFacts DEF PutManifest, PointOf
  <1>2. /\ Goto(cl, "ref") /\ births' = births /\ lock' = lock /\ req' = req
        /\ local' = local /\ exists' = exists
        /\ reply' = reply /\ told' = told /\ acked' = acked /\ spent' = spent /\ queued' = queued
        /\ effect' = effect /\ deletes' = deletes /\ main' = main
        /\ manifests' = manifests \cup {local[cl].new} /\ blobs' = blobs
    BY DEF PutManifest, history
  <1>3. pc'[cl] = "ref" /\ "ref" \in Points
    BY <1>2, OwnFacts DEF Points
  <1>4. (Creating(cl)' => Creating(cl)) /\ PointOf(cl)' /\ LockOf(cl)'
    BY <1>1, <1>2, <1>3, OwnFacts DEF PointOf, LockOf, Creating
  <1>5. deletes = 0 => ServableOf(cl)'
    BY <1>1, <1>2, <1>3, OwnFacts DEF ServableOf
  <1>6. Calm' => BranchOf(cl)'
    BY <1>1, <1>2, <1>3, <1>4, OwnFacts DEF Calm, BranchOf
  <1> QED BY <1>1, <1>2, <1>3, <1>4, <1>5, <1>6, OwnFacts, GotoStep

\* A client sends its request again, not knowing what became of the first.
LEMMA RetryStep ==
    ASSUME Inv, NEW cl \in Clients, Retry(cl)
    PROVE  Inv'
  <1> USE NoneFacts
  <1>1. pc[cl] = "idle" /\ reply[cl] = "lost" /\ req[cl].kind # "none"
    BY OwnFacts DEF Retry, PointOf
  <1>2. /\ births' = births /\ lock' = lock /\ req' = req /\ local' = local /\ exists' = exists
        /\ acked' = acked /\ spent' = spent /\ queued' = queued
        /\ effect' = effect /\ deletes' = deletes /\ main' = main
        /\ manifests' = manifests /\ blobs' = blobs
    BY DEF Retry, history, disk
  <1>3. PICK p \in Points : Goto(cl, p) /\ p = First(req[cl].kind)
    <2>1. req[cl].kind \in {"create", "commit", "delete"}
      BY <1>1, OwnFacts
    <2> QED BY <2>1 DEF Retry, First, Points
  <1>4. /\ req[cl].kind = "create" => p = "stat"
        /\ req[cl].kind = "commit" => p = "wait"
        /\ req[cl].kind = "delete" => p = "rmdir"
        /\ req[cl].kind \in {"create", "commit", "delete"}
    BY <1>1, <1>3, OwnFacts DEF First
  <1>5. pc'[cl] = p BY <1>3, OwnFacts
  <1>6. /\ reply' \in [Clients -> Replies] /\ reply'[cl] = "none" /\ told'[cl] = None
        /\ told' \in [Clients -> Commits \cup {None}]
        /\ \A j \in Clients \ {cl} : told'[j] = told[j] /\ reply'[j] = reply[j]
    BY OwnFacts DEF Retry, Replies
  <1>7. ~Creating(cl)' /\ PointOf(cl)' /\ LockOf(cl)' /\ ServableOf(cl)'
    BY <1>1, <1>2, <1>4, <1>5, <1>6, OwnFacts DEF PointOf, LockOf, Creating, ServableOf
  <1>8. Calm' => BranchOf(cl)'
    BY <1>1, <1>2, <1>4, <1>5, <1>7, OwnFacts DEF Calm, BranchOf
  <1> QED BY <1>1, <1>2, <1>3, <1>6, <1>7, <1>8, OwnFacts, GotoStep

\* A client sends a new request.
LEMMA SendStep ==
    ASSUME Inv, NEW cl \in Clients,
           NEW r \in [kind: {"create", "commit", "delete"}, edit: Edits \cup {None},
                      parent: Commits \cup {None}],
           r.kind = "commit" => r.edit \in Edits, Send(cl, r)
    PROVE  Inv'
  <1> USE NoneFacts
  <1>1. pc[cl] = "idle" /\ req' = [req EXCEPT ![cl] = r] /\ r.kind \in {"create", "commit", "delete"}
    BY DEF Send
  <1>2. /\ births' = births /\ lock' = lock /\ local' = local /\ exists' = exists
        /\ acked' = acked /\ queued' = queued
        /\ deletes' = deletes /\ main' = main
        /\ manifests' = manifests /\ blobs' = blobs
    BY DEF Send, disk
  <1>3. PICK p \in Points : Goto(cl, p) /\ p = First(r.kind)
    BY <1>1 DEF Send, First, Points
  <1>4. /\ r.kind = "create" => p = "stat"
        /\ r.kind = "commit" => p = "wait"
        /\ r.kind = "delete" => p = "rmdir"
    BY <1>3 DEF First
  <1>5. pc'[cl] = p BY <1>3, OwnFacts
  <1>6. /\ reply' \in [Clients -> Replies] /\ reply'[cl] = "none" /\ told'[cl] = None
        /\ told' \in [Clients -> Commits \cup {None}]
        /\ effect' \in [Clients -> Commits \cup {None}] /\ effect'[cl] = None
        /\ \A j \in Clients \ {cl} : told'[j] = told[j] /\ reply'[j] = reply[j] /\ effect'[j] = effect[j]
    BY OwnFacts DEF Send, Replies
  <1>7. /\ req' \in [Clients -> [kind: {"none", "create", "commit", "delete"},
                                 edit: Edits \cup {None}, parent: Commits \cup {None}]]
        /\ req'[cl] = r /\ \A j \in Clients \ {cl} : req'[j] = req[j]
    <2>1. r \in [kind: {"none", "create", "commit", "delete"},
                 edit: Edits \cup {None}, parent: Commits \cup {None}]
      OBVIOUS
    <2>2. req \in [Clients -> [kind: {"none", "create", "commit", "delete"},
                               edit: Edits \cup {None}, parent: Commits \cup {None}]]
      BY OwnFacts
    <2> QED BY <1>1, <2>1, <2>2
  <1>8. spent' \in [Limited -> Nat]
    BY <1>1, OwnFacts DEF Send, Spend, Limited
  <1>9. ~Creating(cl)' /\ PointOf(cl)' /\ LockOf(cl)' /\ ServableOf(cl)'
    BY <1>1, <1>2, <1>4, <1>5, <1>6, <1>7, OwnFacts DEF PointOf, LockOf, Creating, ServableOf
  <1>10. Calm' => BranchOf(cl)'
    BY <1>1, <1>2, <1>4, <1>5, <1>6, <1>7, <1>9, OwnFacts DEF Calm, BranchOf
  <1> QED BY <1>1, <1>2, <1>3, <1>6, <1>7, <1>8, <1>9, <1>10, OwnFacts, GotoStep

-----------------------------------------------------------------------------
(* The branch moves, and what is not a handler's step *)

\* PointRef: the head becomes the commit of the handler.  A commit extends the
\* head under the mutex; the one CreateRepo of a calm run finds no head.
LEMMA PointRefBranch ==
    ASSUME Inv, NEW cl \in Clients, PointRef(cl), Calm, Frame(cl)
    PROVE  BranchOK'
  <1> USE NoneFacts
  <1>1. /\ pc[cl] = "ref" /\ local[cl].new \in Commits /\ req[cl].kind \in {"create", "commit"}
        /\ BranchOf(cl) /\ PointOf(cl) /\ effect[cl] \in Commits \cup {None}
        /\ main \in Commits \cup {None}
    BY OwnFacts DEF PointRef, PointOf
  <1>2. /\ births' = births /\ lock' = lock /\ local' = local /\ req' = req
        /\ acked' = acked /\ queued' = queued /\ deletes' = deletes /\ main' = local[cl].new
        /\ pc'[cl] = "queue"
        /\ effect'[cl] = IF effect[cl] = None THEN local[cl].new ELSE effect[cl]
    BY OwnFacts DEF PointRef, Goto, Inv, TypeOK
  <1>3. ~Creating(cl)' /\ Calm' /\ \A j \in Clients \ {cl} : Creating(j)' <=> Creating(j)
    BY <1>2 DEF Creating, Frame, Calm
  <1>4. \A j \in Clients \ {cl} : ~Creating(j)
    <2>1. CASE req[cl].kind = "create"
      <3>1. Creating(cl) BY <1>1, <2>1 DEF Creating
      <3> QED BY <3>1 DEF Inv, BranchOK
    <2>2. CASE req[cl].kind = "commit"
      <3>1. main = local[cl].parent /\ local[cl].parent \in Commits
        BY <1>1, <2>2 DEF BranchOf, PointOf
      <3> QED BY <3>1 DEF Inv, BranchOK, BranchOf
    <2> QED BY <1>1, <2>1, <2>2
  <1>5. main = None \/ Ancestor(main, main')
    <2>1. CASE req[cl].kind = "create"
      BY <1>1, <2>1 DEF BranchOf, Creating
    <2>2. CASE req[cl].kind = "commit"
      <3>1. main = local[cl].parent /\ local[cl].parent \in Commits
        BY <1>1, <2>2 DEF BranchOf, PointOf
      <3>2. PICK t \in Tree : local[cl].new = Append(local[cl].parent, t)
        BY <1>1, <2>2 DEF PointOf
      <3> QED BY <1>2, <3>1, <3>2, AncestorFacts
    <2> QED BY <1>1, <2>1, <2>2
  <1>6. \A a \in Commits : main # None /\ Ancestor(a, main) => main' # None /\ Ancestor(a, main')
    BY <1>1, <1>2, <1>5, AncestorFacts
  <1>7. births # 0
    BY <1>1 DEF Inv, BranchOK, BranchOf, PointOf, Creating
  <1>8. BranchOf(cl)'
    <2>1. effect'[cl] \in Commits /\ main' \in Commits /\ Ancestor(effect'[cl], main')
      BY <1>1, <1>2, <1>6, AncestorFacts DEF BranchOf
    <2> QED BY <1>2, <1>3, <2>1 DEF BranchOf
  <1>9. ASSUME NEW j \in Clients, j # cl PROVE BranchOf(j)'
    <2>1. pc'[j] = pc[j] /\ req'[j] = req[j] /\ local'[j] = local[j] /\ effect'[j] = effect[j]
      BY <1>9 DEF Frame
    <2>2. BranchOf(j) /\ PointOf(j) /\ LockOf(j) /\ effect[j] \in Commits \cup {None}
      BY OwnFacts
    <2>3. ~(req[j].kind = "commit" /\ pc[j] \in {"read", "files", "manifest", "ref", "queue"})
      <3> SUFFICES ASSUME req[j].kind = "commit", pc[j] \in {"read", "files", "manifest", "ref", "queue"}
                   PROVE  FALSE
        OBVIOUS
      <3>1. lock = j BY <2>2 DEF LockOf
      <3>2. main # None BY <2>2 DEF BranchOf, PointOf
      <3>3. CASE req[cl].kind = "create"
        BY <1>1, <3>2, <3>3 DEF BranchOf, Creating
      <3>4. CASE req[cl].kind = "commit"
        BY <1>1, <1>9, <3>1, <3>4, OwnFacts DEF LockOf
      <3> QED BY <1>1, <3>3, <3>4
    <2>4. effect[j] # None => main' # None /\ Ancestor(effect[j], main')
      BY <2>2, <1>6 DEF BranchOf
    <2>5. ~Creating(j)' /\ main' # None
      BY <1>1, <1>2, <1>3, <1>4, <1>9
    <2> QED BY <2>1, <2>3, <2>4, <2>5 DEF BranchOf
  <1>10. OnBranch'
    <2>1. OnBranch /\ acked \subseteq Commits BY DEF Inv, BranchOK, TypeOK
    <2> QED BY <1>2, <1>6, <2>1 DEF OnBranch
  <1>11. \A i \in 1 .. Len(queued') : queued'[i] # None => main' # None /\ Ancestor(queued'[i], main')
    <2>1. \A i \in 1 .. Len(queued) : queued[i] # None => main # None /\ Ancestor(queued[i], main)
      BY DEF Inv, BranchOK
    <2>2. queued \in Seq(Commits \cup {None}) BY DEF Inv, TypeOK
    <2>3. \A i \in 1 .. Len(queued) : queued[i] \in Commits \cup {None}
      BY <2>2
    <2> QED BY <1>2, <1>6, <2>1, <2>3
  <1> QED BY <1>2, <1>3, <1>4, <1>7, <1>8, <1>9, <1>10, <1>11 DEF BranchOK

\* The rest of the invariant after PointRef.
LEMMA PointRefStep ==
    ASSUME Inv, NEW cl \in Clients, PointRef(cl)
    PROVE  Inv'
  <1> USE NoneFacts
  <1>1. pc[cl] = "ref" /\ local[cl].new \in Commits /\ reply[cl] = "none"
        /\ req[cl].kind \in {"create", "commit"}
    BY OwnFacts DEF PointRef, PointOf
  <1>2. /\ births' = births /\ lock' = lock /\ local' = local /\ req' = req /\ reply' = reply
        /\ told' = told /\ acked' = acked /\ queued' = queued /\ deletes' = deletes
        /\ main' = local[cl].new /\ exists' = 1 /\ manifests' = manifests /\ blobs' = blobs
        /\ spent' = spent /\ pc'[cl] = "queue" /\ pc' \in [Clients -> Points]
        /\ effect' \in [Clients -> Commits \cup {None}]
        /\ effect'[cl] = IF effect[cl] = None THEN local[cl].new ELSE effect[cl]
    <2>1. /\ births' = births /\ lock' = lock /\ local' = local /\ req' = req /\ reply' = reply
          /\ told' = told /\ acked' = acked /\ queued' = queued /\ deletes' = deletes
          /\ main' = local[cl].new /\ exists' = 1 /\ manifests' = manifests /\ blobs' = blobs
          /\ spent' = spent
      BY DEF PointRef
    <2>2. pc'[cl] = "queue" /\ pc' \in [Clients -> Points]
      BY DEF PointRef, Goto, Inv, TypeOK, Points
    <2>3. effect \in [Clients -> Commits \cup {None}] /\ local[cl].new \in Commits \cup {None}
          /\ effect' = [effect EXCEPT ![cl] = IF @ = None THEN local[cl].new ELSE @]
      BY <1>1, OwnFacts DEF PointRef
    <2>4. /\ effect' \in [Clients -> Commits \cup {None}]
          /\ effect'[cl] = IF effect[cl] = None THEN local[cl].new ELSE effect[cl]
      BY <2>3
    <2> QED BY <2>1, <2>2, <2>4
  <1>3. Frame(cl)
    BY <1>2 DEF Frame, PointRef, Goto, Inv, TypeOK
  <1>4. TypeOK'
    BY <1>1, <1>2 DEF Inv, TypeOK
  <1>5. PointOK'
    <2>1. PointOf(cl)'
      BY <1>1, <1>2, OwnFacts DEF PointOf
    <2> QED BY <1>2, <1>3, <2>1, PointFrame DEF Inv
  <1>6. LockByCommit'
    <2>1. LockOf(cl)'
      BY <1>1, <1>2, OwnFacts DEF LockOf
    <2> QED BY <1>2, <1>3, <2>1, LockFrame DEF Inv
  <1>7. DiskOK'
    <2>1. ServableOf(cl)'
      BY <1>2 DEF ServableOf
    <2>2. deletes = 0 => HeadServable'
      BY <1>1, <1>2, OwnFacts DEF ServableOf, HeadServable
    <2> QED BY <1>2, <1>3, <2>1, <2>2, DiskFrame DEF Inv
  <1>8. BranchOK'
    <2>1. CASE Calm
      BY <1>3, <2>1, PointRefBranch
    <2>2. CASE ~Calm
      BY <1>2, <2>2 DEF BranchOK, Calm
    <2> QED BY <2>1, <2>2
  <1>9. Calm' => Calm
    BY <1>2 DEF Calm
  <1>10. RetryContains'
    BY <1>1, <1>2, <1>3, <1>9 DEF Inv, RetryContains, Frame
  <1>11. CommitsInOrder'
    BY <1>2, <1>9 DEF Inv, CommitsInOrder, Overtaken
  <1> QED BY <1>4, <1>5, <1>6, <1>7, <1>8, <1>10, <1>11 DEF Inv

\* After a delete only the types, the points and the mutex are of interest.
LEMMA DeletedStep ==
    ASSUME Inv, NEW cl \in Clients, Frame(cl), TypeOK', PointOf(cl)', LockOf(cl)', lock' = lock,
           deletes' > 0, deletes' = deletes \/ deletes' = deletes + 1
    PROVE  Inv'
  <1>1. PointOK'
    BY PointFrame DEF Inv
  <1>2. LockByCommit'
    BY LockFrame DEF Inv
  <1>3. ~Calm' /\ deletes' # 0
    BY DEF Calm, TypeOK
  <1> QED BY <1>1, <1>2, <1>3 DEF Inv, DiskOK, BranchOK, RetryContains, CommitsInOrder

\* DeleteRepo removes the content, if there is any.
LEMMA RemoveContentStep ==
    ASSUME Inv, NEW cl \in Clients, RemoveContent(cl)
    PROVE  Inv'
  <1> USE NoneFacts
  <1>1. pc[cl] = "rmdir" /\ req[cl].kind = "delete" /\ reply[cl] = "none"
    BY OwnFacts DEF RemoveContent, PointOf
  <1>2. CASE exists = 0
    <2>1. Answer(cl, "notfound", None) /\ "notfound" \in Replies \ {"none", "ok"}
      BY <1>2 DEF RemoveContent, Replies
    <2>2. /\ main' = main /\ manifests' = manifests /\ effect' = effect /\ deletes' = deletes
          /\ births' = births /\ exists' \in {0, 1} /\ blobs \subseteq blobs' /\ blobs' \subseteq Blobs
          /\ queued' = queued
      BY <1>2, OwnFacts DEF RemoveContent, disk
    <2> QED BY <1>1, <2>1, <2>2, AnswerNothing
  <1>3. CASE exists # 0
    <2>1. /\ births' = births /\ lock' = lock /\ local' = local /\ req' = req /\ reply' = reply
          /\ told' = told /\ acked' = {} /\ queued' = queued /\ deletes' = deletes + 1
          /\ main' = None /\ exists' = 0 /\ manifests' = manifests /\ blobs' = {}
          /\ spent' = spent /\ effect' = effect /\ Goto(cl, "rmmeta") /\ "rmmeta" \in Points
      BY <1>3 DEF RemoveContent, Points
    <2>2. TypeOK'
      BY <2>1 DEF Inv, TypeOK, Goto
    <2>3. Frame(cl) /\ pc'[cl] = "rmmeta"
      BY <2>1 DEF Inv, TypeOK, Goto, Frame
    <2>4. deletes' > 0
      BY <2>1, OwnFacts
    <2>5. PointOf(cl)' /\ LockOf(cl)'
      BY <1>1, <2>1, <2>3, <2>4, OwnFacts DEF PointOf, LockOf
    <2> QED BY <2>1, <2>2, <2>3, <2>4, <2>5, DeletedStep
  <1> QED BY <1>2, <1>3

\* DeleteRepo removes the manifests.
LEMMA RemoveManifestsStep ==
    ASSUME Inv, NEW cl \in Clients, RemoveManifests(cl)
    PROVE  Inv'
  <1>1. pc[cl] = "rmmeta" /\ req[cl].kind = "delete" /\ reply[cl] = "none" /\ deletes > 0
    BY OwnFacts DEF RemoveManifests, PointOf
  <1>2. /\ births' = births /\ lock' = lock /\ local' = local /\ req' = req /\ reply' = reply
        /\ told' = told /\ acked' = acked /\ queued' = queued /\ deletes' = deletes
        /\ main' = main /\ exists' = exists /\ manifests' = {} /\ blobs' = blobs
        /\ spent' = spent /\ effect' = effect /\ Goto(cl, "unqueue") /\ "unqueue" \in Points
    BY DEF RemoveManifests, history, Points
  <1>3. TypeOK'
    BY <1>2 DEF Inv, TypeOK, Goto
  <1>4. Frame(cl) /\ pc'[cl] = "unqueue"
    BY <1>2 DEF Inv, TypeOK, Goto, Frame
  <1>5. PointOf(cl)' /\ LockOf(cl)'
    BY <1>1, <1>2, <1>4, OwnFacts DEF PointOf, LockOf
  <1> QED BY <1>1, <1>2, <1>3, <1>4, <1>5, DeletedStep

\* An LFS upload adds a blob to a repo that may not have been created.
LEMMA PutLFSBlobStep ==
    ASSUME Inv, NEW b \in Blobs, PutLFSBlob(b)
    PROVE  Inv'
  <1>1. /\ births' = births /\ lock' = lock /\ local' = local /\ req' = req /\ reply' = reply
        /\ told' = told /\ acked' = acked /\ queued' = queued /\ deletes' = deletes
        /\ main' = main /\ manifests' = manifests /\ effect' = effect /\ pc' = pc
        /\ blobs' = blobs \cup {b} /\ exists' = 1 /\ spent' \in [Limited -> Nat]
    BY DEF PutLFSBlob, handler, history, Spend, Inv, TypeOK, Limited
  <1>2. TypeOK'
    BY <1>1 DEF Inv, TypeOK
  <1>3. PointOK' /\ LockByCommit'
    BY <1>1 DEF Inv, PointOK, PointOf, LockByCommit
  <1>4. DiskOK'
    <2>1. deletes = 0 => HeadServable'
      BY <1>1 DEF Inv, DiskOK, HeadServable
    <2>2. deletes = 0 => \A cl \in Clients : ServableOf(cl)'
      BY <1>1 DEF Inv, DiskOK, ServableOf
    <2> QED BY <1>1, <2>1, <2>2 DEF DiskOK
  <1>5. Calm' <=> Calm
    BY <1>1 DEF Calm
  <1>6. \A cl \in Clients : (Creating(cl)' <=> Creating(cl)) /\ (BranchOf(cl) => BranchOf(cl)')
    BY <1>1 DEF Creating, BranchOf
  <1>7. BranchOK'
    BY <1>1, <1>5, <1>6 DEF Inv, BranchOK, OnBranch
  <1>8. RetryContains' /\ CommitsInOrder'
    BY <1>1, <1>5 DEF Inv, RetryContains, CommitsInOrder, Overtaken
  <1> QED BY <1>2, <1>3, <1>4, <1>7, <1>8 DEF Inv

\* A crash ends every handler, and whoever waited gets no answer.
LEMMA CrashStep ==
    ASSUME Inv, Crash
    PROVE  Inv'
  <1>1. /\ births' = births /\ req' = req
        /\ told' = told /\ acked' = acked /\ queued' = queued /\ deletes' = deletes
        /\ main' = main /\ manifests' = manifests /\ effect' = effect
        /\ blobs' = blobs /\ exists' = exists /\ lock' = None /\ spent' \in [Limited -> Nat]
    BY DEF Crash, disk, history, Spend, Inv, TypeOK, Limited
  <1>2. /\ pc' = [cl \in Clients |-> "idle"] /\ local' = [cl \in Clients |-> NoLocal]
        /\ reply' = [cl \in Clients |-> IF pc[cl] = "idle" THEN reply[cl] ELSE "lost"]
    BY DEF Crash
  <1>3. TypeOK'
    <2>1. pc' \in [Clients -> Points] /\ reply' \in [Clients -> Replies]
      BY <1>2 DEF Inv, TypeOK, Points, Replies
    <2>2. local' \in [Clients -> [parent: Commits \cup {None}, new: Commits \cup {None}]]
      BY <1>2 DEF NoLocal
    <2> QED BY <1>1, <2>1, <2>2 DEF Inv, TypeOK
  <1>4. PointOK'
    <2> SUFFICES ASSUME NEW cl \in Clients PROVE PointOf(cl)'
      BY DEF PointOK
    <2>1. pc'[cl] = "idle" /\ reply'[cl] = IF pc[cl] = "idle" THEN reply[cl] ELSE "lost"
      BY <1>2
    <2>2. reply'[cl] # "none" => req[cl].kind # "none"
      BY <2>1, OwnFacts DEF PointOf, Points
    <2> QED BY <1>1, <2>1, <2>2, OwnFacts DEF PointOf
  <1>5. LockByCommit'
    BY <1>1, <1>2, NoneFacts DEF LockByCommit
  <1>6. DiskOK'
    <2>1. deletes = 0 => HeadServable'
      BY <1>1 DEF Inv, DiskOK, HeadServable
    <2>2. \A cl \in Clients : ServableOf(cl)'
      BY <1>2 DEF ServableOf
    <2> QED BY <1>1, <2>1, <2>2 DEF DiskOK
  <1>7. Calm' <=> Calm
    BY <1>1 DEF Calm
  <1>8. \A cl \in Clients : ~Creating(cl)' /\ (BranchOf(cl) => BranchOf(cl)')
    BY <1>1, <1>2 DEF Creating, BranchOf
  <1>9. BranchOK'
    BY <1>1, <1>7, <1>8 DEF Inv, BranchOK, OnBranch
  <1>10. RetryContains'
    BY <1>1, <1>2, <1>7 DEF Inv, RetryContains
  <1>11. CommitsInOrder'
    BY <1>1, <1>7 DEF Inv, CommitsInOrder, Overtaken
  <1> QED BY <1>3, <1>4, <1>5, <1>6, <1>9, <1>10, <1>11 DEF Inv

-----------------------------------------------------------------------------
(* The invariant *)

\* No repo, no request.
LEMMA InvInit == Init => Inv
  <1> SUFFICES ASSUME Init PROVE Inv
    OBVIOUS
  <1> USE NoneFacts
  <1>1. TypeOK
    <2>1. /\ pc \in [Clients -> Points] /\ reply \in [Clients -> Replies]
          /\ told \in [Clients -> Commits \cup {None}] /\ effect \in [Clients -> Commits \cup {None}]
          /\ spent \in [Limited -> Nat] /\ queued \in Seq(Commits \cup {None})
      BY DEF Init, Points, Replies
    <2>2. local \in [Clients -> [parent: Commits \cup {None}, new: Commits \cup {None}]]
      BY DEF Init, NoLocal
    <2>3. req \in [Clients -> [kind: {"none", "create", "commit", "delete"},
                               edit: Edits \cup {None}, parent: Commits \cup {None}]]
      BY DEF Init, NoReq
    <2> QED BY <2>1, <2>2, <2>3 DEF Init, TypeOK
  <1>2. PointOK
    BY DEF Init, NoReq, PointOK, PointOf
  <1>3. LockByCommit
    BY DEF Init, NoReq, LockByCommit
  <1>4. DiskOK
    BY DEF Init, DiskOK, ServableOf, HeadServable
  <1>5. BranchOK
    BY DEF Init, BranchOK, BranchOf, Creating, OnBranch
  <1>6. RetryContains /\ CommitsInOrder
    BY DEF Init, RetryContains, CommitsInOrder
  <1> QED BY <1>1, <1>2, <1>3, <1>4, <1>5, <1>6 DEF Inv

\* Every step keeps it.
LEMMA InvNext == Inv /\ [Next]_vars => Inv'
  <1> SUFFICES ASSUME Inv, [Next]_vars PROVE Inv'
    OBVIOUS
  <1>1. ASSUME NEW cl \in Clients, CreateRepo(cl) \/ DeleteRepo(cl) PROVE Inv'
    <2>1. \A k \in {"create", "delete"} :
             /\ [NoReq EXCEPT !.kind = k] \in [kind: {"create", "commit", "delete"}, edit: Edits \cup {None},
                                               parent: Commits \cup {None}]
             /\ [NoReq EXCEPT !.kind = k].kind = k
      BY DEF NoReq
    <2> QED BY <1>1, <2>1, SendStep DEF CreateRepo, DeleteRepo
  <1>2. ASSUME NEW cl \in Clients, NEW e \in Edits, NEW parent \in {None, main}, Commit(cl, e, parent)
        PROVE  Inv'
    <2> DEFINE r == [kind |-> "commit", edit |-> e, parent |-> parent]
    <2>1. parent \in Commits \cup {None} BY DEF Inv, TypeOK
    <2>2. r \in [kind: {"create", "commit", "delete"}, edit: Edits \cup {None}, parent: Commits \cup {None}]
          /\ r.edit \in Edits
      BY <2>1
    <2> QED BY <1>2, <2>2, SendStep DEF Commit
  <1>3. ASSUME NEW cl \in Clients, Step(cl) PROVE Inv'
    BY <1>3, StatRepoStep, MkdirRepoStep, ResolveRefStep, GetManifestStep, ApplyOpsStep, PutManifestStep,
       PointRefStep, FanOutStep, RemoveContentStep, RemoveManifestsStep, FanOutDeleteStep DEF Step
  <1>4. ASSUME NEW cl \in Clients, Retry(cl) \/ LockRepo(cl) \/ Fail(cl) \/ FanOutErr(cl) PROVE Inv'
    BY <1>4, RetryStep, LockRepoStep, FailStep, FanOutErrStep
  <1>5. ASSUME UNCHANGED vars PROVE Inv'
    <2>1. /\ births' = births /\ lock' = lock /\ local' = local /\ req' = req /\ reply' = reply
          /\ told' = told /\ acked' = acked /\ queued' = queued /\ deletes' = deletes
          /\ main' = main /\ manifests' = manifests /\ effect' = effect /\ pc' = pc
          /\ blobs' = blobs /\ exists' = exists /\ spent' = spent
      BY <1>5 DEF vars, disk, handler, history
    <2>2. TypeOK' BY <2>1 DEF Inv, TypeOK
    <2>3. PointOK' /\ LockByCommit' /\ DiskOK'
      BY <2>1 DEF Inv, PointOK, PointOf, LockByCommit, DiskOK, ServableOf, HeadServable
    <2>4. BranchOK' /\ RetryContains' /\ CommitsInOrder'
      BY <2>1 DEF Inv, BranchOK, BranchOf, Creating, OnBranch, Calm, RetryContains, CommitsInOrder, Overtaken
    <2> QED BY <2>2, <2>3, <2>4 DEF Inv
  <1> QED BY <1>1, <1>2, <1>3, <1>4, <1>5, PutLFSBlobStep, CrashStep DEF Next

\* The invariant holds of the relay's write path.
LEMMA InvHolds == Spec => []Inv
  BY InvInit, InvNext, PTL DEF Spec

\* Every variable of the write path keeps to the values of its Go counterpart.
THEOREM TypeCorrect == Spec => []TypeOK
  <1>1. Inv => TypeOK BY DEF Inv
  <1> QED BY <1>1, InvHolds, PTL

\* The mutex of the repo is held by exactly the commit that is past LockRepo,
\* through every error return, failing backend call and crash.
THEOREM MutexByCommit == Spec => []LockByCommit
  <1>1. Inv => LockByCommit BY DEF Inv
  <1> QED BY <1>1, InvHolds, PTL

\* Until the repo is deleted, the head of the branch has its manifest and every
\* blob of its tree, whatever crashed or failed on the way.
THEOREM HeadAlwaysServable == Spec => []HeadServableUndeleted
  <1>1. Inv => HeadServableUndeleted BY DEF Inv, DiskOK, HeadServableUndeleted
  <1> QED BY <1>1, InvHolds, PTL

\* With one creation and no delete, a commit a client was told of stays on the
\* branch.
THEOREM AckedStayOnBranch == Spec => []BranchKeepsAcked
  <1>1. Inv => BranchKeepsAcked BY DEF Inv, BranchOK, BranchKeepsAcked
  <1> QED BY <1>1, InvHolds, PTL

\* A retried commit is answered with a commit that contains what its first attempt
\* put on the branch.
THEOREM RetryConverges == Spec => []RetryContains
  <1>1. Inv => RetryContains BY DEF Inv
  <1> QED BY <1>1, InvHolds, PTL

\* The replication queue hears of the commits of the branch in their order.
THEOREM QueueInOrder == Spec => []CommitsInOrder
  <1>1. Inv => CommitsInOrder BY DEF Inv
  <1> QED BY <1>1, InvHolds, PTL

=============================================================================
