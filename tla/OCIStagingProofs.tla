------------------------- MODULE OCIStagingProofs -------------------------
(***************************************************************************)
(* Theorems about staging and promotion in the OCI backend, for every      *)
(* number of callers and commits, either format, and any failures and      *)
(* crashes.  Core (types, well-formed locals, the repo mutex) is inductive;*)
(* what the tags promise is inductive relative to it.                      *)
(***************************************************************************)
EXTENDS OCIStaging, TLAPS

\* The locals a program point relies on are set.
OpOK ==
    \A p \in Callers :
        /\ pc[p] \in {"waitPut", "layers", "stage", "note", "publish", "refs"}
             => op[p].commit \in Commits
        /\ pc[p] \in {"waitPut", "layers", "stage", "note"} => op[p].kind = "manifest"
        /\ pc[p] \in {"upload", "pend", "waitPromote", "waitCheck", "waitIndex", "list",
                      "promote", "check", "index"}
             => op[p].kind = "blob"
        /\ pc[p] \in {"publish", "refs"} => op[p].kind \in {"manifest", "blob"}
        /\ op[p].kind = "blob" => op[p].blob \in Blobs
        /\ pc[p] \in {"waitCheck", "check", "waitIndex", "index"} => Format = "tar-layers"

\* The mutex is held by exactly the caller in a critical section.
Holds(p) == pc[p] \in Critical \/ (pc[p] = "pend" /\ Format = "tar-layers")
MutexOK == \A p \in Callers : Holds(p) <=> lock = p

Core == TypeOK /\ OpOK /\ MutexOK

\* Spending from a bound keeps the account well-typed.
LEMMA SpendType ==
    ASSUME TypeOK, NEW what \in Limited, Spend(what)
    PROVE  spent' \in [Limited -> Nat]
  BY DEF TypeOK, Spend

\* The empty operation record is well-typed.
LEMMA NoOpType == NoOp \in Op
  BY DEF NoOp, Op

\* The core invariant holds when the process starts.
LEMMA InitCore == Init => Core
  <1> SUFFICES ASSUME Init PROVE Core
    OBVIOUS
  <1>1. TypeOK
    BY NoOpType DEF Init, TypeOK, Points
  <1>2. OpOK
    BY DEF Init, OpOK, NoOp
  <1>3. MutexOK
    BY NoneAssumption DEF Init, MutexOK, Holds, Critical
  <1> QED BY <1>1, <1>2, <1>3 DEF Core

\* A returning call keeps types, operation records and the mutex in order:
\* what it held it gives up, and nobody else's hold changes.
LEMMA ReturnCore ==
    ASSUME Core, NEW p \in Callers, Return(p)
    PROVE  /\ pc' \in [Callers -> Points] /\ op' \in [Callers -> Op]
           /\ lock' \in Callers \cup {None}
           /\ OpOK' /\ MutexOK'
  <1>1. pc' \in [Callers -> Points] /\ op' \in [Callers -> Op]
    BY NoOpType DEF Core, TypeOK, Return, Goto, Points
  <1>2. lock' \in Callers \cup {None}
    BY DEF Core, TypeOK, Return, Unlock
  <1>3. OpOK'
    BY NoOpType DEF Core, TypeOK, OpOK, Return, Goto, NoOp
  <1>4. MutexOK'
    BY NoneAssumption DEF Core, TypeOK, MutexOK, Holds, Return, Unlock, Goto, Critical
  <1> QED BY <1>1, <1>2, <1>3, <1>4

\* A step of one caller that keeps its locals, or changes only some of them.
LEMMA CallCore ==
    ASSUME Core, NEW p \in Callers, NEW what \in Limited,
           NEW point \in {"waitPut", "waitCheck", "upload", "waitDelete"},
           NEW record \in Op, Call(p, what, point, record),
           point = "waitPut" => record.kind = "manifest" /\ record.commit \in Commits,
           point \in {"waitCheck", "upload"} => record.kind = "blob" /\ record.blob \in Blobs,
           record.kind = "blob" => record.blob \in Blobs,
           point = "waitCheck" => Format = "tar-layers"
    PROVE  Core'
  <1>1. TypeOK'
    BY SpendType DEF Core, TypeOK, Call, Goto, Points, Waits, tags, stages, history
  <1>2. OpOK'
    BY DEF Core, TypeOK, OpOK, Call, Goto
  <1>3. MutexOK'
    BY NoneAssumption DEF Core, TypeOK, MutexOK, Holds, Call, Goto, Critical, At
  <1> QED BY <1>1, <1>2, <1>3 DEF Core

\* lockRepo hands the free mutex to one waiter, who enters its critical
\* section.
LEMMA LockCore ==
    ASSUME Core, NEW p \in Callers, LockRepo(p)
    PROVE  Core'
  <1>1. Entered(pc[p]) \in Critical
    BY DEF LockRepo, Waits, Entered, Critical
  <1>2. TypeOK'
    BY <1>1 DEF Core, TypeOK, LockRepo, Goto, Points, tags, stages, history
  <1>3. OpOK'
    BY DEF Core, TypeOK, OpOK, LockRepo, Goto, Entered, Waits
  <1>4. MutexOK'
    <2>1. lock' = p /\ pc'[p] \in Critical
      BY <1>1 DEF Core, TypeOK, LockRepo, Goto
    <2>2. \A q \in Callers \ {p} : pc'[q] = pc[q] /\ ~Holds(q)
      BY NoneAssumption DEF Core, TypeOK, MutexOK, LockRepo, Goto
    <2>3. Holds(p)'
      BY <2>1 DEF Holds, Critical
    <2>4. \A q \in Callers \ {p} : ~Holds(q)'
      BY <2>2 DEF Holds, Critical
    <2> QED BY <2>1, <2>3, <2>4 DEF MutexOK
  <1> QED BY <1>2, <1>3, <1>4 DEF Core

\* A step of one caller that neither takes nor gives up the mutex.
LEMMA MutexKept ==
    ASSUME Core, NEW p \in Callers, NEW point \in Points,
           pc' = [pc EXCEPT ![p] = point], lock' = lock,
           Holds(p) <=> point \in Critical \/ (point = "pend" /\ Format = "tar-layers")
    PROVE  MutexOK'
  BY DEF Core, TypeOK, MutexOK, Holds

\* putOrStage, stage and publish.
LEMMA ManifestCore ==
    ASSUME Core, NEW p \in Callers,
           \/ PutOrStage(p) \/ NotePending(p) \/ Publish(p)
           \/ \E m \in BOOLEAN : Stage(p, m) \/ Unstage(p, m)
           \/ \E f \in Refs : TagRef(p, f)
    PROVE  Core'
  <1>0. op[p] \in Op /\ pc[p] \in Points
    BY DEF Core, TypeOK
  <1>1. CASE PutOrStage(p)
    <2>1. PICK point \in {"publish", "stage"} : pc' = [pc EXCEPT ![p] = point]
      BY <1>1 DEF PutOrStage, Goto
    <2>2. TypeOK'
      BY <1>1, <2>1 DEF Core, TypeOK, PutOrStage, Points, Critical, tags, stages, history
    <2>3. OpOK'
      BY <1>1, <2>1 DEF Core, TypeOK, OpOK, PutOrStage, At
    <2>4. MutexOK'
      BY <1>1, <2>1, MutexKept DEF PutOrStage, At, Holds, Points, Critical
    <2> QED BY <2>2, <2>3, <2>4 DEF Core
  <1>2. CASE NotePending(p)
    <2>1. Return(p) /\ op[p].commit \in Commits /\ op[p].refs \in SUBSET Refs
      BY <1>0, <1>2 DEF NotePending, At, Core, OpOK, Op
    <2>2. TypeOK'
      BY <1>2, <2>1, ReturnCore DEF Core, TypeOK, NotePending, tags, stages
    <2> QED BY <2>1, <2>2, ReturnCore DEF Core
  <1>3. CASE Publish(p)
    <2>1. op[p].commit \in Commits /\ op[p].files \in SUBSET Files /\ At(p, "publish")
      BY <1>0, <1>3 DEF Publish, At, Core, OpOK, Op
    <2>2. TypeOK'
      BY <1>3, <2>1 DEF Core, TypeOK, Publish, Goto, Points, Critical, stages, history
    <2>3. OpOK'
      BY <1>3, <2>1 DEF Core, TypeOK, OpOK, Publish, Goto, At
    <2>4. MutexOK'
      BY <1>3, <2>1, MutexKept DEF Publish, Goto, At, Holds, Points, Critical
    <2> QED BY <2>2, <2>3, <2>4 DEF Core
  <1>4. ASSUME NEW m \in BOOLEAN, Stage(p, m) PROVE Core'
    <2>1. /\ op[p].commit \in Commits /\ op[p].files \in SUBSET Files
          /\ op[p].refs \in SUBSET Refs /\ At(p, "stage")
      BY <1>0, <1>4 DEF Stage, At, Core, OpOK, Op
    <2>2. spent' \in [Limited -> Nat]
      BY <1>4, SpendType DEF Stage, Core, TypeOK, Limited
    <2>3. TypeOK'
      BY <1>4, <2>1, <2>2 DEF Core, TypeOK, Stage, StageLate, Goto, Points, Critical, history
    <2>4. OpOK'
      BY <1>4, <2>1 DEF Core, TypeOK, OpOK, Stage, Goto, At
    <2>5. MutexOK'
      BY <1>4, <2>1, MutexKept DEF Stage, Goto, At, Holds, Points, Critical
    <2> QED BY <2>3, <2>4, <2>5 DEF Core
  <1>5. ASSUME NEW m \in BOOLEAN, Unstage(p, m) PROVE Core'
    <2>1. op[p].commit \in Commits /\ op[p].kind \in {"manifest", "blob"} /\ At(p, "refs")
      BY <1>0, <1>5 DEF Unstage, At, Core, OpOK, Op
    <2>2. spent' \in [Limited -> Nat]
      BY <1>5, SpendType DEF Unstage, Core, TypeOK, Limited
    <2>3. /\ staged' \subseteq Commits /\ stagedFiles' \in [Commits -> SUBSET Files]
          /\ stagedRefs' \in [Commits -> SUBSET Refs] /\ late' \subseteq staged'
      BY <1>5, <2>1 DEF Unstage, Core, TypeOK, stages
    <2>4. CASE op[p].kind = "manifest"
      <3>1. Return(p)
        BY <1>5, <2>4 DEF Unstage
      <3>2. TypeOK'
        BY <1>5, <2>2, <2>3, <3>1, ReturnCore DEF Core, TypeOK, Unstage, history
      <3> QED BY <3>1, <3>2, ReturnCore DEF Core
    <2>5. CASE op[p].kind = "blob"
      <3>1. Goto(p, "promote") /\ UNCHANGED <<lock, op>>
        BY <1>5, <2>5 DEF Unstage
      <3>2. TypeOK'
        BY <1>5, <2>2, <2>3, <3>1 DEF Core, TypeOK, Unstage, Goto, Points, Critical, history
      <3>3. OpOK'
        BY <2>5, <3>1 DEF Core, TypeOK, OpOK, Goto
      <3>4. MutexOK'
        BY <2>1, <3>1, MutexKept DEF Goto, At, Holds, Points, Critical
      <3> QED BY <3>2, <3>3, <3>4 DEF Core
    <2> QED BY <2>1, <2>4, <2>5
  <1>6. ASSUME NEW f \in Refs, TagRef(p, f) PROVE Core'
    <2>1. op[p].commit \in Commits
      BY <1>0, <1>6 DEF TagRef, At, Core, OpOK, Op
    <2>2. /\ op' \in [Callers -> Op]
          /\ op'[p] = [op[p] EXCEPT !.refs = @ \ {f}]
          /\ \A q \in Callers \ {p} : op'[q] = op[q]
      BY <1>0, <1>6 DEF TagRef, Core, TypeOK, Op
    <2>3. TypeOK'
      BY <1>6, <2>1, <2>2 DEF Core, TypeOK, TagRef, stages
    <2>4. op'[p].commit = op[p].commit /\ op'[p].kind = op[p].kind /\ op'[p].blob = op[p].blob
      BY <1>0, <2>2 DEF Op
    <2>5. OpOK' /\ MutexOK'
      BY <1>6, <2>2, <2>4 DEF Core, OpOK, TagRef, MutexOK, Holds
    <2> QED BY <2>3, <2>5 DEF Core
  <1> QED BY <1>1, <1>2, <1>3, <1>4, <1>5, <1>6

\* PutBlob, hasPending and promoteStaged.
LEMMA BlobCore ==
    ASSUME Core, NEW p \in Callers,
           \/ CheckIndex(p) \/ Upload(p) \/ SaveIndex(p)
           \/ HasPending(p) \/ HasPendingErr(p) \/ ListStaged(p) \/ PromoteDone(p)
           \/ \E c \in Commits : PromoteStaged(p, c) \/ SkipStaged(p, c)
    PROVE  Core'
  <1>0. op[p] \in Op /\ pc[p] \in Points /\ op[p].kind = "blob" /\ op[p].blob \in Blobs
    BY DEF Core, TypeOK, OpOK, CheckIndex, Upload, SaveIndex, HasPending, HasPendingErr,
           ListStaged, PromoteDone, PromoteStaged, SkipStaged, At
  <1>1. CASE CheckIndex(p)
    <2>1. CASE op[p].blob \in index
      <3>1. Return(p) /\ acked' = acked \cup {op[p].blob}
        BY <1>1, <2>1 DEF CheckIndex
      <3>2. TypeOK'
        BY <1>0, <1>1, <3>1, ReturnCore DEF Core, TypeOK, CheckIndex, tags, stages
      <3> QED BY <3>1, <3>2, ReturnCore DEF Core
    <2>2. CASE op[p].blob \notin index
      <3>1. /\ pc' = [pc EXCEPT ![p] = "upload"] /\ op' = op /\ acked' = acked
            /\ pc[p] = "check"
        BY <1>1, <2>2 DEF CheckIndex, Goto, At
      <3>2. lock = p /\ lock' = None
        <4>1. Holds(p)
          BY <3>1 DEF Holds, Critical
        <4>2. lock = p
          BY <4>1 DEF Core, MutexOK
        <4> QED BY <1>1, <2>2, <4>2 DEF CheckIndex, Unlock
      <3>3. TypeOK'
        BY <1>1, <3>1, <3>2 DEF Core, TypeOK, CheckIndex, Points, tags, stages
      <3>4. OpOK'
        BY <1>0, <3>1 DEF Core, TypeOK, OpOK
      <3>5. MutexOK'
        <4>1. ~Holds(p)'
          BY <3>1 DEF Core, TypeOK, Holds, Critical
        <4>2. \A q \in Callers \ {p} : ~Holds(q)'
          BY <3>1, <3>2 DEF Core, TypeOK, MutexOK, Holds
        <4> QED BY <3>2, <4>1, <4>2, NoneAssumption DEF MutexOK
      <3> QED BY <3>3, <3>4, <3>5 DEF Core
    <2> QED BY <2>1, <2>2
  <1>2. CASE Upload(p)
    <2>1. PICK point \in {"waitIndex", "pend"} :
             /\ pc' = [pc EXCEPT ![p] = point]
             /\ point = "waitIndex" <=> Format = "tar-layers"
      BY <1>2 DEF Upload, Goto
    <2>2. TypeOK'
      BY <1>0, <1>2, <2>1 DEF Core, TypeOK, Upload, Points, Waits, tags, stages, history
    <2>3. OpOK'
      BY <1>0, <1>2, <2>1 DEF Core, TypeOK, OpOK, Upload
    <2>4. MutexOK'
      BY <1>2, <2>1, MutexKept DEF Upload, At, Holds, Points, Critical, Waits
    <2> QED BY <2>2, <2>3, <2>4 DEF Core
  <1>3. CASE SaveIndex(p)
    <2>1. Format = "tar-layers"
      BY <1>3 DEF SaveIndex, At, Core, OpOK
    <2>2. TypeOK'
      BY <1>0, <1>3 DEF Core, TypeOK, SaveIndex, Goto, Points, stages, history
    <2>3. OpOK'
      BY <1>0, <1>3 DEF Core, TypeOK, OpOK, SaveIndex, Goto
    <2>4. MutexOK'
      BY <1>3, <2>1, MutexKept DEF SaveIndex, Goto, At, Holds, Points, Critical
    <2> QED BY <2>2, <2>3, <2>4 DEF Core
  <1>4. CASE HasPending(p)
    <2>1. CASE pending = 1 \/ staged # {}
      <3>1. PICK point \in {"list", "waitPromote"} :
               /\ pc' = [pc EXCEPT ![p] = point]
               /\ point = "list" <=> Format = "tar-layers"
        BY <1>4, <2>1 DEF HasPending, Goto
      <3>2. lock' = lock /\ op' = op /\ acked' = acked /\ pending' = 1 /\ pc[p] = "pend"
        BY <1>4, <2>1 DEF HasPending, At
      <3>3. TypeOK'
        BY <1>4, <3>1, <3>2 DEF Core, TypeOK, HasPending, Points, Critical, Waits, tags, stages
      <3>4. OpOK'
        BY <1>0, <3>1, <3>2 DEF Core, TypeOK, OpOK
      <3>5. MutexOK'
        BY <3>1, <3>2, MutexKept DEF Holds, Points, Critical, Waits
      <3> QED BY <3>3, <3>4, <3>5 DEF Core
    <2>2. CASE ~(pending = 1 \/ staged # {})
      <3>1. Return(p) /\ acked' = acked \cup {op[p].blob} /\ pending' = pending
        BY <1>4, <2>2 DEF HasPending, Succeed
      <3>2. TypeOK'
        BY <1>0, <1>4, <3>1, ReturnCore DEF Core, TypeOK, HasPending, tags, stages
      <3> QED BY <3>1, <3>2, ReturnCore DEF Core
    <2> QED BY <2>1, <2>2
  <1>5. CASE HasPendingErr(p)
    <2>1. Return(p) /\ acked' = acked \cup {op[p].blob}
      BY <1>5 DEF HasPendingErr, Succeed
    <2>2. spent' \in [Limited -> Nat]
      BY <1>5, SpendType DEF HasPendingErr, Core, Limited
    <2>3. TypeOK'
      BY <1>0, <1>5, <2>1, <2>2, ReturnCore DEF Core, TypeOK, HasPendingErr, tags, stages
    <2> QED BY <2>1, <2>3, ReturnCore DEF Core
  <1>6. CASE ListStaged(p)
    <2>1. /\ op' \in [Callers -> Op]
          /\ op'[p].kind = op[p].kind /\ op'[p].blob = op[p].blob
          /\ \A q \in Callers \ {p} : op'[q] = op[q]
      BY <1>0, <1>6 DEF ListStaged, Core, TypeOK, Op
    <2>2. TypeOK'
      BY <1>6, <2>1 DEF Core, TypeOK, ListStaged, Goto, Points, Critical, tags, stages, history
    <2>3. OpOK'
      BY <1>0, <1>6, <2>1 DEF Core, TypeOK, OpOK, ListStaged, Goto
    <2>4. MutexOK'
      BY <1>6, MutexKept DEF ListStaged, Goto, At, Holds, Points, Critical
    <2> QED BY <2>2, <2>3, <2>4 DEF Core
  <1>7. CASE PromoteDone(p)
    <2>1. Return(p) /\ acked' = acked \cup {op[p].blob}
      BY <1>7 DEF PromoteDone, Succeed
    <2>2. TypeOK'
      BY <1>0, <1>7, <2>1, ReturnCore DEF Core, TypeOK, PromoteDone, tags, stages
    <2> QED BY <2>1, <2>2, ReturnCore DEF Core
  <1>8. ASSUME NEW c \in Commits, PromoteStaged(p, c) PROVE Core'
    <2>1. PICK point \in {"publish", "promote"} :
             /\ pc' = [pc EXCEPT ![p] = point]
             /\ op' \in [Callers -> Op]
             /\ op'[p].kind = op[p].kind /\ op'[p].blob = op[p].blob
             /\ point = "publish" => op'[p].commit = c
             /\ \A q \in Callers \ {p} : op'[q] = op[q]
      <3>1. CASE stagedFiles[c] \subseteq Present
        <4>1. pc' = [pc EXCEPT ![p] = "publish"]
          BY <1>8, <3>1 DEF PromoteStaged, Goto
        <4>2. op' = [op EXCEPT ![p].rest = @ \ {c}, ![p].commit = c,
                               ![p].files = stagedFiles[c], ![p].refs = stagedRefs[c]]
          BY <1>8, <3>1 DEF PromoteStaged
        <4>3. stagedFiles[c] \in SUBSET Files /\ stagedRefs[c] \in SUBSET Refs
          BY DEF Core, TypeOK
        <4> QED BY <1>0, <4>1, <4>2, <4>3, ZenonT(40) DEF Core, TypeOK, Op
      <3>2. CASE ~(stagedFiles[c] \subseteq Present)
        <4>1. pc' = [pc EXCEPT ![p] = "promote"]
          BY <1>8, <3>2 DEF PromoteStaged, At, Core, TypeOK
        <4>2. op' = [op EXCEPT ![p].rest = @ \ {c}, ![p].left = @ \cup {c}]
          BY <1>8, <3>2 DEF PromoteStaged
        <4> QED BY <1>0, <4>1, <4>2 DEF Core, TypeOK, Op
      <3> QED BY <3>1, <3>2
    <2>2. TypeOK'
      BY <1>8, <2>1 DEF Core, TypeOK, PromoteStaged, Points, Critical, tags, stages, history
    <2>3. OpOK'
      BY <1>0, <2>1 DEF Core, TypeOK, OpOK
    <2>4. MutexOK'
      BY <1>8, <2>1, MutexKept DEF PromoteStaged, At, Holds, Points, Critical
    <2> QED BY <2>2, <2>3, <2>4 DEF Core
  <1>9. ASSUME NEW c \in Commits, SkipStaged(p, c) PROVE Core'
    <2>1. /\ op' \in [Callers -> Op]
          /\ op'[p].kind = op[p].kind /\ op'[p].blob = op[p].blob
          /\ op'[p].commit = op[p].commit
          /\ \A q \in Callers \ {p} : op'[q] = op[q]
      BY <1>0, <1>9 DEF SkipStaged, Core, TypeOK, Op
    <2>2. spent' \in [Limited -> Nat]
      BY <1>9, SpendType DEF SkipStaged, Core, Limited
    <2>3. TypeOK'
      BY <1>9, <2>1, <2>2 DEF Core, TypeOK, SkipStaged, tags, stages, history
    <2>4. OpOK' /\ MutexOK'
      BY <1>0, <1>9, <2>1 DEF Core, OpOK, SkipStaged, MutexOK, Holds
    <2> QED BY <2>3, <2>4 DEF Core
  <1> QED BY <1>1, <1>2, <1>3, <1>4, <1>5, <1>6, <1>7, <1>8, <1>9

\* DeleteRepo.
LEMMA DeleteCore ==
    ASSUME Core, NEW p \in Callers,
           \/ ListTags(p) \/ DeleteDone(p)
           \/ \E tag \in op[p].tags, d \in BOOLEAN : DeleteTag(p, tag, d)
    PROVE  Core'
  <1>0. op[p] \in Op
    BY DEF Core, TypeOK
  <1>1. CASE ListTags(p)
    <2>1. CASE Tags = {}
      <3>1. Return(p) /\ torn' = torn
        BY <1>1, <2>1 DEF ListTags
      <3>2. TypeOK'
        BY <1>1, <3>1, ReturnCore DEF Core, TypeOK, ListTags, tags, stages
      <3> QED BY <3>1, <3>2, ReturnCore DEF Core
    <2>2. CASE Tags # {}
      <3>1. /\ op' = [op EXCEPT ![p].tags = Tags] /\ pc' = [pc EXCEPT ![p] = "delete"]
            /\ torn' = 1 /\ lock' = lock /\ pc[p] = "tags"
        BY <1>1, <2>2 DEF ListTags, Goto, At
      <3>2. Tags \in SUBSET Tag
        BY DEF Tags, Tag, Core, TypeOK
      <3>3. /\ op' \in [Callers -> Op]
            /\ op'[p].kind = op[p].kind /\ op'[p].blob = op[p].blob
            /\ \A q \in Callers \ {p} : op'[q] = op[q]
        BY <1>0, <3>1, <3>2 DEF Core, TypeOK, Op
      <3>4. TypeOK'
        BY <1>1, <3>1, <3>3 DEF Core, TypeOK, ListTags, Points, Critical, tags, stages
      <3>5. OpOK'
        BY <3>1, <3>3 DEF Core, TypeOK, OpOK
      <3>6. MutexOK'
        BY <3>1, MutexKept DEF Holds, Points, Critical
      <3> QED BY <3>4, <3>5, <3>6 DEF Core
    <2> QED BY <2>1, <2>2
  <1>2. CASE DeleteDone(p)
    <2>1. Return(p)
      BY <1>2 DEF DeleteDone
    <2>2. TypeOK'
      BY <1>2, <2>1, ReturnCore DEF Core, TypeOK, DeleteDone, tags, stages
    <2> QED BY <2>1, <2>2, ReturnCore DEF Core
  <1>3. ASSUME NEW tag \in op[p].tags, NEW d \in BOOLEAN, DeleteTag(p, tag, d) PROVE Core'
    <2>1. /\ op' \in [Callers -> Op]
          /\ op'[p].kind = op[p].kind /\ op'[p].blob = op[p].blob
          /\ op'[p].commit = op[p].commit
          /\ \A q \in Callers \ {p} : op'[q] = op[q]
      BY <1>0, <1>3 DEF DeleteTag, Core, TypeOK, Op
    <2>2. spent' \in [Limited -> Nat]
      BY <1>3, SpendType DEF DeleteTag, Core, TypeOK, Limited
    <2>3. /\ published' \subseteq Commits /\ publishedFiles' \in [Commits -> SUBSET Files]
          /\ staged' \subseteq Commits /\ stagedFiles' \in [Commits -> SUBSET Files]
          /\ stagedRefs' \in [Commits -> SUBSET Refs] /\ late' \subseteq staged'
          /\ refTag' \in [Refs -> Commits \cup {None}]
          /\ index' \subseteq Blobs /\ acked' \subseteq Blobs
      <3>1. CASE d
        <4>1. Removed(tag)
          BY <1>3, <3>1 DEF DeleteTag
        <4> QED BY <4>1 DEF Removed, Core, TypeOK
      <3>2. CASE ~d
        BY <1>3, <3>2 DEF DeleteTag, Core, TypeOK, tags, stages
      <3> QED BY <3>1, <3>2
    <2>4. TypeOK'
      BY <1>3, <2>1, <2>2, <2>3 DEF Core, TypeOK, DeleteTag
    <2>5. OpOK' /\ MutexOK'
      BY <1>3, <2>1 DEF Core, OpOK, DeleteTag, MutexOK, Holds
    <2> QED BY <2>4, <2>5 DEF Core
  <1> QED BY <1>1, <1>2, <1>3

\* Every step keeps the types, the locals and the mutex in order.
LEMMA CoreStep == Core /\ [Next]_vars => Core'
  <1> SUFFICES ASSUME Core, [Next]_vars PROVE Core'
    OBVIOUS
  <1>1. ASSUME NEW p \in Callers, NEW c \in Commits, NEW refs \in SUBSET Refs,
               NEW files \in Versions[c], PutManifest(p, c, files, refs)
        PROVE  Core'
    <2> DEFINE record == [NoOp EXCEPT !.kind = "manifest", !.commit = c,
                                      !.files = files, !.refs = refs]
    <2>1. files \in SUBSET Files
      BY VersionsAssumption DEF Files
    <2>2. record \in Op /\ record.kind = "manifest" /\ record.commit \in Commits
      BY <2>1 DEF Op, NoOp
    <2>3. Call(p, "put", "waitPut", record)
      BY <1>1 DEF PutManifest
    <2> HIDE DEF record
    <2> QED BY <2>2, <2>3, CallCore DEF Limited
  <1>2. ASSUME NEW p \in Callers, NEW b \in Blobs, PutBlob(p, b) PROVE Core'
    <2> DEFINE record == [NoOp EXCEPT !.kind = "blob", !.blob = b]
               point == IF Format = "tar-layers" THEN "waitCheck" ELSE "upload"
    <2>1. record \in Op /\ record.kind = "blob" /\ record.blob \in Blobs
      BY DEF Op, NoOp
    <2>2. Call(p, "blob", point, record)
      BY <1>2 DEF PutBlob
    <2>3. point \in {"waitCheck", "upload"} /\ (point = "waitCheck" => Format = "tar-layers")
      OBVIOUS
    <2> HIDE DEF record, point
    <2> QED BY <2>1, <2>2, <2>3, CallCore DEF Limited
  <1>3. ASSUME NEW p \in Callers, DeleteRepo(p) PROVE Core'
    <2> DEFINE record == [NoOp EXCEPT !.kind = "delete"]
    <2>1. record \in Op /\ record.kind = "delete"
      BY DEF Op, NoOp
    <2>2. Call(p, "delete", "waitDelete", record)
      BY <1>3 DEF DeleteRepo
    <2> HIDE DEF record
    <2> QED BY <2>1, <2>2, CallCore DEF Limited
  <1>4. ASSUME NEW p \in Callers, LockRepo(p) PROVE Core'
    BY <1>4, LockCore
  <1>5. ASSUME NEW p \in Callers, Step(p) PROVE Core'
    BY <1>5, ManifestCore, BlobCore, DeleteCore DEF Step
  <1>6. ASSUME NEW p \in Callers, Faulty(p) PROVE Core'
    <2>1. CASE Fail(p)
      <3>1. Return(p)
        BY <2>1 DEF Fail
      <3>2. spent' \in [Limited -> Nat]
        BY <2>1, SpendType DEF Fail, Core, Limited
      <3>3. TypeOK'
        BY <2>1, <3>1, <3>2, ReturnCore DEF Core, TypeOK, Fail, tags, stages, history
      <3> QED BY <3>1, <3>3, ReturnCore DEF Core
    <2> QED BY <1>6, <2>1, ManifestCore, BlobCore, DeleteCore DEF Faulty
  <1>7. CASE Crash
    <2>1. spent' \in [Limited -> Nat]
      BY <1>7, SpendType DEF Crash, Core, Limited
    <2>2. TypeOK'
      BY <1>7, <2>1, NoOpType DEF Core, TypeOK, Crash, Points, tags, stages, history
    <2>3. OpOK'
      BY <1>7 DEF Crash, OpOK, NoOp
    <2>4. MutexOK'
      BY <1>7, NoneAssumption DEF Crash, MutexOK, Holds, Critical
    <2> QED BY <2>2, <2>3, <2>4 DEF Core
  <1>8. CASE UNCHANGED vars
    BY <1>8 DEF vars, tags, stages, history, Core, TypeOK, OpOK, MutexOK, Holds
  <1> QED BY <1>1, <1>2, <1>3, <1>4, <1>5, <1>6, <1>7, <1>8 DEF Next

\* Types, for every instance.
THEOREM TypeCorrect == Spec => []TypeOK
  <1>1. Core => TypeOK
    BY DEF Core
  <1> QED BY <1>1, InitCore, CoreStep, PTL DEF Spec

\* lockRepo and its deferred unlocks: the repo mutex is held by exactly the
\* caller inside a critical section, so two never are, and no return, error
\* return or early return leaves it locked.
THEOREM MutexCorrect == Spec => []MutexOK
  <1>1. Core => MutexOK
    BY DEF Core
  <1> QED BY <1>1, InitCore, CoreStep, PTL DEF Spec

-----------------------------------------------------------------------------
(* What the tags promise *)

\* A caller about to tag a commit has found its files, one about to tag refs
\* has tagged the commit, and nobody deletes tags unnoticed.
CallerOK(p) ==
    /\ pc[p] = "publish" => op[p].files \subseteq Present
    /\ pc[p] = "refs" => op[p].commit \in published
    /\ pc[p] = "delete" => torn = 1

TagInv == PublishedServable /\ RefResolves /\ \A p \in Callers : CallerOK(p)

\* A step of one caller that removes no file and leaves the tags alone.
LEMMA TagFrame ==
    ASSUME TagInv, NEW p \in Callers,
           Present \subseteq Present',
           published' = published, publishedFiles' = publishedFiles,
           refTag' = refTag, torn' = torn,
           \A q \in Callers \ {p} : pc'[q] = pc[q] /\ op'[q] = op[q],
           CallerOK(p)'
    PROVE  TagInv'
  <1>1. PublishedServable' /\ RefResolves'
    BY DEF TagInv, PublishedServable, RefResolves
  <1>2. ASSUME NEW q \in Callers \ {p} PROVE CallerOK(q)'
    BY DEF TagInv, CallerOK
  <1> QED BY <1>1, <1>2 DEF TagInv

\* Two callers never tag or delete at the same time.
LEMMA Alone ==
    ASSUME Core, NEW p \in Callers, NEW q \in Callers \ {p},
           pc[p] \in {"publish", "refs", "delete"}
    PROVE  pc[q] \notin {"publish", "refs", "delete"}
  <1>1. Holds(p)
    BY DEF Holds, Critical
  <1>2. ~Holds(q)
    BY <1>1 DEF Core, MutexOK
  <1> QED BY <1>2 DEF Holds, Critical

\* What a step other than a tagging or deleting one leaves as it was.
Quiet(p) ==
    /\ blobs \subseteq blobs' /\ index \subseteq index'
    /\ published' = published /\ publishedFiles' = publishedFiles
    /\ refTag' = refTag /\ torn' = torn
    /\ \A q \in Callers \ {p} : pc'[q] = pc[q] /\ op'[q] = op[q]
    /\ pc'[p] \notin {"publish", "refs", "delete"}

\* A returning call has no claim on the tags left.
LEMMA QuietReturn ==
    ASSUME Core, NEW p \in Callers, Return(p)
    PROVE  /\ \A q \in Callers \ {p} : pc'[q] = pc[q] /\ op'[q] = op[q]
           /\ pc'[p] = "idle"
  BY DEF Core, TypeOK, Return, Goto

\* A quiet step keeps the tag invariant.
LEMMA QuietStep ==
    ASSUME TagInv, NEW p \in Callers, Quiet(p)
    PROVE  TagInv'
  <1>1. Present \subseteq Present'
    BY DEF Quiet, Present
  <1>2. CallerOK(p)'
    BY DEF Quiet, CallerOK
  <1> QED BY <1>1, <1>2, TagFrame DEF Quiet

\* The actions that touch no tag are quiet.
LEMMA QuietActions ==
    ASSUME Core, NEW p \in Callers,
           \/ \E c \in Commits, refs \in SUBSET Refs :
                 \E files \in Versions[c] : PutManifest(p, c, files, refs)
           \/ \E b \in Blobs : PutBlob(p, b)
           \/ DeleteRepo(p) \/ LockRepo(p) \/ Fail(p) \/ NotePending(p)
           \/ \E m \in BOOLEAN : Stage(p, m) \/ Unstage(p, m)
           \/ CheckIndex(p) \/ Upload(p) \/ SaveIndex(p)
           \/ HasPending(p) \/ HasPendingErr(p) \/ ListStaged(p) \/ PromoteDone(p)
           \/ \E c \in Commits : SkipStaged(p, c)
    PROVE  Quiet(p)
  <1>1. ASSUME NEW what, NEW record,
               NEW point \in {"waitPut", "waitCheck", "upload", "waitDelete"},
               Call(p, what, point, record)
        PROVE  Quiet(p)
    BY <1>1 DEF Call, Goto, Quiet, Core, TypeOK, tags, stages, history
  <1>2. ASSUME NEW c \in Commits, NEW refs, NEW files, PutManifest(p, c, files, refs)
        PROVE  Quiet(p)
    BY <1>2, <1>1 DEF PutManifest
  <1>3. ASSUME NEW b \in Blobs, PutBlob(p, b) PROVE Quiet(p)
    BY <1>3, <1>1 DEF PutBlob
  <1>4. CASE DeleteRepo(p)
    BY <1>4, <1>1 DEF DeleteRepo
  <1>5. CASE LockRepo(p)
    BY <1>5 DEF LockRepo, Goto, Entered, Waits, Quiet, Core, TypeOK, tags, stages, history
  <1>6. CASE Fail(p)
    BY <1>6, QuietReturn DEF Fail, Quiet, tags, stages, history
  <1>7. CASE NotePending(p)
    BY <1>7, QuietReturn DEF NotePending, Quiet, tags, stages
  <1>8. ASSUME NEW m \in BOOLEAN, Stage(p, m) PROVE Quiet(p)
    BY <1>8 DEF Stage, Goto, Quiet, Core, TypeOK, history
  <1>9. ASSUME NEW m \in BOOLEAN, Unstage(p, m) PROVE Quiet(p)
    <2>1. CASE op[p].kind = "manifest"
      BY <1>9, <2>1, QuietReturn DEF Unstage, Quiet, history
    <2>2. CASE op[p].kind # "manifest"
      BY <1>9, <2>2 DEF Unstage, Goto, Quiet, Core, TypeOK, history
    <2> QED BY <2>1, <2>2
  <1>10. CASE CheckIndex(p)
    <2>1. CASE op[p].blob \in index
      BY <1>10, <2>1, QuietReturn DEF CheckIndex, Quiet, tags, stages
    <2>2. CASE op[p].blob \notin index
      BY <1>10, <2>2 DEF CheckIndex, Goto, Quiet, Core, TypeOK, tags, stages
    <2> QED BY <2>1, <2>2
  <1>11. CASE Upload(p)
    BY <1>11 DEF Upload, Goto, Quiet, Core, TypeOK, tags, stages, history
  <1>12. CASE SaveIndex(p)
    BY <1>12 DEF SaveIndex, Goto, Quiet, Core, TypeOK, stages, history
  <1>13. CASE HasPending(p)
    <2>1. CASE pending = 1 \/ staged # {}
      BY <1>13, <2>1 DEF HasPending, Goto, Quiet, Core, TypeOK, tags, stages
    <2>2. CASE ~(pending = 1 \/ staged # {})
      BY <1>13, <2>2, QuietReturn DEF HasPending, Succeed, Quiet, tags, stages
    <2> QED BY <2>1, <2>2
  <1>14. CASE HasPendingErr(p)
    BY <1>14, QuietReturn DEF HasPendingErr, Succeed, Quiet, tags, stages
  <1>15. CASE ListStaged(p)
    BY <1>15 DEF ListStaged, Goto, Quiet, Core, TypeOK, tags, stages, history
  <1>16. CASE PromoteDone(p)
    BY <1>16, QuietReturn DEF PromoteDone, Succeed, Quiet, tags, stages
  <1>17. ASSUME NEW c \in Commits, SkipStaged(p, c) PROVE Quiet(p)
    BY <1>17 DEF SkipStaged, At, Quiet, Core, TypeOK, tags, stages, history
  <1> QED BY <1>2, <1>3, <1>4, <1>5, <1>6, <1>7, <1>8, <1>9, <1>10, <1>11, <1>12,
             <1>13, <1>14, <1>15, <1>16, <1>17

\* Every step keeps the tag invariant.
LEMMA TagStep == Core /\ TagInv /\ [Next]_vars => TagInv'
  <1> SUFFICES ASSUME Core, TagInv, [Next]_vars PROVE TagInv'
    OBVIOUS
  <1>1. ASSUME NEW p \in Callers, PutOrStage(p) PROVE TagInv'
    <2>1. Present' = Present /\ op' = op
      BY <1>1 DEF PutOrStage, Present, tags
    <2>2. pc' = [pc EXCEPT ![p] = IF op[p].files \subseteq Present THEN "publish" ELSE "stage"]
      BY <1>1 DEF PutOrStage, Goto
    <2>3. CallerOK(p)'
      BY <2>1, <2>2 DEF CallerOK, Core, TypeOK
    <2>4. \A q \in Callers \ {p} : pc'[q] = pc[q] /\ op'[q] = op[q]
      BY <2>1, <2>2 DEF Core, TypeOK
    <2> QED BY <1>1, <2>1, <2>3, <2>4, TagFrame DEF PutOrStage, tags, history
  <1>2. ASSUME NEW p \in Callers, NEW c \in Commits, PromoteStaged(p, c) PROVE TagInv'
    <2>1. Present' = Present
      BY <1>2 DEF PromoteStaged, Present, tags
    <2>2. CallerOK(p)' /\ \A q \in Callers \ {p} : pc'[q] = pc[q] /\ op'[q] = op[q]
      <3>1. CASE stagedFiles[c] \subseteq Present
        <4>1. pc'[p] = "publish" /\ op'[p].files = stagedFiles[c]
          BY <1>2, <3>1 DEF PromoteStaged, Goto, Core, TypeOK, Op
        <4>2. \A q \in Callers \ {p} : pc'[q] = pc[q] /\ op'[q] = op[q]
          BY <1>2, <3>1 DEF PromoteStaged, Goto, Core, TypeOK
        <4> QED BY <2>1, <3>1, <4>1, <4>2 DEF CallerOK
      <3>2. CASE ~(stagedFiles[c] \subseteq Present)
        <4>1. pc'[p] = "promote"
          BY <1>2, <3>2 DEF PromoteStaged, At
        <4>2. \A q \in Callers \ {p} : pc'[q] = pc[q] /\ op'[q] = op[q]
          BY <1>2, <3>2 DEF PromoteStaged, Core, TypeOK
        <4> QED BY <4>1, <4>2 DEF CallerOK
      <3> QED BY <3>1, <3>2
    <2> QED BY <1>2, <2>1, <2>2, TagFrame DEF PromoteStaged, tags, history
  <1>3. ASSUME NEW p \in Callers, Publish(p) PROVE TagInv'
    <2>1. /\ pc' = [pc EXCEPT ![p] = "refs"] /\ op' = op /\ pc[p] = "publish"
          /\ published' = published \cup {op[p].commit}
          /\ publishedFiles' = [publishedFiles EXCEPT ![op[p].commit] = op[p].files]
          /\ refTag' = refTag /\ torn' = torn /\ Present' = Present
      BY <1>3 DEF Publish, Goto, At, Present, history
    <2>2. op[p].files \subseteq Present /\ op[p].commit \in Commits
      BY <2>1 DEF TagInv, CallerOK, Core, OpOK
    <2>3. PublishedServable'
      <3> SUFFICES ASSUME torn' = 0, NEW c \in published'
                   PROVE  publishedFiles'[c] \subseteq Present'
        BY DEF PublishedServable
      <3>1. c \in Commits
        BY <2>1, <2>2 DEF Core, TypeOK
      <3>2. CASE c = op[p].commit
        BY <2>1, <2>2, <3>1, <3>2 DEF Core, TypeOK
      <3>3. CASE c # op[p].commit
        BY <2>1, <3>1, <3>3 DEF Core, TypeOK, TagInv, PublishedServable
      <3> QED BY <3>2, <3>3
    <2>4. RefResolves'
      BY <2>1 DEF TagInv, RefResolves
    <2>5. ASSUME NEW q \in Callers PROVE CallerOK(q)'
      BY <2>1 DEF TagInv, CallerOK, Core, TypeOK
    <2> QED BY <2>3, <2>4, <2>5 DEF TagInv
  <1>4. ASSUME NEW p \in Callers, NEW f \in Refs, TagRef(p, f) PROVE TagInv'
    <2>1. /\ pc' = pc /\ pc[p] = "refs" /\ Present' = Present
          /\ refTag' = [refTag EXCEPT ![f] = op[p].commit]
          /\ published' = published /\ publishedFiles' = publishedFiles /\ torn' = torn
      BY <1>4 DEF TagRef, At, Present
    <2>2. op[p].commit \in published
      BY <2>1 DEF TagInv, CallerOK
    <2>3. /\ op'[p].commit = op[p].commit
          /\ \A q \in Callers \ {p} : op'[q] = op[q]
      BY <1>4 DEF TagRef, Core, TypeOK, Op
    <2>4. PublishedServable'
      BY <2>1 DEF TagInv, PublishedServable
    <2>5. RefResolves'
      BY <2>1, <2>2 DEF TagInv, RefResolves, Core, TypeOK
    <2>6. ASSUME NEW q \in Callers PROVE CallerOK(q)'
      BY <2>1, <2>2, <2>3 DEF TagInv, CallerOK
    <2> QED BY <2>4, <2>5, <2>6 DEF TagInv
  <1>5. ASSUME NEW p \in Callers, ListTags(p) PROVE TagInv'
    <2>1. CASE Tags = {}
      <3>1. Quiet(p)
        BY <1>5, <2>1, QuietReturn DEF ListTags, Quiet, tags, stages
      <3> QED BY <3>1, QuietStep
    <2>2. CASE Tags # {}
      <3>1. /\ pc' = [pc EXCEPT ![p] = "delete"] /\ torn' = 1 /\ published' = published
            /\ op' = [op EXCEPT ![p].tags = Tags] /\ Present' = Present
        BY <1>5, <2>2 DEF ListTags, Goto, Present, tags
      <3>2. PublishedServable' /\ RefResolves'
        BY <3>1 DEF PublishedServable, RefResolves
      <3>3. ASSUME NEW q \in Callers PROVE CallerOK(q)'
        BY <3>1 DEF TagInv, CallerOK, Core, TypeOK
      <3> QED BY <3>2, <3>3 DEF TagInv
    <2> QED BY <2>1, <2>2
  <1>6. ASSUME NEW p \in Callers, DeleteDone(p) PROVE TagInv'
    <2>1. /\ \A q \in Callers \ {p} : pc'[q] = pc[q] /\ op'[q] = op[q]
          /\ pc'[p] = "idle" /\ pc[p] = "delete"
          /\ published' = published /\ refTag' = refTag /\ Present' = Present
          /\ publishedFiles' = publishedFiles
          /\ torn' = IF Tags = {} THEN 0 ELSE torn
      BY <1>6, QuietReturn DEF DeleteDone, At, Present, tags
    <2>2. CallerOK(p)'
      BY <2>1 DEF CallerOK
    <2>3. ASSUME NEW q \in Callers \ {p} PROVE CallerOK(q)'
      <3>1. pc[q] \notin {"publish", "refs", "delete"}
        BY <2>1, Alone
      <3> QED BY <2>1, <3>1 DEF CallerOK
    <2>4. PublishedServable' /\ RefResolves'
      <3>1. CASE Tags = {}
        <4>1. published = {}
          BY <3>1 DEF Tags
        <4>2. \A f \in Refs : refTag[f] = None
          BY <3>1 DEF Tags
        <4> QED BY <2>1, <4>1, <4>2 DEF PublishedServable, RefResolves
      <3>2. CASE Tags # {}
        BY <2>1, <3>2 DEF TagInv, PublishedServable, RefResolves
      <3> QED BY <3>1, <3>2
    <2> QED BY <2>2, <2>3, <2>4 DEF TagInv
  <1>7. ASSUME NEW p \in Callers, NEW tag \in op[p].tags, NEW d \in BOOLEAN,
               DeleteTag(p, tag, d)
        PROVE  TagInv'
    <2>1. pc[p] = "delete" /\ pc' = pc /\ torn' = torn /\ torn = 1
      BY <1>7 DEF DeleteTag, At, TagInv, CallerOK
    <2>2. PublishedServable' /\ RefResolves'
      BY <2>1 DEF PublishedServable, RefResolves
    <2>3. CallerOK(p)'
      BY <2>1 DEF CallerOK
    <2>4. ASSUME NEW q \in Callers \ {p} PROVE CallerOK(q)'
      <3>1. pc[q] \notin {"publish", "refs", "delete"}
        BY <2>1, Alone
      <3> QED BY <2>1, <3>1 DEF CallerOK
    <2> QED BY <2>2, <2>3, <2>4 DEF TagInv
  <1>8. CASE Crash
    <2>1. /\ Present' = Present /\ published' = published /\ refTag' = refTag
          /\ publishedFiles' = publishedFiles /\ torn' = torn
          /\ \A p \in Callers : pc'[p] = "idle"
      BY <1>8 DEF Crash, Present, tags, history
    <2> QED BY <2>1 DEF TagInv, PublishedServable, RefResolves, CallerOK
  <1>9. CASE UNCHANGED vars
    <2>1. /\ Present' = Present /\ published' = published /\ refTag' = refTag
          /\ publishedFiles' = publishedFiles /\ torn' = torn /\ pc' = pc /\ op' = op
      BY <1>9 DEF vars, Present, tags, history
    <2> QED BY <2>1 DEF TagInv, PublishedServable, RefResolves, CallerOK
  <1>10. ASSUME NEW p \in Callers, Quiet(p) PROVE TagInv'
    BY <1>10, QuietStep
  <1> QED BY <1>1, <1>2, <1>3, <1>4, <1>5, <1>6, <1>7, <1>8, <1>9, <1>10, QuietActions
          DEF Next, Step, Faulty

\* The tag invariant holds of an empty registry.
LEMMA InitTags == Init => TagInv
  BY DEF Init, TagInv, PublishedServable, RefResolves, CallerOK

\* putOrStage, publish and promoteStaged: every file of a published commit can
\* be opened, for any callers, failures and crashes.
THEOREM Servable == Spec => []PublishedServable
  <1>1. TagInv => PublishedServable
    BY DEF TagInv
  <1> QED BY <1>1, InitCore, CoreStep, InitTags, TagStep, PTL DEF Spec

\* publish: a ref that resolves leads to a published commit.
THEOREM RefsResolve == Spec => []RefResolves
  <1>1. TagInv => RefResolves
    BY DEF TagInv
  <1> QED BY <1>1, InitCore, CoreStep, InitTags, TagStep, PTL DEF Spec

-----------------------------------------------------------------------------
(* What a step without a failed request does *)

\* A request that fails is counted, and so is every other spending: the count
\* of failures never falls.
LEMMA SpendGrows ==
    ASSUME TypeOK, NEW what \in Limited, Spend(what)
    PROVE  /\ spent'["failure"] = 0 => spent["failure"] = 0
           /\ what = "failure" => spent'["failure"] # 0
  <1>1. spent \in [Limited -> Nat] /\ "failure" \in Limited
    BY DEF TypeOK, Limited
  <1> QED BY <1>1 DEF Spend

\* A faulty step counts a failure.
LEMMA FaultyCounts ==
    ASSUME TypeOK, NEW p \in Callers, Faulty(p)
    PROVE  spent'["failure"] # 0
  <1>1. Spend("failure")
    BY DEF Faulty, Fail, Stage, Unstage, HasPendingErr, SkipStaged, DeleteTag
  <1> QED BY <1>1, SpendGrows DEF Limited

\* The steps a caller takes when nothing fails.
Works(p) ==
    \/ \E c \in Commits, refs \in SUBSET Refs :
          \E files \in Versions[c] : PutManifest(p, c, files, refs)
    \/ \E b \in Blobs : PutBlob(p, b)
    \/ DeleteRepo(p)
    \/ LockRepo(p)
    \/ Step(p)

\* No failure is forgotten.
LEMMA FailuresStay ==
    ASSUME TypeOK, [Next]_vars, spent'["failure"] = 0
    PROVE  spent["failure"] = 0
  <1>1. ASSUME NEW p \in Callers, NEW what \in Limited, NEW point, NEW record,
               Call(p, what, point, record)
        PROVE  spent["failure"] = 0
    BY <1>1, SpendGrows DEF Call
  <1>2. ASSUME NEW p \in Callers, Step(p) PROVE spent' = spent
    BY <1>2 DEF Step, PutOrStage, Stage, NotePending, Publish, TagRef, Unstage, CheckIndex,
           Upload, SaveIndex, HasPending, ListStaged, PromoteDone, PromoteStaged,
           ListTags, DeleteDone, DeleteTag
  <1>3. ASSUME NEW p \in Callers, Works(p) PROVE spent["failure"] = 0
    <2>1. CASE \E c \in Commits, refs \in SUBSET Refs :
                  \E files \in Versions[c] : PutManifest(p, c, files, refs)
      BY <2>1, <1>1 DEF PutManifest, Limited
    <2>2. CASE \E b \in Blobs : PutBlob(p, b)
      BY <2>2, <1>1 DEF PutBlob, Limited
    <2>3. CASE DeleteRepo(p)
      BY <2>3, <1>1 DEF DeleteRepo, Limited
    <2>4. CASE LockRepo(p)
      BY <2>4 DEF LockRepo
    <2>5. CASE Step(p)
      BY <2>5, <1>2
    <2> QED BY <1>3, <2>1, <2>2, <2>3, <2>4, <2>5 DEF Works
  <1>4. CASE Crash
    BY <1>4, SpendGrows DEF Crash, Limited
  <1>5. CASE UNCHANGED vars
    BY <1>5 DEF vars
  <1> QED BY <1>3, <1>4, <1>5, FaultyCounts DEF Next, Works

\* A step without a failure is the work of one caller, a crash or a stutter.
LEMMA WorkOrCrash ==
    ASSUME TypeOK, [Next]_vars, spent'["failure"] = 0
    PROVE  (\E p \in Callers : Works(p)) \/ Crash \/ UNCHANGED vars
  BY FaultyCounts DEF Next, Works

\* Only stage, the end of publish and DeleteRepo touch a staged tag.
LEMMA StagesStill ==
    ASSUME NEW p \in Callers, Works(p)
    PROVE  \/ UNCHANGED stages
           \/ Stage(p, TRUE) \/ Unstage(p, TRUE)
           \/ \E tag \in op[p].tags : DeleteTag(p, tag, TRUE)
  BY DEF Works, PutManifest, PutBlob, DeleteRepo, Call, LockRepo, Step, PutOrStage,
         NotePending, Publish, TagRef, CheckIndex, Upload, SaveIndex, HasPending,
         ListStaged, PromoteDone, PromoteStaged, ListTags, DeleteDone, tags

\* What a step without a failure does to the refs of a commit that stays staged.
LEMMA RefsStep ==
    ASSUME Core, [Next]_vars, spent'["failure"] = 0, NEW c \in staged \cap staged'
    PROVE  stagedRefs[c] \subseteq stagedRefs'[c]
  <1>1. c \in Commits
    BY DEF Core, TypeOK
  <1>2. ASSUME NEW p \in Callers, Stage(p, TRUE) PROVE stagedRefs[c] \subseteq stagedRefs'[c]
    <2>1. stagedRefs' = [stagedRefs EXCEPT ![op[p].commit] = op[p].refs \cup @]
      BY <1>2 DEF Stage
    <2> QED BY <1>1, <2>1 DEF Core, TypeOK
  <1>3. ASSUME NEW p \in Callers, Unstage(p, TRUE) PROVE stagedRefs[c] \subseteq stagedRefs'[c]
    <2>1. /\ stagedRefs' = [stagedRefs EXCEPT ![op[p].commit] = {}]
          /\ staged' = staged \ {op[p].commit}
      BY <1>3 DEF Unstage
    <2> QED BY <1>1, <2>1 DEF Core, TypeOK
  <1>4. ASSUME NEW p \in Callers, NEW tag, DeleteTag(p, tag, TRUE)
        PROVE  stagedRefs[c] \subseteq stagedRefs'[c]
    BY <1>1, <1>4 DEF DeleteTag, Removed, Core, TypeOK
  <1>5. CASE UNCHANGED stages
    BY <1>5 DEF stages
  <1>6. Crash \/ UNCHANGED vars => UNCHANGED stages
    BY DEF Crash, vars, tags
  <1> QED BY <1>2, <1>3, <1>4, <1>5, <1>6, WorkOrCrash, StagesStill DEF Core

\* "Merge refs with any recorded by a previous staging": a commit that stays
\* staged loses no ref it is to get on promotion, unless a request failed.
THEOREM RefsMerged == Spec => RefsKept
  <1>1. Core /\ [Next]_vars =>
           [spent'["failure"] = 0 =>
              \A c \in staged \cap staged' : stagedRefs[c] \subseteq stagedRefs'[c]]_vars
    BY RefsStep
  <1> QED BY <1>1, InitCore, CoreStep, PTL DEF Spec, RefsKept

-----------------------------------------------------------------------------
(* Promotion when the last blob lands *)

\* A caller whose blob has landed and who has still to return.
Promoting(p) ==
    \/ pc[p] \in {"pend", "waitPromote", "list", "promote"}
    \/ pc[p] \in {"publish", "refs"} /\ op[p].kind = "blob"

\* That caller will still look at the staged commit c, or is promoting it.
Visits(p, c) ==
    \/ pc[p] \in {"pend", "waitPromote", "list"}
    \/ pc[p] \in {"promote", "publish", "refs"} /\ op[p].kind = "blob" /\ c \in op[p].rest
    \/ pc[p] \in {"publish", "refs"} /\ op[p].kind = "blob" /\ c = op[p].commit

\* A caller about to stage misses a file; one that promotes has landed its blob.
LandedOK(p) ==
    /\ pc[p] = "stage" => ~(op[p].files \subseteq Present)
    /\ Promoting(p) => op[p].blob \in Present

\* tar-layers, whose callers hold the repo mutex from the index on: a staged
\* commit whose files the index has is visited by somebody.
TarBody ==
    /\ acked \subseteq index /\ late = {}
    /\ \A c \in staged : stagedFiles[c] # {}
    /\ \A c \in staged : stagedFiles[c] \subseteq index => \E p \in Callers : Visits(p, c)
    /\ \A p \in Callers : LandedOK(p) /\ pc[p] # "waitPromote"

TarInv == spent["failure"] = 0 => TarBody

\* modelpack, whose callers upload outside the mutex: one that promotes has
\* landed its blob, and visits every staged commit which that blob would leave
\* with all its files acknowledged, unless the commit was staged late.
PackVisits(p) ==
    Promoting(p) =>
        /\ op[p].blob \in blobs
        /\ \A c \in staged \ late :
              stagedFiles[c] \subseteq acked \cup {op[p].blob} => Visits(p, c)

\* So no acknowledged blob leaves a commit behind, even when a crash cuts a
\* promotion short.
PackBody ==
    /\ acked \subseteq blobs
    /\ \A c \in staged \ late : ~(stagedFiles[c] \subseteq acked)
    /\ \A p \in Callers : PackVisits(p)

PackInv == spent["failure"] = 0 => PackBody

\* A step of one caller that neither changes what is stored nor drops a visit.
Calm(p) ==
    /\ blobs' = blobs /\ index' = index /\ acked' = acked
    /\ staged' = staged /\ stagedFiles' = stagedFiles /\ late' = late
    /\ \A q \in Callers \ {p} : pc'[q] = pc[q] /\ op'[q] = op[q]
    /\ LandedOK(p)'
    /\ Promoting(p)' => Promoting(p) /\ op'[p].blob = op[p].blob
    /\ \A c \in staged :
          stagedFiles[c] \subseteq Present /\ Visits(p, c) => Visits(p, c)'
    /\ pc'[p] = "waitPromote" => Format # "tar-layers"

\* A returning call neither promotes nor is about to stage.
LEMMA ReturnLanded ==
    ASSUME Core, NEW p \in Callers, Return(p)
    PROVE  LandedOK(p)' /\ ~Promoting(p)'
  BY QuietReturn DEF LandedOK, Promoting

\* A call that begins, and lockRepo, are calm.
LEMMA CalmCall ==
    ASSUME Core, NEW p \in Callers, LandedOK(p),
           \/ \E c \in Commits, refs \in SUBSET Refs :
                 \E files \in Versions[c] : PutManifest(p, c, files, refs)
           \/ \E b \in Blobs : PutBlob(p, b)
           \/ DeleteRepo(p) \/ LockRepo(p)
    PROVE  Calm(p)
  <1>1. ASSUME NEW what, NEW record,
               NEW point \in {"waitPut", "waitCheck", "upload", "waitDelete"},
               Call(p, what, point, record)
        PROVE  Calm(p)
    <2>1. /\ pc[p] = "idle" /\ pc'[p] = point
          /\ \A q \in Callers \ {p} : pc'[q] = pc[q] /\ op'[q] = op[q]
      BY <1>1 DEF Call, Goto, At, Core, TypeOK
    <2>2. /\ blobs' = blobs /\ index' = index /\ acked' = acked
          /\ staged' = staged /\ stagedFiles' = stagedFiles /\ late' = late
      BY <1>1 DEF Call, tags, stages, history
    <2>3. ~Promoting(p)' /\ LandedOK(p)'
      BY <2>1 DEF Promoting, LandedOK
    <2>4. \A c \in staged : ~Visits(p, c)
      BY <2>1 DEF Visits
    <2> QED BY <2>1, <2>2, <2>3, <2>4 DEF Calm
  <1>2. ASSUME NEW c \in Commits, NEW refs, NEW files, PutManifest(p, c, files, refs)
        PROVE  Calm(p)
    BY <1>2, <1>1 DEF PutManifest
  <1>3. ASSUME NEW b \in Blobs, PutBlob(p, b) PROVE Calm(p)
    BY <1>3, <1>1 DEF PutBlob
  <1>4. CASE DeleteRepo(p)
    BY <1>4, <1>1 DEF DeleteRepo
  <1>5. CASE LockRepo(p)
    <2>1. /\ pc[p] \in Waits /\ pc'[p] = Entered(pc[p]) /\ op' = op
          /\ \A q \in Callers \ {p} : pc'[q] = pc[q]
          /\ blobs' = blobs /\ index' = index /\ acked' = acked
          /\ staged' = staged /\ stagedFiles' = stagedFiles /\ late' = late
      BY <1>5 DEF LockRepo, Goto, Core, TypeOK, tags, stages, history
    <2>2. CASE pc[p] = "waitPromote"
      <3>1. pc'[p] = "list"
        BY <2>1, <2>2 DEF Entered
      <3> QED BY <2>1, <2>2, <3>1 DEF Calm, LandedOK, Promoting, Visits, Present
    <2>3. CASE pc[p] # "waitPromote"
      <3>1. pc'[p] \in {"layers", "check", "index", "tags"}
        BY <2>1, <2>3 DEF Entered, Waits
      <3>2. ~Promoting(p)' /\ LandedOK(p)'
        BY <3>1 DEF Promoting, LandedOK
      <3>3. \A c \in staged : ~Visits(p, c)
        BY <2>1, <2>3 DEF Visits, Waits
      <3> QED BY <2>1, <3>1, <3>2, <3>3 DEF Calm
    <2> QED BY <2>2, <2>3
  <1> QED BY <1>2, <1>3, <1>4, <1>5

\* putOrStage and publish, up to the staged tag, are calm.
LEMMA CalmManifest ==
    ASSUME Core, NEW p \in Callers, LandedOK(p),
           \/ PutOrStage(p) \/ NotePending(p) \/ Publish(p)
           \/ \E f \in Refs : TagRef(p, f)
    PROVE  Calm(p)
  <1>1. CASE PutOrStage(p)
    <2>1. /\ pc[p] = "layers" /\ op' = op /\ op[p].kind = "manifest"
          /\ pc' = [pc EXCEPT ![p] = IF op[p].files \subseteq Present
                                     THEN "publish" ELSE "stage"]
          /\ blobs' = blobs /\ index' = index /\ acked' = acked
          /\ staged' = staged /\ stagedFiles' = stagedFiles /\ late' = late /\ Present' = Present
      BY <1>1 DEF PutOrStage, Goto, At, Core, OpOK, Present, tags, stages, history
    <2>2. \A q \in Callers \ {p} : pc'[q] = pc[q] /\ op'[q] = op[q]
      BY <2>1 DEF Core, TypeOK
    <2>3. /\ pc'[p] \in {"publish", "stage"}
          /\ pc'[p] = "stage" => ~(op[p].files \subseteq Present)
      BY <2>1 DEF Core, TypeOK
    <2>4. ~Promoting(p)' /\ LandedOK(p)'
      BY <2>1, <2>3 DEF Promoting, LandedOK
    <2>5. \A c \in staged : ~Visits(p, c)
      BY <2>1 DEF Visits
    <2> QED BY <2>1, <2>2, <2>3, <2>4, <2>5 DEF Calm
  <1>2. CASE NotePending(p)
    <2>1. Return(p) /\ pc[p] = "note"
      BY <1>2 DEF NotePending, At
    <2>2. /\ blobs' = blobs /\ index' = index /\ acked' = acked
          /\ staged' = staged /\ stagedFiles' = stagedFiles /\ late' = late
      BY <1>2 DEF NotePending, tags, stages
    <2>3. \A c \in staged : ~Visits(p, c)
      BY <2>1 DEF Visits
    <2> QED BY <2>1, <2>2, <2>3, QuietReturn, ReturnLanded DEF Calm
  <1>3. CASE Publish(p)
    <2>1. /\ pc[p] = "publish" /\ op' = op /\ pc' = [pc EXCEPT ![p] = "refs"]
          /\ blobs' = blobs /\ index' = index /\ acked' = acked
          /\ staged' = staged /\ stagedFiles' = stagedFiles /\ late' = late /\ Present' = Present
      BY <1>3 DEF Publish, Goto, At, Present, stages, history
    <2>2. pc'[p] = "refs" /\ \A q \in Callers \ {p} : pc'[q] = pc[q] /\ op'[q] = op[q]
      BY <2>1 DEF Core, TypeOK
    <2> QED BY <2>1, <2>2 DEF Calm, LandedOK, Promoting, Visits
  <1>4. ASSUME NEW f \in Refs, TagRef(p, f) PROVE Calm(p)
    <2>1. /\ pc[p] = "refs" /\ pc' = pc /\ op' = [op EXCEPT ![p].refs = @ \ {f}]
          /\ blobs' = blobs /\ index' = index /\ acked' = acked
          /\ staged' = staged /\ stagedFiles' = stagedFiles /\ late' = late /\ Present' = Present
      BY <1>4 DEF TagRef, At, Present, stages
    <2>2. /\ op'[p].kind = op[p].kind /\ op'[p].rest = op[p].rest
          /\ op'[p].commit = op[p].commit /\ op'[p].blob = op[p].blob
          /\ \A q \in Callers \ {p} : pc'[q] = pc[q] /\ op'[q] = op[q]
      BY <2>1 DEF Core, TypeOK, Op
    <2> QED BY <2>1, <2>2 DEF Calm, LandedOK, Promoting, Visits
  <1> QED BY <1>1, <1>2, <1>3, <1>4

\* hasPending that finds something, the visits of promoteStaged, and
\* DeleteRepo outside its deletions are calm.
LEMMA CalmBlob ==
    ASSUME Core, NEW p \in Callers, LandedOK(p),
           \/ HasPending(p) /\ (pending = 1 \/ staged # {})
           \/ ListStaged(p)
           \/ \E c \in Commits : PromoteStaged(p, c)
           \/ ListTags(p) \/ DeleteDone(p)
    PROVE  Calm(p)
  <1>1. CASE HasPending(p) /\ (pending = 1 \/ staged # {})
    <2>1. /\ pc[p] = "pend" /\ op' = op
          /\ pc' = [pc EXCEPT ![p] = IF Format = "tar-layers" THEN "list" ELSE "waitPromote"]
          /\ blobs' = blobs /\ index' = index /\ acked' = acked
          /\ staged' = staged /\ stagedFiles' = stagedFiles /\ late' = late /\ Present' = Present
      BY <1>1 DEF HasPending, Goto, At, Present, tags, stages
    <2>2. /\ pc'[p] \in {"list", "waitPromote"}
          /\ pc'[p] = "waitPromote" => Format # "tar-layers"
          /\ \A q \in Callers \ {p} : pc'[q] = pc[q] /\ op'[q] = op[q]
      BY <2>1 DEF Core, TypeOK
    <2> QED BY <2>1, <2>2 DEF Calm, LandedOK, Promoting, Visits
  <1>2. CASE ListStaged(p)
    <2>1. /\ pc[p] = "list" /\ pc' = [pc EXCEPT ![p] = "promote"] /\ op[p].kind = "blob"
          /\ op' = [op EXCEPT ![p].rest = staged, ![p].left = {}]
          /\ blobs' = blobs /\ index' = index /\ acked' = acked
          /\ staged' = staged /\ stagedFiles' = stagedFiles /\ late' = late /\ Present' = Present
      BY <1>2 DEF ListStaged, Goto, At, Core, OpOK, Present, tags, stages, history
    <2>2. /\ op'[p].kind = op[p].kind /\ op'[p].rest = staged /\ op'[p].blob = op[p].blob
          /\ pc'[p] = "promote"
          /\ \A q \in Callers \ {p} : pc'[q] = pc[q] /\ op'[q] = op[q]
      BY <2>1 DEF Core, TypeOK, Op
    <2>3. \A c \in staged : Visits(p, c)'
      BY <2>1, <2>2 DEF Visits
    <2>4. LandedOK(p)' /\ Promoting(p)
      BY <2>1, <2>2 DEF LandedOK, Promoting
    <2> QED BY <2>1, <2>2, <2>3, <2>4 DEF Calm
  <1>3. ASSUME NEW d \in Commits, PromoteStaged(p, d) PROVE Calm(p)
    <2>1. /\ pc[p] = "promote" /\ op[p].kind = "blob"
          /\ blobs' = blobs /\ index' = index /\ acked' = acked
          /\ staged' = staged /\ stagedFiles' = stagedFiles /\ late' = late /\ Present' = Present
      BY <1>3 DEF PromoteStaged, At, Core, OpOK, Present, tags, stages, history
    <2>2. CASE stagedFiles[d] \subseteq Present
      <3>1. /\ pc' = [pc EXCEPT ![p] = "publish"]
            /\ op' = [op EXCEPT ![p].rest = @ \ {d}, ![p].commit = d,
                                ![p].files = stagedFiles[d], ![p].refs = stagedRefs[d]]
        BY <1>3, <2>2 DEF PromoteStaged, Goto
      <3>2. /\ op'[p].kind = op[p].kind /\ op'[p].rest = op[p].rest \ {d}
            /\ op'[p].blob = op[p].blob /\ op'[p].commit = d /\ pc'[p] = "publish"
            /\ \A q \in Callers \ {p} : pc'[q] = pc[q] /\ op'[q] = op[q]
        BY <3>1 DEF Core, TypeOK, Op
      <3> QED BY <2>1, <3>2 DEF Calm, LandedOK, Promoting, Visits
    <2>3. CASE ~(stagedFiles[d] \subseteq Present)
      <3>1. pc' = pc /\ op' = [op EXCEPT ![p].rest = @ \ {d}, ![p].left = @ \cup {d}]
        BY <1>3, <2>3 DEF PromoteStaged
      <3>2. /\ op'[p].kind = op[p].kind /\ op'[p].rest = op[p].rest \ {d}
            /\ op'[p].blob = op[p].blob /\ op'[p].commit = op[p].commit
            /\ \A q \in Callers \ {p} : pc'[q] = pc[q] /\ op'[q] = op[q]
        BY <3>1 DEF Core, TypeOK, Op
      <3>3. ASSUME NEW c \in staged, stagedFiles[c] \subseteq Present, Visits(p, c)
            PROVE  Visits(p, c)'
        BY <2>1, <2>3, <3>1, <3>2, <3>3 DEF Visits
      <3>4. Promoting(p) /\ op[p].blob \in Present
        BY <2>1 DEF LandedOK, Promoting
      <3>5. pc'[p] = "promote"
        BY <2>1, <3>1
      <3>6. op'[p].blob \in Present'
        BY <2>1, <3>2, <3>4
      <3>7. LandedOK(p)'
        BY <3>5, <3>6 DEF LandedOK
      <3> QED BY <2>1, <3>2, <3>3, <3>4, <3>5, <3>7 DEF Calm
    <2> QED BY <2>2, <2>3
  <1>4. CASE ListTags(p) \/ DeleteDone(p)
    <2>1. /\ pc[p] \in {"tags", "delete"}
          /\ blobs' = blobs /\ index' = index /\ acked' = acked
          /\ staged' = staged /\ stagedFiles' = stagedFiles /\ late' = late
      BY <1>4 DEF ListTags, DeleteDone, At, tags, stages
    <2>2. \A c \in staged : ~Visits(p, c)
      BY <2>1 DEF Visits
    <2>3. CASE Return(p)
      BY <2>1, <2>2, <2>3, QuietReturn, ReturnLanded DEF Calm
    <2>4. CASE ~Return(p)
      <3>1. pc' = [pc EXCEPT ![p] = "delete"] /\ op' = [op EXCEPT ![p].tags = Tags]
        BY <1>4, <2>4 DEF ListTags, DeleteDone, Goto
      <3>2. pc'[p] = "delete" /\ \A q \in Callers \ {p} : pc'[q] = pc[q] /\ op'[q] = op[q]
        BY <3>1 DEF Core, TypeOK
      <3> QED BY <2>1, <2>2, <3>2 DEF Calm, LandedOK, Promoting
    <2> QED BY <2>3, <2>4
  <1> QED BY <1>1, <1>2, <1>3, <1>4

\* tar-layers: only one caller stages, promotes, extends the index or deletes.
LEMMA TarAlone ==
    ASSUME Core, Format = "tar-layers", NEW p \in Callers, NEW q \in Callers \ {p},
           pc[p] \in {"stage", "refs", "pend", "index", "promote", "delete"}
    PROVE  pc[q] \notin Critical \cup {"pend"}
  <1>1. Holds(p)
    BY DEF Holds, Critical
  <1>2. ~Holds(q)
    BY <1>1 DEF Core, MutexOK
  <1> QED BY <1>2 DEF Holds

\* tar-layers: a calm step keeps the invariant.
LEMMA TarCalm ==
    ASSUME TarBody, Format = "tar-layers", NEW p \in Callers, Calm(p)
    PROVE  TarBody'
  <1>1. Present = index /\ Present' = index'
    BY DEF Present
  <1>2. acked' \subseteq index' /\ late' = {} /\ \A c \in staged' : stagedFiles'[c] # {}
    BY DEF TarBody, Calm
  <1>3. ASSUME NEW c \in staged', stagedFiles'[c] \subseteq index'
        PROVE  \E q \in Callers : Visits(q, c)'
    <2>1. c \in staged /\ stagedFiles[c] \subseteq Present
      BY <1>1, <1>3 DEF Calm
    <2>2. PICK q \in Callers : Visits(q, c)
      BY <1>1, <2>1 DEF TarBody
    <2>3. CASE q = p
      BY <2>1, <2>2, <2>3 DEF Calm
    <2>4. CASE q # p
      <3>1. pc'[q] = pc[q] /\ op'[q] = op[q]
        BY <2>4 DEF Calm
      <3> QED BY <2>2, <3>1 DEF Visits
    <2> QED BY <2>3, <2>4
  <1>4. ASSUME NEW q \in Callers PROVE LandedOK(q)' /\ pc'[q] # "waitPromote"
    <2>1. CASE q = p
      BY <2>1 DEF Calm
    <2>2. CASE q # p
      <3>1. pc'[q] = pc[q] /\ op'[q] = op[q] /\ Present' = Present
        BY <1>1, <2>2 DEF Calm
      <3> QED BY <3>1 DEF TarBody, LandedOK, Promoting
    <2> QED BY <2>1, <2>2
  <1> QED BY <1>2, <1>3, <1>4 DEF TarBody

\* tar-layers: a caller that visits nothing any more leaves promoteStaged.
LEMMA TarLeave ==
    ASSUME TarBody, Format = "tar-layers", NEW p \in Callers,
           index' = index, acked' \subseteq acked \cup index,
           staged' \subseteq staged, late' \subseteq late,
           \A c \in staged' : stagedFiles'[c] = stagedFiles[c],
           \A q \in Callers \ {p} : pc'[q] = pc[q] /\ op'[q] = op[q],
           LandedOK(p)', pc'[p] # "waitPromote",
           \A c \in staged' : Visits(p, c) => Visits(p, c)'
    PROVE  TarBody'
  <1>1. Present = index /\ Present' = index'
    BY DEF Present
  <1>2. acked' \subseteq index' /\ late' = {} /\ \A c \in staged' : stagedFiles'[c] # {}
    BY DEF TarBody
  <1>3. ASSUME NEW c \in staged', stagedFiles'[c] \subseteq index'
        PROVE  \E q \in Callers : Visits(q, c)'
    <2>1. c \in staged /\ stagedFiles[c] \subseteq index
      BY <1>3
    <2>2. PICK q \in Callers : Visits(q, c)
      BY <2>1 DEF TarBody
    <2>3. CASE q = p
      BY <2>2, <2>3
    <2>4. CASE q # p
      <3>1. pc'[q] = pc[q] /\ op'[q] = op[q]
        BY <2>4
      <3> QED BY <2>2, <3>1 DEF Visits
    <2> QED BY <2>3, <2>4
  <1>4. ASSUME NEW q \in Callers PROVE LandedOK(q)' /\ pc'[q] # "waitPromote"
    <2>1. CASE q = p
      BY <2>1
    <2>2. CASE q # p
      <3>1. pc'[q] = pc[q] /\ op'[q] = op[q] /\ Present' = Present
        BY <1>1, <2>2
      <3> QED BY <3>1 DEF TarBody, LandedOK, Promoting
    <2> QED BY <2>1, <2>2
  <1> QED BY <1>2, <1>3, <1>4 DEF TarBody

\* tar-layers: stage, under the mutex, records a commit that misses a file.
LEMMA TarStage ==
    ASSUME Core, TarBody, Format = "tar-layers", NEW p \in Callers, Stage(p, TRUE)
    PROVE  TarBody'
  <1> DEFINE d == op[p].commit
  <1>1. Present = index /\ Present' = index'
    BY DEF Present
  <1>2. /\ pc[p] = "stage" /\ pc' = [pc EXCEPT ![p] = "note"] /\ op' = op
        /\ staged' = staged \cup {d} /\ d \in Commits
        /\ stagedFiles' = [stagedFiles EXCEPT ![d] = op[p].files]
        /\ index' = index /\ acked' = acked
        /\ late' = IF op[p].files \subseteq Present THEN late \cup {d} ELSE late \ {d}
    BY DEF Stage, StageLate, Goto, At, Core, OpOK, history
  <1>3. ~(op[p].files \subseteq index)
    BY <1>1, <1>2 DEF TarBody, LandedOK
  <1>4. stagedFiles'[d] = op[p].files
    BY <1>2 DEF Core, TypeOK
  <1>5. \A c \in staged' \ {d} : c \in staged /\ stagedFiles'[c] = stagedFiles[c]
    BY <1>2 DEF Core, TypeOK
  <1>6. pc'[p] = "note" /\ \A q \in Callers \ {p} : pc'[q] = pc[q] /\ op'[q] = op[q]
    BY <1>2 DEF Core, TypeOK
  <1> HIDE DEF d
  <1>7. acked' \subseteq index' /\ late' = {} /\ \A c \in staged' : stagedFiles'[c] # {}
    BY <1>1, <1>2, <1>3, <1>4, <1>5 DEF TarBody
  <1>8. ASSUME NEW c \in staged', stagedFiles'[c] \subseteq index'
        PROVE  \E q \in Callers : Visits(q, c)'
    <2>1. c \in staged /\ stagedFiles[c] \subseteq index
      BY <1>2, <1>3, <1>4, <1>5, <1>8
    <2>2. PICK q \in Callers : Visits(q, c)
      BY <2>1 DEF TarBody
    <2>3. q # p
      BY <1>2, <2>2 DEF Visits
    <2>4. pc'[q] = pc[q] /\ op'[q] = op[q]
      BY <1>6, <2>3
    <2> QED BY <2>2, <2>4 DEF Visits
  <1>9. ASSUME NEW q \in Callers PROVE LandedOK(q)' /\ pc'[q] # "waitPromote"
    <2>1. CASE q = p
      BY <1>6, <2>1 DEF LandedOK, Promoting
    <2>2. CASE q # p
      <3>1. pc'[q] = pc[q] /\ op'[q] = op[q] /\ Present' = Present
        BY <1>1, <1>2, <1>6, <2>2
      <3> QED BY <3>1 DEF TarBody, LandedOK, Promoting
    <2> QED BY <2>1, <2>2
  <1> QED BY <1>7, <1>8, <1>9 DEF TarBody

\* tar-layers: whoever extends the index goes on to visit every staged commit.
LEMMA TarIndex ==
    ASSUME Core, TarBody, Format = "tar-layers", NEW p \in Callers, SaveIndex(p)
    PROVE  TarBody'
  <1>1. Present = index /\ Present' = index'
    BY DEF Present
  <1>2. /\ pc[p] = "index" /\ pc' = [pc EXCEPT ![p] = "pend"] /\ op' = op
        /\ staged' = staged /\ stagedFiles' = stagedFiles /\ late' = late
        /\ index' = index \cup {op[p].blob} /\ acked' = acked
    BY DEF SaveIndex, Goto, At, stages, history
  <1>3. pc'[p] = "pend" /\ \A q \in Callers \ {p} : pc'[q] = pc[q]
    BY <1>2 DEF Core, TypeOK
  <1>4. acked' \subseteq index' /\ late' = {} /\ \A c \in staged' : stagedFiles'[c] # {}
    BY <1>2 DEF TarBody
  <1>5. \A c \in staged' : Visits(p, c)'
    BY <1>3 DEF Visits
  <1>6. ASSUME NEW q \in Callers PROVE LandedOK(q)' /\ pc'[q] # "waitPromote"
    <2>1. CASE q = p
      BY <1>1, <1>2, <1>3, <2>1 DEF LandedOK
    <2>2. CASE q # p
      <3>1. pc'[q] = pc[q] /\ pc[q] \notin Critical \cup {"pend"}
        BY <1>2, <1>3, <2>2, TarAlone
      <3>2. pc'[q] # "waitPromote"
        BY <3>1 DEF TarBody
      <3>3. pc'[q] # "stage" /\ ~Promoting(q)'
        BY <3>1, <3>2 DEF Promoting, Critical
      <3> QED BY <3>2, <3>3 DEF LandedOK
    <2> QED BY <2>1, <2>2
  <1> QED BY <1>4, <1>5, <1>6 DEF TarBody

\* tar-layers: DeleteRepo, alone under the mutex, may remove the index, and
\* with it every acknowledged blob; it leaves no staged commit unvisited.
LEMMA TarDelete ==
    ASSUME Core, TarBody, Format = "tar-layers", NEW p \in Callers, NEW tag,
           DeleteTag(p, tag, TRUE)
    PROVE  TarBody'
  <1>1. Present = index /\ Present' = index'
    BY DEF Present
  <1>2. pc[p] = "delete" /\ pc' = pc /\ Removed(tag)
    BY DEF DeleteTag, At
  <1>3. op' = [op EXCEPT ![p].tags = @ \ {tag}]
    BY DEF DeleteTag
  <1>4. \A q \in Callers \ {p} : op'[q] = op[q]
    BY <1>3 DEF Core, TypeOK
  <1>5. /\ staged' \subseteq staged /\ late' \subseteq late
        /\ \A c \in staged' : stagedFiles'[c] = stagedFiles[c]
    BY <1>2 DEF Removed, Core, TypeOK
  <1>6. (index' = index /\ acked' = acked) \/ (index' = {} /\ acked' = {})
    BY <1>2 DEF Removed
  <1>7. acked' \subseteq index' /\ late' = {} /\ \A c \in staged' : stagedFiles'[c] # {}
    BY <1>5, <1>6 DEF TarBody
  <1>8. ASSUME NEW c \in staged', stagedFiles'[c] \subseteq index'
        PROVE  \E q \in Callers : Visits(q, c)'
    <2>1. c \in staged /\ stagedFiles[c] \subseteq index
      BY <1>5, <1>6, <1>8
    <2>2. PICK q \in Callers : Visits(q, c)
      BY <2>1 DEF TarBody
    <2>3. q # p
      BY <1>2, <2>2 DEF Visits
    <2>4. pc'[q] = pc[q] /\ op'[q] = op[q]
      BY <1>2, <1>4, <2>3
    <2> QED BY <2>2, <2>4 DEF Visits
  <1>9. ASSUME NEW q \in Callers PROVE LandedOK(q)' /\ pc'[q] # "waitPromote"
    <2>1. pc'[q] = pc[q] /\ pc[q] # "waitPromote"
      BY <1>2 DEF TarBody
    <2>2. pc'[q] # "stage" /\ ~Promoting(q)'
      <3>1. CASE q = p
        BY <1>2, <3>1 DEF Promoting
      <3>2. CASE q # p
        <4>1. pc[q] \notin Critical \cup {"pend"}
          BY <1>2, <3>2, TarAlone
        <4> QED BY <2>1, <4>1 DEF Promoting, Critical
      <3> QED BY <3>1, <3>2
    <2> QED BY <2>1, <2>2 DEF LandedOK
  <1> QED BY <1>7, <1>8, <1>9 DEF TarBody

\* tar-layers: a caller that returns, or uploads, leaves nothing unvisited.
LEMMA TarReturn ==
    ASSUME Core, TarBody, Format = "tar-layers", NEW p \in Callers,
           \/ Unstage(p, TRUE) \/ CheckIndex(p) \/ Upload(p) \/ PromoteDone(p)
           \/ HasPending(p) /\ ~(pending = 1 \/ staged # {})
    PROVE  TarBody'
  <1>1. Present = index /\ Present' = index'
    BY DEF Present
  <1>2. CASE Unstage(p, TRUE)
    <2> DEFINE d == op[p].commit
    <2>1. /\ pc[p] = "refs" /\ d \in Commits /\ index' = index /\ acked' = acked
          /\ staged' = staged \ {d} /\ stagedFiles' = [stagedFiles EXCEPT ![d] = {}]
          /\ late' = late \ {d}
      BY <1>2 DEF Unstage, At, Core, OpOK, history
    <2>2. \A c \in staged' : stagedFiles'[c] = stagedFiles[c]
      BY <2>1 DEF Core, TypeOK
    <2>3. CASE op[p].kind = "manifest"
      <3>1. Return(p)
        BY <1>2, <2>3 DEF Unstage
      <3>2. /\ LandedOK(p)' /\ pc'[p] = "idle"
            /\ \A q \in Callers \ {p} : pc'[q] = pc[q] /\ op'[q] = op[q]
        BY <3>1, QuietReturn, ReturnLanded
      <3>3. \A c \in staged' : ~Visits(p, c)
        BY <2>1, <2>3 DEF Visits
      <3> QED BY <2>1, <2>2, <3>2, <3>3, TarLeave
    <2>4. CASE op[p].kind # "manifest"
      <3>1. op' = op /\ pc' = [pc EXCEPT ![p] = "promote"]
        BY <1>2, <2>4 DEF Unstage, Goto
      <3>2. pc'[p] = "promote" /\ \A q \in Callers \ {p} : pc'[q] = pc[q] /\ op'[q] = op[q]
        BY <3>1 DEF Core, TypeOK
      <3>3. op[p].kind = "blob"
        BY <2>1, <2>4 DEF Core, OpOK
      <3>4. op'[p].blob \in Present'
        BY <1>1, <2>1, <3>1, <3>3 DEF TarBody, LandedOK, Promoting
      <3>5. LandedOK(p)'
        BY <3>2, <3>4 DEF LandedOK
      <3>6. \A c \in staged' : Visits(p, c) => Visits(p, c)'
        BY <2>1, <3>1, <3>2, <3>3 DEF Visits
      <3> QED BY <2>1, <2>2, <3>2, <3>5, <3>6, TarLeave
    <2> QED BY <2>3, <2>4
  <1>3. CASE CheckIndex(p)
    <2>1. /\ pc[p] = "check" /\ index' = index /\ acked' \subseteq acked \cup index
          /\ staged' = staged /\ stagedFiles' = stagedFiles /\ late' = late
      BY <1>3 DEF CheckIndex, At, tags, stages
    <2>2. \A c \in staged' : ~Visits(p, c)
      BY <2>1 DEF Visits
    <2>3. /\ LandedOK(p)' /\ pc'[p] # "waitPromote"
          /\ \A q \in Callers \ {p} : pc'[q] = pc[q] /\ op'[q] = op[q]
      <3>1. CASE op[p].blob \in index
        <4>1. Return(p)
          BY <1>3, <3>1 DEF CheckIndex
        <4> QED BY <4>1, QuietReturn, ReturnLanded
      <3>2. CASE op[p].blob \notin index
        <4>1. pc' = [pc EXCEPT ![p] = "upload"] /\ op' = op
          BY <1>3, <3>2 DEF CheckIndex, Goto
        <4>2. pc'[p] = "upload" /\ \A q \in Callers \ {p} : pc'[q] = pc[q] /\ op'[q] = op[q]
          BY <4>1 DEF Core, TypeOK
        <4> QED BY <4>2 DEF LandedOK, Promoting
      <3> QED BY <3>1, <3>2
    <2> QED BY <2>1, <2>2, <2>3, TarLeave
  <1>4. CASE Upload(p)
    <2>1. /\ pc[p] = "upload" /\ index' = index /\ acked' = acked
          /\ staged' = staged /\ stagedFiles' = stagedFiles /\ late' = late
          /\ pc' = [pc EXCEPT ![p] = "waitIndex"] /\ op' = op
      BY <1>4 DEF Upload, Goto, At, tags, stages, history
    <2>2. \A c \in staged' : ~Visits(p, c)
      BY <2>1 DEF Visits
    <2>3. pc'[p] = "waitIndex" /\ \A q \in Callers \ {p} : pc'[q] = pc[q] /\ op'[q] = op[q]
      BY <2>1 DEF Core, TypeOK
    <2>4. LandedOK(p)'
      BY <2>3 DEF LandedOK, Promoting
    <2> QED BY <2>1, <2>2, <2>3, <2>4, TarLeave
  <1>5. CASE PromoteDone(p) \/ (HasPending(p) /\ ~(pending = 1 \/ staged # {}))
    <2>1. /\ Return(p) /\ pc[p] \in {"promote", "pend"}
          /\ acked' = acked \cup {op[p].blob} /\ index' = index
          /\ staged' = staged /\ stagedFiles' = stagedFiles /\ late' = late
          /\ pc[p] = "promote" => op[p].rest = {}
          /\ pc[p] = "pend" => staged = {}
      BY <1>5 DEF PromoteDone, HasPending, Succeed, At, tags, stages
    <2>2. op[p].blob \in index
      BY <1>1, <2>1 DEF TarBody, LandedOK, Promoting
    <2>3. \A c \in staged' : ~Visits(p, c)
      BY <2>1 DEF Visits
    <2>4. /\ LandedOK(p)' /\ pc'[p] = "idle"
          /\ \A q \in Callers \ {p} : pc'[q] = pc[q] /\ op'[q] = op[q]
      BY <2>1, QuietReturn, ReturnLanded
    <2> QED BY <2>1, <2>2, <2>3, <2>4, TarLeave
  <1> QED BY <1>2, <1>3, <1>4, <1>5

\* tar-layers: no step without a failed request or a crash breaks the invariant.
LEMMA TarStep ==
    ASSUME Format = "tar-layers", Limit["crash"] = 0
    PROVE  Core /\ TarInv /\ [Next]_vars => TarInv'
  <1> SUFFICES ASSUME Core, TarInv, [Next]_vars, spent'["failure"] = 0 PROVE TarBody'
    BY DEF TarInv
  <1>1. TarBody
    BY FailuresStay DEF TarInv, Core
  <1>2. ~Crash
    <2>1. spent["crash"] \in Nat
      BY DEF Core, TypeOK, Limited
    <2> QED BY <2>1 DEF Crash, Spend
  <1>3. ASSUME NEW p \in Callers, Works(p) PROVE TarBody'
    <2>1. LandedOK(p)
      BY <1>1 DEF TarBody
    <2>2. CASE \/ \E c \in Commits, refs \in SUBSET Refs :
                     \E files \in Versions[c] : PutManifest(p, c, files, refs)
               \/ \E b \in Blobs : PutBlob(p, b)
               \/ DeleteRepo(p) \/ LockRepo(p)
      BY <1>1, <2>1, <2>2, CalmCall, TarCalm
    <2>3. CASE \/ PutOrStage(p) \/ NotePending(p) \/ Publish(p)
               \/ \E f \in Refs : TagRef(p, f)
      BY <1>1, <2>1, <2>3, CalmManifest, TarCalm
    <2>4. CASE \/ HasPending(p) /\ (pending = 1 \/ staged # {})
               \/ ListStaged(p)
               \/ \E c \in Commits : PromoteStaged(p, c)
               \/ ListTags(p) \/ DeleteDone(p)
      BY <1>1, <2>1, <2>4, CalmBlob, TarCalm
    <2>5. CASE \/ Unstage(p, TRUE) \/ CheckIndex(p) \/ Upload(p) \/ PromoteDone(p)
               \/ HasPending(p) /\ ~(pending = 1 \/ staged # {})
      BY <1>1, <2>5, TarReturn
    <2>6. CASE Stage(p, TRUE)
      BY <1>1, <2>6, TarStage
    <2>7. CASE SaveIndex(p)
      BY <1>1, <2>7, TarIndex
    <2>8. ASSUME NEW tag \in op[p].tags, DeleteTag(p, tag, TRUE) PROVE TarBody'
      BY <1>1, <2>8, TarDelete
    <2> QED BY <1>3, <2>2, <2>3, <2>4, <2>5, <2>6, <2>7, <2>8 DEF Works, Step
  <1>4. CASE UNCHANGED vars
    BY <1>1, <1>4 DEF vars, tags, stages, history, TarBody, LandedOK, Promoting, Visits, Present
  <1> QED BY <1>2, <1>3, <1>4, WorkOrCrash DEF Core

\* "promoted to their real tags when the last blob lands", tar-layers: for any
\* callers, as long as the process does not crash; no staging is late there.
THEOREM TarPromoted ==
    ASSUME Format = "tar-layers", Limit["crash"] = 0
    PROVE  Spec => [](AckedPromoted /\ (spent["failure"] = 0 => late = {}))
  <1>1. Init => TarInv
    BY DEF Init, TarInv, TarBody, LandedOK, Promoting
  <1>2. TarInv => AckedPromoted /\ (spent["failure"] = 0 => late = {})
    BY DEF TarInv, TarBody, AckedPromoted, Visits
  <1> QED BY <1>1, <1>2, InitCore, CoreStep, TarStep, PTL DEF Spec

\* modelpack: what a caller that holds the mutex does while another one is
\* promoting does not touch: that one has its visits still before it.
LEMMA PackHolder ==
    ASSUME Core, Format = "modelpack", NEW p \in Callers, NEW q \in Callers \ {p},
           pc[p] \in Critical, pc'[q] = pc[q], op'[q] = op[q], Promoting(q)'
    PROVE  /\ Promoting(q) /\ op'[q].blob = op[q].blob
           /\ \A c \in Commits : Visits(q, c)'
  <1>1. Holds(p)
    BY DEF Holds
  <1>2. ~Holds(q)
    BY <1>1 DEF Core, MutexOK
  <1>3. Promoting(q) /\ pc[q] \notin Critical
    BY <1>2 DEF Promoting, Holds
  <1>4. pc[q] \in {"pend", "waitPromote"}
    BY <1>3 DEF Promoting, Critical
  <1> QED BY <1>3, <1>4 DEF Visits

\* modelpack: a step under the mutex keeps the invariant if its own caller does.
LEMMA PackHeld ==
    ASSUME Core, TypeOK', PackBody, Format = "modelpack", NEW p \in Callers,
           pc[p] \in Critical, blobs' = blobs,
           \A q \in Callers \ {p} : pc'[q] = pc[q] /\ op'[q] = op[q],
           acked' \subseteq blobs',
           \A c \in staged' \ late' : ~(stagedFiles'[c] \subseteq acked'),
           PackVisits(p)'
    PROVE  PackBody'
  <1>1. ASSUME NEW q \in Callers \ {p} PROVE PackVisits(q)'
    <2>1. SUFFICES ASSUME Promoting(q)' PROVE PackVisits(q)'
      BY DEF PackVisits
    <2>2. /\ Promoting(q) /\ op'[q].blob = op[q].blob
          /\ \A c \in Commits : Visits(q, c)'
      BY <2>1, PackHolder
    <2>3. op'[q].blob \in blobs'
      BY <2>2 DEF PackBody, PackVisits
    <2>4. staged' \subseteq Commits
      BY DEF TypeOK
    <2> QED BY <2>2, <2>3, <2>4 DEF PackVisits
  <1> QED BY <1>1 DEF PackBody

\* modelpack: a calm step keeps the invariant.
LEMMA PackCalm ==
    ASSUME PackBody, Format = "modelpack", NEW p \in Callers, Calm(p)
    PROVE  PackBody'
  <1>1. Present = blobs /\ Present' = blobs'
    BY DEF Present
  <1>2. acked' \subseteq blobs' /\ \A c \in staged' \ late' : ~(stagedFiles'[c] \subseteq acked')
    BY DEF PackBody, Calm
  <1>3. PackVisits(p)'
    <2>1. SUFFICES ASSUME Promoting(p)' PROVE PackVisits(p)'
      BY DEF PackVisits
    <2>2. Promoting(p) /\ op'[p].blob = op[p].blob /\ blobs' = blobs /\ acked' = acked
      BY <2>1 DEF Calm
    <2>3. op[p].blob \in blobs /\ acked \subseteq blobs
      BY <2>2 DEF PackBody, PackVisits
    <2>4. ASSUME NEW c \in staged' \ late',
                 stagedFiles'[c] \subseteq acked' \cup {op'[p].blob}
          PROVE  Visits(p, c)'
      <3>1. /\ c \in staged \ late /\ stagedFiles[c] \subseteq acked \cup {op[p].blob}
            /\ c \in staged
        BY <2>2, <2>4 DEF Calm
      <3>2. Visits(p, c)
        BY <2>2, <3>1 DEF PackBody, PackVisits
      <3>3. stagedFiles[c] \subseteq Present
        BY <1>1, <2>3, <3>1
      <3> QED BY <3>1, <3>2, <3>3 DEF Calm
    <2> QED BY <2>2, <2>3, <2>4 DEF PackVisits
  <1>4. ASSUME NEW q \in Callers \ {p} PROVE PackVisits(q)'
    <2>1. /\ pc'[q] = pc[q] /\ op'[q] = op[q] /\ blobs' = blobs /\ acked' = acked
          /\ staged' = staged /\ stagedFiles' = stagedFiles /\ late' = late
      BY DEF Calm
    <2> QED BY <2>1 DEF PackBody, PackVisits, Promoting, Visits
  <1> QED BY <1>2, <1>3, <1>4 DEF PackBody

\* modelpack: a commit is staged with a file missing, or it is late.
LEMMA PackStage ==
    ASSUME Core, TypeOK', PackBody, Format = "modelpack", NEW p \in Callers,
           Stage(p, TRUE)
    PROVE  PackBody'
  <1> DEFINE d == op[p].commit
  <1>1. /\ pc[p] = "stage" /\ pc' = [pc EXCEPT ![p] = "note"] /\ op' = op /\ d \in Commits
        /\ staged' = staged \cup {d} /\ blobs' = blobs /\ acked' = acked
        /\ stagedFiles' = [stagedFiles EXCEPT ![d] = op[p].files]
        /\ late' = IF op[p].files \subseteq blobs THEN late \cup {d} ELSE late \ {d}
    BY DEF Stage, StageLate, Present, Goto, At, Core, OpOK, history
  <1>2. pc'[p] = "note" /\ \A q \in Callers \ {p} : pc'[q] = pc[q] /\ op'[q] = op[q]
    BY <1>1 DEF Core, TypeOK
  <1>3. stagedFiles'[d] = op[p].files
    BY <1>1 DEF Core, TypeOK
  <1>4. \A c \in staged' \ {d} : c \in staged /\ stagedFiles'[c] = stagedFiles[c]
    BY <1>1 DEF Core, TypeOK
  <1> HIDE DEF d
  <1>5. ASSUME NEW c \in staged' \ late' PROVE ~(stagedFiles'[c] \subseteq acked')
    <2>1. CASE c = d
      BY <1>1, <1>3, <1>5, <2>1 DEF PackBody
    <2>2. CASE c # d
      BY <1>1, <1>4, <1>5, <2>2 DEF PackBody
    <2> QED BY <2>1, <2>2
  <1>6. PackVisits(p)'
    BY <1>2 DEF PackVisits, Promoting
  <1>7. acked' \subseteq blobs' /\ pc[p] \in Critical
    BY <1>1 DEF PackBody, Critical
  <1> QED BY <1>1, <1>2, <1>5, <1>6, <1>7, PackHeld

\* modelpack: a blob lands, outside the mutex, and its caller goes on to visit
\* every staged commit.
LEMMA PackUpload ==
    ASSUME Core, PackBody, Format = "modelpack", NEW p \in Callers, Upload(p)
    PROVE  PackBody'
  <1>1. /\ pc' = [pc EXCEPT ![p] = "pend"] /\ op' = op
        /\ blobs' = blobs \cup {op[p].blob} /\ acked' = acked
        /\ staged' = staged /\ stagedFiles' = stagedFiles /\ late' = late
    BY DEF Upload, Goto, tags, stages, history
  <1>2. pc'[p] = "pend" /\ \A q \in Callers \ {p} : pc'[q] = pc[q] /\ op'[q] = op[q]
    BY <1>1 DEF Core, TypeOK
  <1>3. PackVisits(p)'
    BY <1>1, <1>2 DEF PackVisits, Visits
  <1>4. ASSUME NEW q \in Callers \ {p} PROVE PackVisits(q)'
    BY <1>1, <1>2 DEF PackBody, PackVisits, Promoting, Visits
  <1>5. acked' \subseteq blobs' /\ \A c \in staged' \ late' : ~(stagedFiles'[c] \subseteq acked')
    BY <1>1 DEF PackBody
  <1> QED BY <1>3, <1>4, <1>5 DEF PackBody

\* modelpack: a promoted commit loses its staged tag.
LEMMA PackUnstage ==
    ASSUME Core, TypeOK', PackBody, Format = "modelpack", NEW p \in Callers,
           Unstage(p, TRUE)
    PROVE  PackBody'
  <1> DEFINE d == op[p].commit
  <1>1. /\ pc[p] = "refs" /\ d \in Commits /\ blobs' = blobs /\ acked' = acked
        /\ staged' = staged \ {d} /\ stagedFiles' = [stagedFiles EXCEPT ![d] = {}]
        /\ late' = late \ {d}
    BY DEF Unstage, At, Core, OpOK, history
  <1>2. /\ \A c \in staged' : c \in staged /\ c # d /\ stagedFiles'[c] = stagedFiles[c]
        /\ staged' \ late' \subseteq staged \ late
    BY <1>1 DEF Core, TypeOK
  <1>3. acked' \subseteq blobs' /\ \A c \in staged' \ late' : ~(stagedFiles'[c] \subseteq acked')
    BY <1>1, <1>2 DEF PackBody
  <1>4. pc[p] \in Critical
    BY <1>1 DEF Critical
  <1>5. CASE op[p].kind = "manifest"
    <2>1. Return(p)
      BY <1>5 DEF Unstage
    <2>2. PackVisits(p)' /\ \A q \in Callers \ {p} : pc'[q] = pc[q] /\ op'[q] = op[q]
      BY <2>1, QuietReturn, ReturnLanded DEF PackVisits
    <2> QED BY <1>1, <1>3, <1>4, <2>2, PackHeld
  <1>6. CASE op[p].kind # "manifest"
    <2>1. op' = op /\ pc' = [pc EXCEPT ![p] = "promote"]
      BY <1>6 DEF Unstage, Goto
    <2>2. /\ op[p].kind = "blob" /\ pc'[p] = "promote"
          /\ \A q \in Callers \ {p} : pc'[q] = pc[q] /\ op'[q] = op[q]
      BY <1>1, <1>6, <2>1 DEF Core, OpOK, TypeOK
    <2>3. Promoting(p) /\ op[p].blob \in blobs
      BY <1>1, <2>2 DEF PackBody, PackVisits, Promoting
    <2>4. ASSUME NEW c \in staged' \ late',
                 stagedFiles'[c] \subseteq acked' \cup {op'[p].blob}
          PROVE  Visits(p, c)'
      <3>1. c \in staged \ late /\ stagedFiles[c] \subseteq acked \cup {op[p].blob} /\ c # d
        BY <1>1, <1>2, <2>1, <2>4
      <3>2. Visits(p, c)
        BY <2>3, <3>1 DEF PackBody, PackVisits
      <3>3. c \in op[p].rest
        BY <1>1, <3>1, <3>2 DEF Visits
      <3> QED BY <2>1, <2>2, <3>3 DEF Visits
    <2>5. PackVisits(p)'
      BY <1>1, <2>1, <2>3, <2>4 DEF PackVisits
    <2> QED BY <1>1, <1>3, <1>4, <2>2, <2>5, PackHeld
  <1> QED BY <1>5, <1>6

\* modelpack: PutBlob succeeds once it has visited what it had to.
LEMMA PackPromoteDone ==
    ASSUME Core, TypeOK', PackBody, Format = "modelpack", NEW p \in Callers,
           PromoteDone(p)
    PROVE  PackBody'
  <1>1. /\ Return(p) /\ pc[p] = "promote" /\ op[p].rest = {}
        /\ acked' = acked \cup {op[p].blob} /\ blobs' = blobs
        /\ staged' = staged /\ stagedFiles' = stagedFiles /\ late' = late
    BY DEF PromoteDone, Succeed, At, tags, stages
  <1>2. Promoting(p) /\ op[p].blob \in blobs /\ pc[p] \in Critical
    BY <1>1 DEF PackBody, PackVisits, Promoting, Critical
  <1>3. acked' \subseteq blobs'
    BY <1>1, <1>2 DEF PackBody
  <1>4. ASSUME NEW c \in staged' \ late' PROVE ~(stagedFiles'[c] \subseteq acked')
    <2>1. c \in staged \ late /\ ~Visits(p, c)
      BY <1>1, <1>4 DEF Visits
    <2>2. ~(stagedFiles[c] \subseteq acked \cup {op[p].blob})
      BY <1>2, <2>1 DEF PackBody, PackVisits
    <2> QED BY <1>1, <2>2
  <1>5. PackVisits(p)' /\ \A q \in Callers \ {p} : pc'[q] = pc[q] /\ op'[q] = op[q]
    BY <1>1, QuietReturn, ReturnLanded DEF PackVisits
  <1> QED BY <1>1, <1>2, <1>3, <1>4, <1>5, PackHeld

\* modelpack: PutBlob succeeds, without the mutex, when nothing is staged.
LEMMA PackNothing ==
    ASSUME Core, PackBody, Format = "modelpack", NEW p \in Callers,
           HasPending(p), ~(pending = 1 \/ staged # {})
    PROVE  PackBody'
  <1>1. /\ Return(p) /\ pc[p] = "pend" /\ staged' = {}
        /\ acked' = acked \cup {op[p].blob} /\ blobs' = blobs
    BY DEF HasPending, Succeed, At, tags, stages
  <1>2. op[p].blob \in blobs
    BY <1>1 DEF PackBody, PackVisits, Promoting
  <1>3. ~Promoting(p)' /\ \A q \in Callers \ {p} : pc'[q] = pc[q] /\ op'[q] = op[q]
    BY <1>1, QuietReturn, ReturnLanded
  <1>4. ASSUME NEW q \in Callers PROVE PackVisits(q)'
    <2>1. CASE q = p
      BY <1>3, <2>1 DEF PackVisits
    <2>2. CASE q # p
      BY <1>1, <1>3, <2>2 DEF PackBody, PackVisits, Promoting
    <2> QED BY <2>1, <2>2
  <1>5. acked' \subseteq blobs'
    BY <1>1, <1>2 DEF PackBody
  <1> QED BY <1>1, <1>4, <1>5 DEF PackBody

\* modelpack: DeleteRepo leaves the other staged commits waiting.
LEMMA PackDelete ==
    ASSUME Core, TypeOK', PackBody, Format = "modelpack", NEW p \in Callers,
           NEW tag, DeleteTag(p, tag, TRUE)
    PROVE  PackBody'
  <1>1. /\ pc[p] = "delete" /\ pc' = pc /\ Removed(tag) /\ blobs' = blobs
        /\ op' = [op EXCEPT ![p].tags = @ \ {tag}]
    BY DEF DeleteTag, At
  <1>2. \A q \in Callers \ {p} : pc'[q] = pc[q] /\ op'[q] = op[q]
    BY <1>1 DEF Core, TypeOK
  <1>3. /\ staged' \ late' \subseteq staged \ late
        /\ \A c \in staged' : stagedFiles'[c] = stagedFiles[c]
    BY <1>1 DEF Removed, Core, TypeOK
  <1>4. acked' \subseteq acked
    BY <1>1 DEF Removed
  <1>5. acked' \subseteq blobs' /\ \A c \in staged' \ late' : ~(stagedFiles'[c] \subseteq acked')
    BY <1>1, <1>3, <1>4 DEF PackBody
  <1>6. PackVisits(p)' /\ pc[p] \in Critical
    BY <1>1 DEF PackVisits, Promoting, Critical
  <1> QED BY <1>1, <1>2, <1>5, <1>6, PackHeld

\* modelpack: no step without a failed request breaks the invariant, a crash
\* included.
LEMMA PackStep ==
    ASSUME Format = "modelpack"
    PROVE  Core /\ PackInv /\ [Next]_vars => PackInv'
  <1> SUFFICES ASSUME Core, PackInv, [Next]_vars, spent'["failure"] = 0 PROVE PackBody'
    BY DEF PackInv
  <1>1. PackBody
    BY FailuresStay DEF PackInv, Core
  <1>2. TypeOK'
    BY CoreStep DEF Core
  <1>3. CASE Crash
    <2>1. /\ blobs' = blobs /\ acked' = acked /\ staged' = staged /\ late' = late
          /\ stagedFiles' = stagedFiles /\ \A p \in Callers : pc'[p] = "idle"
      BY <1>3 DEF Crash, tags, stages, history
    <2> QED BY <1>1, <2>1 DEF PackBody, PackVisits, Promoting
  <1>4. ASSUME NEW p \in Callers, Works(p) PROVE PackBody'
    <2>1. pc[p] # "stage" => LandedOK(p)
      BY <1>1 DEF PackBody, PackVisits, LandedOK, Present
    <2>2. CASE \/ \E c \in Commits, refs \in SUBSET Refs :
                     \E files \in Versions[c] : PutManifest(p, c, files, refs)
               \/ \E b \in Blobs : PutBlob(p, b)
               \/ DeleteRepo(p) \/ LockRepo(p)
      <3>1. pc[p] # "stage"
        BY <2>2 DEF PutManifest, PutBlob, DeleteRepo, Call, At, LockRepo, Waits
      <3> QED BY <1>1, <2>1, <2>2, <3>1, CalmCall, PackCalm
    <2>3. CASE \/ PutOrStage(p) \/ NotePending(p) \/ Publish(p)
               \/ \E f \in Refs : TagRef(p, f)
      <3>1. pc[p] # "stage"
        BY <2>3 DEF PutOrStage, NotePending, Publish, TagRef, At
      <3> QED BY <1>1, <2>1, <2>3, <3>1, CalmManifest, PackCalm
    <2>4. CASE \/ HasPending(p) /\ (pending = 1 \/ staged # {})
               \/ ListStaged(p)
               \/ \E c \in Commits : PromoteStaged(p, c)
               \/ ListTags(p) \/ DeleteDone(p)
      <3>1. pc[p] # "stage"
        BY <2>4 DEF HasPending, ListStaged, PromoteStaged, ListTags, DeleteDone, At
      <3> QED BY <1>1, <2>1, <2>4, <3>1, CalmBlob, PackCalm
    <2>5. CASE PromoteDone(p)
      BY <1>1, <1>2, <2>5, PackPromoteDone
    <2>6. CASE HasPending(p) /\ ~(pending = 1 \/ staged # {})
      BY <1>1, <2>6, PackNothing
    <2>7. CASE Stage(p, TRUE)
      BY <1>1, <1>2, <2>7, PackStage
    <2>8. CASE Unstage(p, TRUE)
      BY <1>1, <1>2, <2>8, PackUnstage
    <2>9. CASE Upload(p)
      BY <1>1, <2>9, PackUpload
    <2>10. ASSUME NEW tag \in op[p].tags, DeleteTag(p, tag, TRUE) PROVE PackBody'
      BY <1>1, <1>2, <2>10, PackDelete
    <2>11. ~CheckIndex(p) /\ ~SaveIndex(p)
      BY DEF CheckIndex, SaveIndex, At, Core, OpOK
    <2> QED BY <1>4, <2>2, <2>3, <2>4, <2>5, <2>6, <2>7, <2>8, <2>9, <2>10, <2>11
            DEF Works, Step
  <1>5. CASE UNCHANGED vars
    BY <1>1, <1>5 DEF vars, tags, stages, history, PackBody, PackVisits, Promoting, Visits
  <1> QED BY <1>3, <1>4, <1>5, WorkOrCrash DEF Core

\* "promoted to their real tags when the last blob lands", modelpack: for any
\* callers at once, over any crashes and restarts, with the exemption of late
\* stagings that AckedPromoted names.
THEOREM PackPromoted ==
    ASSUME Format = "modelpack"
    PROVE  Spec => []AckedPromoted
  <1>1. Init => PackInv
    BY DEF Init, PackInv, PackBody, PackVisits, Promoting
  <1>2. PackInv => AckedPromoted
    BY DEF PackInv, PackBody, AckedPromoted
  <1> QED BY <1>1, <1>2, InitCore, CoreStep, PackStep, PTL DEF Spec

=============================================================================
