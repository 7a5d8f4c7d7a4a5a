-------------------------- MODULE ServerGateProofs -------------------------
(***************************************************************************)
(* Theorems about ServerGate, for any number of requests and tokens, any   *)
(* limits and any lives of the credentials.                                *)
(***************************************************************************)
EXTENDS ServerGate, FiniteSetTheorems, TLAPS

\* The types of all but the slots.
Types ==
    /\ now \in 0..MaxTime
    /\ vouched \subseteq Tokens
    /\ entries \subseteq Verdict
    /\ req \in [Requests -> Req] /\ last \in Outcome
    /\ minted \subseteq XetToken /\ urls \subseteq DataURL
    /\ stopping \in BOOLEAN /\ upstream \in BOOLEAN
    /\ spent \in [Limited -> Nat] /\ \A w \in Limited : spent[w] <= Limit[w]

\* Each sort of credential, and the answer of upstream it goes back to.
VerdictOK(e) ==
    /\ e.verdict = "accept" <=> e.proof.said = 200
    /\ e.proof.since <= now /\ e.expires = e.proof.since + TTL
TokenOK(x) ==
    /\ x.proof.said = 200
    /\ x.proof.since <= now /\ x.exp <= x.proof.since + TTL + TokenTTL
URLOK(u) ==
    /\ u.proof.said = 200
    /\ u.proof.since <= now /\ u.exp <= u.proof.since + TTL + TokenTTL + DataURLTTL

CredentialsOK ==
    /\ \A e \in entries : VerdictOK(e)
    /\ \A x \in minted : TokenOK(x)
    /\ \A u \in urls : URLOK(u)

\* Only requests the Hub token guards ask upstream.
AskersOK == \A r \in Requests : req[r].at \in {"ask", "put"} => req[r].kind \in Hub

Core == Types /\ CredentialsOK /\ AskersOK

\* The requests that hold a slot of direction d, and what the channel says.
Moving(d) == {r \in Requests : At(r, "transfer") /\ Direction(req[r].kind) = d}

SlotsOK ==
    /\ sem \in [Directions -> Nat]
    /\ \A d \in Directions :
          IF Slots[d] > 0 THEN sem[d] = Cardinality(Moving(d)) /\ sem[d] <= Slots[d]
                          ELSE sem[d] = 0

-----------------------------------------------------------------------------
(* Facts about the helpers *)

\* No request and no answer are values of their types.
LEMMA NoReqType == NoReq \in Req /\ NoOutcome \in Outcome
  BY BoundsAssumption DEF NoReq, Req, NoOutcome, Outcome, Kinds, Hub, CAS, Callers, Points, Answers,
                           Client, Outcomes, Reasons

\* Spending stays within the limit.
LEMMA SpendType ==
    ASSUME Types, NEW what \in Limited, Spend(what)
    PROVE  spent' \in [Limited -> Nat] /\ \A w \in Limited : spent'[w] <= Limit[w]
  <1>1. /\ spent[what] < Limit[what]
        /\ spent' = [spent EXCEPT ![what] = @ + 1]
    BY DEF Spend
  <1>2. /\ spent \in [Limited -> Nat] /\ Limit \in [Limited -> Nat]
        /\ \A w \in Limited : spent[w] <= Limit[w]
    BY BoundsAssumption DEF Types
  <1>3. spent' \in [Limited -> Nat]
    BY <1>1, <1>2
  <1>4. ASSUME NEW w \in Limited PROVE spent'[w] <= Limit[w]
    <2>1. spent'[w] = IF w = what THEN spent[w] + 1 ELSE spent[w]
      BY <1>1, <1>2
    <2> QED BY <1>1, <1>2, <2>1
  <1> QED BY <1>3, <1>4

\* A request that ends keeps the requests in their types.
LEMMA DoneType ==
    ASSUME Types, AskersOK, NEW r \in Requests, Done(r)
    PROVE  req' \in [Requests -> Req] /\ AskersOK'
  <1>1. req' \in [Requests -> Req]
    <2>1. [NoReq EXCEPT !.at = "done"] \in Req
      <3>1. [NoReq EXCEPT !.at = "done"] =
              [kind |-> "resolve", token |-> NoToken, at |-> "done", status |-> 503, client |-> "here"]
        BY DEF NoReq
      <3> QED BY <3>1 DEF Req, Kinds, Hub, CAS, Callers, Points, Answers, Client
    <2>2. req \in [Requests -> Req] /\ req[r] \in Req
      BY DEF Types
    <2>3. CASE At(r, "new")
      BY <2>2, <2>3 DEF Done
    <2>4. CASE ~At(r, "new")
      <3>1. req' = [req EXCEPT ![r] = [NoReq EXCEPT !.at = "done"]]
        BY <2>4 DEF Done
      <3> QED BY <2>1, <2>2, <3>1
    <2> QED BY <2>3, <2>4
  <1>2. AskersOK'
    <2>1. [NoReq EXCEPT !.at = "done"].at = "done"
      BY DEF NoReq
    <2> QED BY <1>1, <2>1 DEF Types, AskersOK, Done, At
  <1> QED BY <1>1, <1>2

\* An answer that no credential decided is a value of its type and lets nobody in.
LEMMA AnswerType ==
    ASSUME Types, NEW r \in Requests, NEW what \in Outcomes \ {"admitted", "unauthorized"},
           Answer(r, what)
    PROVE  last' \in Outcome /\ AccessEnds'
  <1>1. req[r] \in Req
    BY DEF Types
  <1>2. last' = [kind |-> req[r].kind, what |-> what, why |-> "answer", said |-> 503, age |-> 0,
                  client |-> req[r].client]
    BY ZenonT(40) DEF Answer, NoOutcome
  <1>3. req[r].kind \in Kinds /\ req[r].client \in Client
    BY <1>1 DEF Req
  <1>4. 503 \in Answers /\ 0 \in 0..MaxTime
    BY BoundsAssumption DEF Answers
  <1>5. last' \in Outcome /\ last'.what = what
    BY <1>2, <1>3, <1>4 DEF Outcome, Reasons
  <1> QED BY <1>5 DEF AccessEnds

\* A refusal without an answer of upstream, for a reason the code has.
LEMMA RefuseType ==
    ASSUME Types, NEW r \in Requests, NEW kind \in Hub, NEW why, Refuse(r, kind, why),
           \/ why = "no token" /\ kind # "read_token"
           \/ why = "no upstream" /\ ~upstream'
           \/ why = "no answer" /\ kind = "read_token"
    PROVE  last' \in Outcome /\ AccessEnds'
  <1>1. last' = [kind |-> kind, what |-> "unauthorized", why |-> why, said |-> 503, age |-> 0,
                 client |-> req[r].client]
    BY ZenonT(40) DEF Refuse, NoOutcome
  <1>2. kind \in Kinds /\ req[r].client \in Client /\ why \in Reasons
    <2>1. why \in Reasons
      BY Zenon DEF Reasons
    <2>2. req[r].client \in Client
      BY DEF Types, Req
    <2> QED BY <2>1, <2>2, Zenon DEF Kinds
  <1>3. 503 \in Answers /\ 0 \in 0..MaxTime
    BY ONLY BoundsAssumption DEF Answers
  <1>4. last' \in Outcome
    BY <1>1, <1>2, <1>3 DEF Outcome, Outcomes
  <1>5. last'.what = "unauthorized" /\ last'.kind = kind /\ last'.why = why
    BY <1>1
  <1> QED BY <1>4, <1>5 DEF AccessEnds

\* Neither does silence.
LEMMA SilentType == ASSUME Types, Silent PROVE last' \in Outcome /\ AccessEnds'
  BY NoReqType DEF Silent, NoOutcome, AccessEnds

\* A credential decides: the answer has its type and respects the horizon.
LEMMA JudgeType ==
    ASSUME Core, NEW r \in Requests, NEW kind \in Hub \cup CAS \cup {"data"}, NEW ok \in BOOLEAN,
           NEW proof \in Proof, Judge(r, kind, ok, proof),
           proof.since <= now,
           ok => proof.said = 200 /\ now <= proof.since + Horizon(kind),
           ~ok /\ kind \in Hub => proof.said # 200 /\ now <= proof.since + TTL
    PROVE  last' \in Outcome /\ AccessEnds'
  <1>1. /\ now \in 0..MaxTime /\ proof.since \in 0..MaxTime /\ proof.said \in Answers
        /\ req[r].client \in Client
    BY DEF Core, Types, Proof, Req
  <1>2. now - proof.since \in 0..MaxTime
    BY <1>1, BoundsAssumption
  <1>3. last' = [kind |-> kind, what |-> IF ok THEN "admitted" ELSE "unauthorized",
                 why |-> "answer", said |-> proof.said, age |-> now - proof.since, client |-> req[r].client]
    BY DEF Judge
  <1>4. last' \in Outcome
    BY <1>1, <1>2, <1>3 DEF Outcome, Kinds, Outcomes, Reasons
  <1>5. Horizon(kind) \in Nat
    BY TTLAssumption DEF Horizon, Hub, CAS
  <1>6. /\ last'.what = "admitted" => last'.said = 200 /\ last'.age <= Horizon(last'.kind)
        /\ last'.what = "unauthorized" /\ last'.kind \in Hub => last'.said # 200 /\ last'.age <= TTL
        /\ last'.why = "answer"
    BY <1>1, <1>3, <1>5, TTLAssumption, BoundsAssumption
  <1> QED BY <1>4, <1>6 DEF AccessEnds, Horizon

\* Credentials stay what they are while time passes and entries are removed.
LEMMA CredentialsKept ==
    ASSUME Core, now' \in 0..MaxTime, now <= now', entries' \subseteq entries, minted' = minted, urls' = urls
    PROVE  CredentialsOK'
  <1>1. /\ \A e \in entries : e.proof.since \in Nat
        /\ \A x \in minted : x.proof.since \in Nat
        /\ \A u \in urls : u.proof.since \in Nat
        /\ now \in Nat /\ now' \in Nat
    BY BoundsAssumption DEF Core, Types, Verdict, XetToken, DataURL, Proof
  <1>2. ASSUME NEW e \in entries' PROVE VerdictOK(e)'
    BY <1>1, <1>2 DEF Core, CredentialsOK, VerdictOK
  <1>3. ASSUME NEW x \in minted' PROVE TokenOK(x)'
    BY <1>1, <1>3 DEF Core, CredentialsOK, TokenOK
  <1>4. ASSUME NEW u \in urls' PROVE URLOK(u)'
    BY <1>1, <1>4 DEF Core, CredentialsOK, URLOK
  <1> QED BY <1>2, <1>3, <1>4 DEF CredentialsOK

\* Clients keep what they hold or take the new.
LEMMA HoldingOne ==
    ASSUME NEW held, NEW new, NEW kept \in Holding(held, new)
    PROVE  kept = held \/ kept = {new}
  BY Zenon DEF Holding

\* A verdict that is no older than its life is acted upon.
LEMMA DecideOK ==
    ASSUME Core, NEW r \in Requests, NEW kind \in Hub, NEW v, NEW proof \in Proof,
           Decide(r, kind, v, proof), v = "accept" <=> proof.said = 200,
           proof.since <= now, now <= proof.since + TTL
    PROVE  /\ req' \in [Requests -> Req] /\ AskersOK'
           /\ last' \in Outcome /\ AccessEnds'
           /\ minted' \subseteq XetToken
           /\ now' = now => \A x \in minted' : TokenOK(x)'
  <1>1. last' \in Outcome /\ AccessEnds'
    <2>1. Judge(r, kind, v = "accept", proof)
      BY DEF Decide
    <2>2. Horizon(kind) = TTL
      BY DEF Horizon, Hub, CAS
    <2> QED BY <2>1, <2>2, JudgeType
  <1>2. req' \in [Requests -> Req] /\ AskersOK'
    <2>1. CASE v = "accept" /\ kind = "lfs_upload"
      <3> DEFINE q == [kind |-> kind, token |-> NoToken, at |-> "slot", status |-> 503, client |-> req[r].client]
      <3>1. req[r].client \in Client
        BY DEF Core, Types, Req
      <3>2. q \in Req /\ q.at = "slot"
        BY <3>1 DEF Req, Kinds, Callers, Points, Answers
      <3>3. req' = [req EXCEPT ![r] = q]
        BY <2>1 DEF Decide
      <3> HIDE DEF q
      <3> QED BY <3>2, <3>3 DEF Core, Types, AskersOK
    <2>2. CASE ~(v = "accept" /\ kind = "lfs_upload")
      BY <2>2, DoneType DEF Decide, Core
    <2> QED BY <2>1, <2>2
  <1>3. minted' = minted \/ (v = "accept" /\ minted' = {MintToken(kind, proof)})
    <2>1. IF v = "accept" /\ kind \in {"write_token", "read_token"}
          THEN minted' \in Holding(minted, MintToken(kind, proof)) ELSE minted' = minted
      BY DEF Decide
    <2>2. CASE v = "accept" /\ kind \in {"write_token", "read_token"}
      <3>1. minted' \in Holding(minted, MintToken(kind, proof))
        BY <2>1, <2>2
      <3>2. minted' = minted \/ minted' = {MintToken(kind, proof)}
        BY ONLY <3>1, HoldingOne, Zenon
      <3> QED BY <2>2, <3>2
    <2> QED BY <2>1, <2>2
  <1>4. CASE minted' = minted
    BY <1>1, <1>2, <1>4 DEF Core, Types, CredentialsOK, TokenOK
  <1>5. CASE v = "accept" /\ minted' = {MintToken(kind, proof)}
    <2>1. /\ now \in 0..MaxTime /\ proof.since \in Nat /\ TTL \in Nat /\ TokenTTL \in Nat /\ MaxTime \in Nat
      BY TTLAssumption, BoundsAssumption DEF Core, Types, Proof
    <2>2. now + TokenTTL \in 0..(MaxTime + TokenTTL) /\ now + TokenTTL <= proof.since + TTL + TokenTTL
      BY <2>1
    <2>3. MintToken(kind, proof) \in XetToken
      BY <2>2 DEF MintToken, XetToken
    <2>4. MintToken(kind, proof).exp = now + TokenTTL /\ MintToken(kind, proof).proof = proof
      BY DEF MintToken
    <2>5. ASSUME now' = now, NEW x \in minted' PROVE TokenOK(x)'
      <3>1. x = MintToken(kind, proof)
        BY <1>5
      <3> QED BY <1>5, <2>2, <2>4, <2>5, <3>1 DEF TokenOK
    <2>6. minted' \subseteq XetToken
      BY <1>5, <2>3
    <2> QED BY <1>1, <1>2, <2>5, <2>6
  <1> QED BY <1>1, <1>2, <1>3, <1>4, <1>5

-----------------------------------------------------------------------------
(* The core invariant: types, credentials, and who asks upstream *)

\* The core invariant holds of a server just started.
LEMMA InitCore == Init => Core /\ AccessEnds
  <1> SUFFICES ASSUME Init PROVE Core /\ AccessEnds
    OBVIOUS
  <1>1. Types
    <2>1. now \in 0..MaxTime /\ spent \in [Limited -> Nat] /\ \A w \in Limited : spent[w] <= Limit[w]
      BY BoundsAssumption DEF Init
    <2>2. req \in [Requests -> Req] /\ last \in Outcome
      BY NoReqType DEF Init
    <2>3. vouched \subseteq Tokens /\ entries = {} /\ minted = {} /\ urls = {}
          /\ stopping \in BOOLEAN /\ upstream \in BOOLEAN
      BY DEF Init
    <2> QED BY <2>1, <2>2, <2>3 DEF Types
  <1>2. CredentialsOK /\ AskersOK
    BY DEF Init, CredentialsOK, AskersOK, NoReq
  <1>3. AccessEnds
    BY DEF Init, AccessEnds, NoOutcome
  <1> QED BY <1>1, <1>2, <1>3 DEF Core

\* A step that changes no credential but by the clock: what remains to be shown.
LEMMA CoreFrame ==
    ASSUME Core, now' \in 0..MaxTime, now <= now', vouched' \subseteq Tokens,
           entries' \subseteq entries, minted' = minted, urls' = urls, stopping' \in BOOLEAN,
           upstream' = upstream,
           req' \in [Requests -> Req], AskersOK', last' \in Outcome,
           spent' \in [Limited -> Nat], \A w \in Limited : spent'[w] <= Limit[w]
    PROVE  Core'
  <1>1. CredentialsOK'
    BY CredentialsKept
  <1>2. Types'
    BY DEF Core, Types
  <1> QED BY <1>1, <1>2 DEF Core

\* A Hub request is decided by the cache, or has to ask upstream.
LEMMA HubStep ==
    ASSUME Core, NEW r \in Requests, NEW kind \in Hub, NEW token \in Callers,
           CacheHit(r, kind, token) \/ CacheMiss(r, kind, token) \/ NoUpstream(r, kind, token)
    PROVE  Core' /\ AccessEnds'
  <1>1. CASE CacheHit(r, kind, token)
    <2>1. PICK e \in Get(token) : Decide(r, kind, e.verdict, e.proof)
      BY <1>1 DEF CacheHit
    <2>2. e \in entries /\ now <= e.expires
      BY DEF Get
    <2>3. VerdictOK(e) /\ e.proof \in Proof
      BY <2>2 DEF Core, CredentialsOK, Types, Verdict
    <2>4. UNCHANGED <<now, vouched, entries, urls, stopping, upstream, spent>>
      BY <1>1 DEF CacheHit, HubRequest
    <2>5. /\ req' \in [Requests -> Req] /\ AskersOK'
          /\ last' \in Outcome /\ AccessEnds'
          /\ minted' \subseteq XetToken /\ \A x \in minted' : TokenOK(x)'
      <3>1. /\ e.verdict = "accept" <=> e.proof.said = 200
            /\ e.proof.since <= now /\ now <= e.proof.since + TTL
        BY <2>2, <2>3 DEF VerdictOK
      <3>2. /\ req' \in [Requests -> Req] /\ AskersOK'
            /\ last' \in Outcome /\ AccessEnds'
            /\ minted' \subseteq XetToken /\ (now' = now => \A x \in minted' : TokenOK(x)')
        BY <2>1, <2>3, <3>1, DecideOK
      <3> QED BY <2>4, <3>2
    <2>6. Types'
      BY <2>4, <2>5 DEF Core, Types
    <2>7. CredentialsOK'
      BY <2>4, <2>5 DEF Core, CredentialsOK, VerdictOK, URLOK
    <2> QED BY <2>5, <2>6, <2>7 DEF Core
  <1>2. CASE CacheMiss(r, kind, token)
    <2>1. /\ UNCHANGED <<now, vouched, minted, urls, stopping, upstream, spent>>
          /\ entries' \subseteq entries /\ Silent
          /\ req' = [req EXCEPT ![r].kind = kind, ![r].token = token, ![r].at = "ask"]
      BY <1>2 DEF CacheMiss, HubRequest
    <2>2. kind \in Kinds /\ "ask" \in Points /\ req \in [Requests -> Req]
      BY DEF Core, Types, Kinds, Points
    <2>3. req' \in [Requests -> Req]
      BY <2>1, <2>2 DEF Req
    <2>4. AskersOK'
      BY <2>1, <2>2 DEF Core, AskersOK, Req
    <2>5. last' \in Outcome /\ AccessEnds'
      BY <2>1, SilentType DEF Core
    <2> QED BY <2>1, <2>3, <2>4, <2>5, CoreFrame, BoundsAssumption DEF Core, Types
  <1>3. CASE NoUpstream(r, kind, token)
    <2>1. /\ UNCHANGED <<now, vouched, minted, urls, stopping, upstream, spent>>
          /\ entries' \subseteq entries /\ Done(r) /\ Refuse(r, kind, "no upstream")
      BY <1>3 DEF NoUpstream, HubRequest
    <2>a. ~upstream'
      BY <1>3, Zenon DEF NoUpstream, HubRequest
    <2>2. req' \in [Requests -> Req] /\ AskersOK'
      BY <2>1, DoneType DEF Core
    <2>3. last' \in Outcome /\ AccessEnds'
      BY <2>1, <2>a, RefuseType, Zenon DEF Core
    <2>4. /\ now' \in 0..MaxTime /\ now <= now' /\ vouched' \subseteq Tokens
          /\ spent' \in [Limited -> Nat] /\ \A w \in Limited : spent'[w] <= Limit[w]
      <3>1. /\ now \in 0..MaxTime /\ vouched \subseteq Tokens
            /\ spent \in [Limited -> Nat] /\ \A w \in Limited : spent[w] <= Limit[w]
        BY Zenon DEF Core, Types
      <3>2. UNCHANGED <<now, vouched, spent>>
        BY <2>1
      <3> QED BY ONLY <3>1, <3>2, BoundsAssumption
    <2>5. stopping' \in BOOLEAN
      BY <2>1, Zenon DEF Core, Types
    <2> QED BY <2>1, <2>2, <2>3, <2>4, <2>5, CoreFrame, Zenon
  <1> QED BY <1>1, <1>2, <1>3

\* An answer of upstream enters the cache and decides the request.
LEMMA PutStep ==
    ASSUME Core, NEW r \in Requests, CachePut(r)
    PROVE  Core' /\ AccessEnds'
  <1> DEFINE proof == [said |-> req[r].status, since |-> now]
             verdict == IF Vouches(req[r].status) THEN "accept" ELSE "reject"
             e == [token |-> req[r].token, verdict |-> verdict, expires |-> now + TTL, proof |-> proof]
  <1>1. /\ req[r].at = "put" /\ entries' = Put(entries, e)
        /\ Decide(r, req[r].kind, verdict, proof)
        /\ UNCHANGED <<now, vouched, sem, urls, stopping, upstream, spent>>
    BY DEF CachePut, At
  <1>2. /\ req[r].token \in Callers /\ req[r].status \in Answers /\ req[r].kind \in Hub
        /\ now \in 0..MaxTime /\ MaxTime \in Nat /\ TTL \in Nat
    BY <1>1, BoundsAssumption, TTLAssumption DEF Core, Types, Req, AskersOK
  <1>3. proof \in Proof /\ proof.since = now /\ proof.said = req[r].status
    BY <1>2 DEF Proof
  <1>4. verdict = "accept" <=> proof.said = 200
    BY <1>3 DEF Vouches
  <1>5. e \in Verdict
    BY <1>2, <1>3 DEF Verdict
  <1>6. e.verdict = verdict /\ e.proof = proof /\ e.expires = now + TTL
    OBVIOUS
  <1> HIDE DEF proof, verdict, e
  <1>7. /\ req' \in [Requests -> Req] /\ AskersOK'
        /\ last' \in Outcome /\ AccessEnds'
        /\ minted' \subseteq XetToken /\ \A x \in minted' : TokenOK(x)'
    <2>1. proof.since <= now /\ now <= proof.since + TTL
      BY <1>2, <1>3
    <2> QED BY <1>1, <1>2, <1>3, <1>4, <2>1, DecideOK
  <1>8. \A f \in entries' : f \in entries \/ f = e
    BY <1>1 DEF Put
  <1>9. Types'
    BY <1>1, <1>5, <1>7, <1>8 DEF Core, Types
  <1>10. CredentialsOK'
    <2>1. ASSUME NEW f \in entries' PROVE VerdictOK(f)'
      <3>1. CASE f \in entries
        BY <1>1, <3>1 DEF Core, CredentialsOK, VerdictOK
      <3>2. CASE f = e
        BY <1>1, <1>2, <1>3, <1>4, <1>6, <3>2 DEF VerdictOK
      <3> QED BY <1>8, <3>1, <3>2
    <2>2. \A u \in urls' : URLOK(u)'
      BY <1>1 DEF Core, CredentialsOK, URLOK
    <2> QED BY <1>7, <2>1, <2>2 DEF CredentialsOK
  <1> QED BY <1>7, <1>9, <1>10 DEF Core

\* A CAS request is decided by the token it bears.
LEMMA CASStep ==
    ASSUME Core, NEW r \in Requests, NEW kind \in CAS, NEW x \in minted, CASRequest(r, kind, x)
    PROVE  Core' /\ AccessEnds'
  <1> DEFINE ok == VerifyBearer(x, IF kind = "xorb" THEN "write" ELSE "read")
  <1>1. /\ Judge(r, kind, ok, x.proof) /\ Done(r)
        /\ UNCHANGED <<now, vouched, entries, sem, minted, stopping, upstream, spent>>
        /\ IF ok /\ kind = "reconstruction"
           THEN urls' \in Holding(urls, SignedDataURL(x.proof)) ELSE urls' = urls
    BY DEF CASRequest
  <1>2. /\ x.proof \in Proof /\ x.proof.since \in 0..MaxTime /\ x.exp \in Nat /\ now \in 0..MaxTime
        /\ MaxTime \in Nat /\ TTL \in Nat /\ TokenTTL \in Nat /\ DataURLTTL \in Nat
    BY BoundsAssumption, TTLAssumption DEF Core, Types, XetToken, Proof
  <1>3. ok => now <= x.exp
    BY DEF VerifyBearer
  <1>4. ok \in BOOLEAN
    BY DEF VerifyBearer
  <1> HIDE DEF ok
  <1>5. TokenOK(x)
    BY DEF Core, CredentialsOK
  <1>6. last' \in Outcome /\ AccessEnds'
    <2>1. Horizon(kind) = TTL + TokenTTL /\ kind \notin Hub
      BY DEF Horizon, Hub, CAS
    <2>2. ok => x.proof.said = 200 /\ now <= x.proof.since + Horizon(kind)
      BY <1>2, <1>3, <1>5, <2>1 DEF TokenOK
    <2>3. x.proof.since <= now
      BY <1>5 DEF TokenOK
    <2> QED BY <1>1, <1>2, <1>4, <2>1, <2>2, <2>3, JudgeType
  <1>7. req' \in [Requests -> Req] /\ AskersOK'
    BY <1>1, DoneType DEF Core
  <1>8. urls' = urls \/ (ok /\ urls' = {SignedDataURL(x.proof)})
    <2>1. CASE ok /\ kind = "reconstruction"
      <3>1. urls' \in Holding(urls, SignedDataURL(x.proof))
        BY <1>1, <2>1
      <3>2. urls' = urls \/ urls' = {SignedDataURL(x.proof)}
        BY ONLY <3>1, HoldingOne, Zenon
      <3> QED BY <2>1, <3>2
    <2> QED BY <1>1, <2>1
  <1>9. urls' \subseteq DataURL /\ \A u \in urls' : URLOK(u)'
    <2>1. CASE urls' = urls
      BY <1>1, <2>1 DEF Core, Types, CredentialsOK, URLOK
    <2>2. CASE ok /\ urls' = {SignedDataURL(x.proof)}
      <3> DEFINE new == SignedDataURL(x.proof)
      <3>1. new = [exp |-> now + DataURLTTL, proof |-> x.proof]
        BY DEF SignedDataURL
      <3>2. now + DataURLTTL \in 0..(MaxTime + DataURLTTL)
        BY <1>2
      <3>3. new \in DataURL /\ new.exp = now + DataURLTTL /\ new.proof = x.proof
        BY <1>2, <3>1, <3>2 DEF DataURL
      <3> HIDE DEF new
      <3>4. ASSUME NEW u \in urls' PROVE URLOK(u)'
        <4>1. u.exp = now + DataURLTTL /\ u.proof = x.proof
          BY <2>2, <3>3 DEF new
        <4>2. now <= x.exp /\ x.exp <= x.proof.since + TTL + TokenTTL
          BY <1>3, <1>5, <2>2 DEF TokenOK
        <4>3. u.exp <= u.proof.since + TTL + TokenTTL + DataURLTTL
          BY <1>2, <4>1, <4>2
        <4> QED BY <1>1, <1>5, <4>1, <4>3 DEF TokenOK, URLOK
      <3> QED BY <2>2, <3>3, <3>4 DEF new
    <2> QED BY <1>8, <2>1, <2>2
  <1>10. Types'
    BY <1>1, <1>6, <1>7, <1>9 DEF Core, Types
  <1>11. CredentialsOK'
    BY <1>1, <1>9 DEF Core, CredentialsOK, VerdictOK, TokenOK
  <1> QED BY <1>6, <1>7, <1>10, <1>11 DEF Core

\* A data request is decided by the signature and expiry of its URL.
LEMMA DataStep ==
    ASSUME Core, NEW r \in Requests, NEW u \in urls, DataRequest(r, u)
    PROVE  Core' /\ AccessEnds'
  <1>1. /\ u.proof \in Proof /\ u.proof.since \in 0..MaxTime /\ u.exp \in Nat /\ now \in 0..MaxTime
        /\ MaxTime \in Nat /\ TTL \in Nat /\ TokenTTL \in Nat /\ DataURLTTL \in Nat
    BY BoundsAssumption, TTLAssumption DEF Core, Types, DataURL, Proof
  <1>2. URLOK(u)
    BY DEF Core, CredentialsOK
  <1> DEFINE ok == now <= u.exp
  <1>3. /\ Judge(r, "data", ok, u.proof) /\ Done(r)
        /\ UNCHANGED <<now, vouched, entries, minted, urls, stopping, upstream, spent>>
    BY DEF DataRequest
  <1>4. /\ Horizon("data") = TTL + TokenTTL + DataURLTTL /\ "data" \notin Hub
    BY DEF Horizon, Hub, CAS
  <1>5. ok => u.proof.said = 200 /\ now <= u.proof.since + Horizon("data")
    BY <1>1, <1>2, <1>4 DEF URLOK
  <1>6. ok \in BOOLEAN /\ u.proof.since <= now
    BY <1>2 DEF URLOK
  <1> HIDE DEF ok
  <1>7. last' \in Outcome /\ AccessEnds'
    BY <1>1, <1>3, <1>4, <1>5, <1>6, JudgeType
  <1>8. req' \in [Requests -> Req] /\ AskersOK'
    BY <1>3, DoneType DEF Core
  <1> QED BY <1>1, <1>3, <1>7, <1>8, CoreFrame DEF Core, Types

\* The steps that neither use nor make a credential.
LEMMA PlainStep ==
    ASSUME Core, NEW r \in Requests,
           \/ \E kind \in Hub : MissingToken(r, kind)
           \/ Resolve(r) \/ WhoAmI(r) \/ WhoAmIUnavailable(r) \/ WhoAmIFails(r)
           \/ Acquire(r) \/ GiveUp(r) \/ TransferDone(r) \/ TransferFails(r) \/ ClientLeaves(r)
    PROVE  Core' /\ AccessEnds'
  <1>1. /\ req \in [Requests -> Req] /\ AskersOK /\ now \in 0..MaxTime /\ MaxTime \in Nat
        /\ UNCHANGED <<now, vouched, entries, minted, urls, stopping, upstream>>
    BY BoundsAssumption
       DEF Core, Types, MissingToken, Resolve, WhoAmI, WhoAmIUnavailable, WhoAmIFails, Acquire, GiveUp, TransferDone,
           TransferFails, ClientLeaves
  <1>2. spent' \in [Limited -> Nat] /\ \A w \in Limited : spent'[w] <= Limit[w]
    <2>1. CASE spent' = spent
      BY <2>1 DEF Core, Types
    <2>2. CASE Spend("failure") \/ Spend("leave")
      BY <2>2, SpendType DEF Core, Limited
    <2>3. spent' = spent \/ Spend("failure") \/ Spend("leave")
      BY DEF MissingToken, Resolve, WhoAmI, WhoAmIUnavailable, WhoAmIFails, Acquire, GiveUp,
             TransferDone, TransferFails, ClientLeaves
    <2> QED BY <2>1, <2>2, <2>3
  <1>3. last' \in Outcome /\ AccessEnds'
    <2>1. CASE Silent
      BY <2>1, SilentType DEF Core
    <2>2. CASE \E what \in Outcomes \ {"admitted", "unauthorized"} : Answer(r, what)
      BY <2>2, AnswerType DEF Core
    <2>3. CASE \E kind \in Hub : MissingToken(r, kind)
      BY <2>3, RefuseType DEF MissingToken, Core
    <2>4. CASE Refuse(r, "read_token", "no answer")
      <3>1. "read_token" \in Hub
        BY DEF Hub
      <3> QED BY <2>4, <3>1, RefuseType DEF Core
    <2>5. \/ Silent \/ \E what \in Outcomes \ {"admitted", "unauthorized"} : Answer(r, what)
          \/ (\E kind \in Hub : MissingToken(r, kind)) \/ Refuse(r, "read_token", "no answer")
      BY DEF Resolve, WhoAmI, WhoAmIUnavailable, WhoAmIFails, Acquire, GiveUp, TransferDone,
             TransferFails, ClientLeaves, Outcomes
    <2> QED BY <2>1, <2>2, <2>3, <2>4, <2>5
  <1>4. req' \in [Requests -> Req] /\ AskersOK'
    <2>1. CASE Done(r)
      BY <2>1, DoneType DEF Core
    <2>2. CASE Resolve(r)
      <3>1. /\ req' = [req EXCEPT ![r].kind = "resolve", ![r].at = "slot"]
            /\ "resolve" \in Kinds /\ "slot" \in Points
        BY <2>2 DEF Resolve, Kinds, Points
      <3>2. req' \in [Requests -> Req]
        BY <1>1, <3>1 DEF Req
      <3>3. AskersOK'
        BY <1>1, <3>1 DEF AskersOK, Req
      <3> QED BY <3>2, <3>3
    <2>3. CASE WhoAmI(r) \/ WhoAmIUnavailable(r)
      <3>1. PICK status \in Answers : /\ req' = [req EXCEPT ![r].at = "put", ![r].status = status]
                                      /\ req[r].at = "ask"
        BY <2>3 DEF WhoAmI, WhoAmIUnavailable, Answers, At
      <3>2. "put" \in Points
        BY DEF Points
      <3>3. req' \in [Requests -> Req]
        BY <1>1, <3>1, <3>2 DEF Req
      <3>4. AskersOK'
        BY <1>1, <3>1 DEF AskersOK, Req
      <3> QED BY <3>3, <3>4
    <2>4. CASE Acquire(r)
      <3>1. req' = [req EXCEPT ![r].at = "transfer"] /\ "transfer" \in Points
        BY <2>4 DEF Acquire, Points
      <3>2. req' \in [Requests -> Req]
        BY <1>1, <3>1 DEF Req
      <3>3. AskersOK'
        BY <1>1, <3>1 DEF AskersOK, Req
      <3> QED BY <3>2, <3>3
    <2>5. CASE ClientLeaves(r)
      <3>1. req' = [req EXCEPT ![r].client = "gone"] /\ "gone" \in Client
        BY <2>5 DEF ClientLeaves, Client
      <3>2. req' \in [Requests -> Req]
        BY <1>1, <3>1 DEF Req
      <3>3. AskersOK'
        BY <1>1, <3>1 DEF AskersOK, Req
      <3> QED BY <3>2, <3>3
    <2> QED BY <2>1, <2>2, <2>3, <2>4, <2>5 DEF MissingToken, WhoAmIFails, GiveUp, TransferDone,
                                              TransferFails
  <1> QED BY <1>1, <1>2, <1>3, <1>4, CoreFrame DEF Core, Types

\* Every step keeps the core invariant, and grants no access past its end.
LEMMA CoreStep ==
    ASSUME Core, AccessEnds, [Next]_vars
    PROVE  Core' /\ AccessEnds'
  <1>1. CASE Next
    <2>1. ASSUME NEW r \in Requests, NEW kind \in Hub, NEW token \in Callers,
                 CacheHit(r, kind, token) \/ CacheMiss(r, kind, token) \/ NoUpstream(r, kind, token)
          PROVE  Core' /\ AccessEnds'
      BY <2>1, HubStep
    <2>2. ASSUME NEW r \in Requests, NEW kind \in CAS, NEW x \in minted, CASRequest(r, kind, x)
          PROVE  Core' /\ AccessEnds'
      BY <2>2, CASStep
    <2>3. ASSUME NEW r \in Requests, NEW u \in urls, DataRequest(r, u)
          PROVE  Core' /\ AccessEnds'
      BY <2>3, DataStep
    <2>4. ASSUME NEW r \in Requests, CachePut(r)
          PROVE  Core' /\ AccessEnds'
      BY <2>4, PutStep
    <2>5. ASSUME NEW r \in Requests,
                 \/ \E kind \in Hub : MissingToken(r, kind)
                 \/ Resolve(r) \/ WhoAmI(r) \/ WhoAmIUnavailable(r) \/ WhoAmIFails(r)
                 \/ Acquire(r) \/ GiveUp(r) \/ TransferDone(r) \/ TransferFails(r) \/ ClientLeaves(r)
          PROVE  Core' /\ AccessEnds'
      BY <2>5, PlainStep
    <2>6. ASSUME Shutdown \/ Tick \/ \E t \in Tokens : Revoke(t)
          PROVE  Core' /\ AccessEnds'
      <3>a. Silent /\ UNCHANGED <<entries, req, minted, urls, upstream>>
        BY <2>6 DEF Shutdown, Tick, Revoke
      <3>b. now' \in {now, now + 1} /\ now' \in 0..MaxTime
        <4>1. CASE Tick
          BY <4>1, BoundsAssumption DEF Tick, Core, Types
        <4>2. CASE now' = now
          BY <4>2 DEF Core, Types
        <4> QED BY <2>6, <4>1, <4>2 DEF Shutdown, Revoke
      <3>c. vouched' \subseteq vouched
        BY <2>6 DEF Shutdown, Tick, Revoke
      <3>d. stopping' \in BOOLEAN
        BY <2>6, Zenon DEF Shutdown, Tick, Revoke, Core, Types
      <3>1. /\ Silent /\ UNCHANGED <<entries, req, minted, urls, upstream>>
            /\ now' \in {now, now + 1} /\ now \in 0..MaxTime /\ now' \in 0..MaxTime /\ MaxTime \in Nat
            /\ vouched' \subseteq vouched /\ stopping' \in BOOLEAN
        BY <3>a, <3>b, <3>c, <3>d, BoundsAssumption, Zenon DEF Core, Types
      <3>2. spent' \in [Limited -> Nat] /\ \A w \in Limited : spent'[w] <= Limit[w]
        BY <2>6, SpendType DEF Shutdown, Tick, Revoke, Core, Types, Limited
      <3>3. last' \in Outcome /\ AccessEnds'
        BY <3>1, SilentType DEF Core
      <3>4. req' \in [Requests -> Req] /\ AskersOK'
        BY <3>1 DEF Core, Types, AskersOK
      <3>5. now <= now' /\ vouched' \subseteq Tokens
        BY <3>1 DEF Core, Types
      <3> QED BY <3>1, <3>2, <3>3, <3>4, <3>5, CoreFrame
    <2> QED BY <1>1, <2>1, <2>2, <2>3, <2>4, <2>5, <2>6 DEF Next, Step
  <1>2. CASE UNCHANGED vars
    <2>1. Types'
      BY <1>2 DEF vars, Core, Types
    <2>2. CredentialsOK'
      BY <1>2 DEF vars, Core, CredentialsOK, VerdictOK, TokenOK, URLOK
    <2>3. AskersOK' /\ AccessEnds'
      BY <1>2 DEF vars, Core, AskersOK, AccessEnds
    <2> QED BY <2>1, <2>2, <2>3 DEF Core
  <1> QED BY <1>1, <1>2

\* authz.go, xet/service.go: whoever is let in goes back to a 200 of upstream no older
\* than the lives of verdict, Xet token and signed URL together; whoever is
\* refused by the gate, to another answer within the life of a verdict, or to the
\* want of a token, of an upstream, or of its answer about a read token.
THEOREM AccessEnding == Spec => []AccessEnds
  <1>1. Init => Core /\ AccessEnds
    BY InitCore
  <1>2. Core /\ AccessEnds /\ [Next]_vars => (Core /\ AccessEnds)'
    BY CoreStep
  <1> QED BY <1>1, <1>2, PTL DEF Spec

-----------------------------------------------------------------------------
(* The transfer slots *)

\* The requests that transfer are finitely many.
LEMMA MovingFinite == ASSUME NEW d PROVE IsFiniteSet(Moving(d)) /\ Cardinality(Moving(d)) \in Nat
  <1>1. IsFiniteSet(Requests)
    BY TokensAssumption, FS_Interval DEF Requests
  <1>2. Moving(d) \in SUBSET Requests
    BY DEF Moving
  <1> QED BY <1>1, <1>2, FS_Subset, FS_CardinalityType

\* Where no request begins or ends its transfer, each direction keeps its own.
LEMMA MovingKept ==
    ASSUME NEW d,
           \A q \in Requests : \/ req'[q].at # "transfer" /\ req[q].at # "transfer"
                               \/ req'[q].at = req[q].at /\ req'[q].kind = req[q].kind
    PROVE  Moving(d)' = Moving(d)
  BY DEF Moving, At, Direction

\* A request that ends outside its transfer, or is answered as it comes in.
LEMMA DoneKept ==
    ASSUME Types, NEW r \in Requests, ~At(r, "transfer"), Done(r)
    PROVE  \A q \in Requests : \/ req'[q].at # "transfer" /\ req[q].at # "transfer"
                               \/ req'[q].at = req[q].at /\ req'[q].kind = req[q].kind
  <1>1. [NoReq EXCEPT !.at = "done"].at = "done"
    BY DEF NoReq
  <1>2. CASE At(r, "new")
    BY <1>2 DEF Done, Types
  <1>3. CASE ~At(r, "new")
    <2>1. req' = [req EXCEPT ![r] = [NoReq EXCEPT !.at = "done"]]
      BY <1>3 DEF Done
    <2>2. \A q \in Requests : q # r => req'[q] = req[q]
      BY <2>1 DEF Types
    <2>3. req'[r].at = "done"
      BY <1>1, <2>1 DEF Types
    <2> QED BY <2>2, <2>3 DEF At
  <1> QED BY <1>2, <1>3

\* A slot is taken with the transfer it is for.
LEMMA SlotsAcquire ==
    ASSUME Types, SlotsOK, NEW r \in Requests, Acquire(r)
    PROVE  SlotsOK'
  <1>0. PICK d \in Directions : d = Direction(req[r].kind)
    BY DEF Direction, Directions
  <1>1. Slots \in [Directions -> Nat]
    BY SlotsAssumption
  <1>2. /\ req[r].at = "slot" /\ req' = [req EXCEPT ![r].at = "transfer"]
        /\ Slots[d] > 0 => sem[d] < Slots[d]
        /\ sem' = IF Slots[d] > 0 THEN [sem EXCEPT ![d] = @ + 1] ELSE sem
    BY <1>0 DEF Acquire, At
  <1>3. /\ \A q \in Requests : q # r => req'[q] = req[q]
        /\ req'[r].at = "transfer" /\ req'[r].kind = req[r].kind
    BY <1>2 DEF Types, Req
  <1>4. Moving(d)' = Moving(d) \cup {r} /\ r \notin Moving(d)
    BY <1>0, <1>2, <1>3 DEF Moving, At, Direction
  <1>5. ASSUME NEW c \in Directions, c # d PROVE Moving(c)' = Moving(c)
    BY <1>0, <1>2, <1>3, <1>5 DEF Moving, At, Direction
  <1>6. Cardinality(Moving(d) \cup {r}) = Cardinality(Moving(d)) + 1
    BY <1>4, MovingFinite, FS_AddElement
  <1>7. sem \in [Directions -> Nat]
    BY DEF SlotsOK
  <1>8. sem' \in [Directions -> Nat]
    BY <1>1, <1>2, <1>7
  <1>9. ASSUME NEW c \in Directions
        PROVE  IF Slots[c] > 0 THEN sem'[c] = Cardinality(Moving(c)') /\ sem'[c] <= Slots[c]
                               ELSE sem'[c] = 0
    <2>1. CASE c = d
      <3>1. CASE Slots[d] > 0
        <4>1. sem[d] = Cardinality(Moving(d)) /\ sem[d] \in Nat /\ Slots[d] \in Nat
          BY <1>1, <1>7, <3>1 DEF SlotsOK
        <4>2. sem'[d] = sem[d] + 1 /\ sem[d] < Slots[d]
          BY <1>2, <1>7, <3>1
        <4>3. Cardinality(Moving(d)') = sem[d] + 1
          BY <1>4, <1>6, <4>1
        <4> QED BY <2>1, <3>1, <4>1, <4>2, <4>3
      <3>2. CASE ~(Slots[d] > 0)
        BY <1>2, <2>1, <3>2 DEF SlotsOK
      <3> QED BY <3>1, <3>2
    <2>2. CASE c # d
      <3>1. sem'[c] = sem[c] /\ Moving(c)' = Moving(c)
        BY <1>1, <1>2, <1>5, <1>7, <2>2
      <3> QED BY <3>1 DEF SlotsOK
    <2> QED BY <2>1, <2>2
  <1> QED BY <1>8, <1>9 DEF SlotsOK

\* The deferred release goes with the end of the transfer.
LEMMA SlotsRelease ==
    ASSUME Types, SlotsOK, NEW r \in Requests, At(r, "transfer"), Release(r), Done(r)
    PROVE  SlotsOK'
  <1>0. PICK d \in Directions : d = Direction(req[r].kind)
    BY DEF Direction, Directions
  <1>1. Slots \in [Directions -> Nat]
    BY SlotsAssumption
  <1>2. sem' = IF Slots[d] > 0 THEN [sem EXCEPT ![d] = @ - 1] ELSE sem
    BY <1>0 DEF Release
  <1>3. /\ \A q \in Requests : q # r => req'[q] = req[q]
        /\ req'[r].at = "done"
    <2>1. [NoReq EXCEPT !.at = "done"].at = "done"
      BY DEF NoReq
    <2>2. req' = [req EXCEPT ![r] = [NoReq EXCEPT !.at = "done"]]
      BY DEF Done, At
    <2> QED BY <2>1, <2>2 DEF Types
  <1>4. Moving(d)' = Moving(d) \ {r} /\ r \in Moving(d)
    BY <1>0, <1>3 DEF Moving, At, Direction
  <1>5. ASSUME NEW c \in Directions, c # d PROVE Moving(c)' = Moving(c)
    BY <1>0, <1>3, <1>5 DEF Moving, At, Direction
  <1>6. Cardinality(Moving(d) \ {r}) = Cardinality(Moving(d)) - 1
    BY <1>4, MovingFinite, FS_RemoveElement
  <1>7. sem \in [Directions -> Nat]
    BY DEF SlotsOK
  <1>n. Cardinality(Moving(d)') \in Nat
    BY <1>4, MovingFinite, FS_RemoveElement, FS_CardinalityType
  <1>8. Slots[d] > 0 => sem[d] - 1 \in Nat
    BY <1>1, <1>4, <1>6, <1>7, <1>n DEF SlotsOK
  <1>9. sem' \in [Directions -> Nat]
    BY <1>1, <1>2, <1>7, <1>8
  <1>10. ASSUME NEW c \in Directions
         PROVE  IF Slots[c] > 0 THEN sem'[c] = Cardinality(Moving(c)') /\ sem'[c] <= Slots[c]
                                ELSE sem'[c] = 0
    <2>1. CASE c = d
      BY <1>1, <1>2, <1>4, <1>6, <1>7, <1>8, <2>1 DEF SlotsOK
    <2>2. CASE c # d
      <3>1. sem'[c] = sem[c] /\ Moving(c)' = Moving(c)
        BY <1>1, <1>2, <1>5, <1>7, <2>2
      <3> QED BY <3>1 DEF SlotsOK
    <2> QED BY <2>1, <2>2
  <1> QED BY <1>9, <1>10 DEF SlotsOK

\* Every other step leaves the slots and the transfers alone.
LEMMA SlotsStep ==
    ASSUME Types, SlotsOK, [Next]_vars
    PROVE  SlotsOK'
  <1> DEFINE Kept == \A q \in Requests : \/ req'[q].at # "transfer" /\ req[q].at # "transfer"
                                         \/ req'[q].at = req[q].at /\ req'[q].kind = req[q].kind
  <1>0. ASSUME Kept, UNCHANGED sem PROVE SlotsOK'
    <2>1. \A d : Moving(d)' = Moving(d)
      BY <1>0, MovingKept
    <2> QED BY <1>0, <2>1 DEF SlotsOK
  <1>1. ASSUME NEW r \in Requests, ~At(r, "transfer"), Done(r) PROVE Kept
    BY <1>1, DoneKept
  <1>2. ASSUME NEW r \in Requests, NEW kind, NEW verdict, NEW proof, ~At(r, "transfer"),
               Decide(r, kind, verdict, proof)
        PROVE  Kept
    <2>1. CASE Done(r)
      BY <1>1, <1>2, <2>1
    <2>2. CASE ~Done(r)
      <3>1. req' = [req EXCEPT ![r] = [kind |-> kind, token |-> NoToken, at |-> "slot",
                                       status |-> 503, client |-> req[r].client]]
        BY <1>2, <2>2 DEF Decide
      <3>2. req'[r].at = "slot" /\ \A q \in Requests : q # r => req'[q] = req[q]
        BY <3>1 DEF Types
      <3> QED BY <1>2, <3>2 DEF At
    <2> QED BY <2>1, <2>2
  <1>3. ASSUME NEW r \in Requests, NEW kind \in Hub, NEW token \in Callers,
               CacheHit(r, kind, token)
        PROVE  Kept /\ UNCHANGED sem
    BY <1>2, <1>3 DEF CacheHit, HubRequest, Arrives, At
  <1>4. ASSUME NEW r \in Requests, NEW kind \in Hub, NEW token \in Callers,
               CacheMiss(r, kind, token)
        PROVE  Kept /\ UNCHANGED sem
    <2>1. /\ req[r].at = "new" /\ UNCHANGED sem
          /\ req' = [req EXCEPT ![r].kind = kind, ![r].token = token, ![r].at = "ask"]
      BY <1>4 DEF CacheMiss, HubRequest, Arrives, At
    <2>2. req'[r].at = "ask" /\ \A q \in Requests : q # r => req'[q] = req[q]
      BY <2>1 DEF Types, Req
    <2> QED BY <2>1, <2>2
  <1>5. ASSUME NEW r \in Requests, NEW kind \in CAS, NEW x \in minted, CASRequest(r, kind, x)
        PROVE  Kept /\ UNCHANGED sem
    BY <1>1, <1>5 DEF CASRequest, Arrives, At
  <1>6. ASSUME NEW r \in Requests, NEW u \in urls, DataRequest(r, u)
        PROVE  Kept /\ UNCHANGED sem
    BY <1>1, <1>6 DEF DataRequest, Arrives, At
  <1>7. ASSUME NEW r \in Requests, Resolve(r) PROVE Kept /\ UNCHANGED sem
    <2>1. /\ req[r].at = "new" /\ UNCHANGED sem
          /\ req' = [req EXCEPT ![r].kind = "resolve", ![r].at = "slot"]
      BY <1>7 DEF Resolve, Arrives, At
    <2>2. req'[r].at = "slot" /\ \A q \in Requests : q # r => req'[q] = req[q]
      BY <2>1 DEF Types, Req
    <2> QED BY <2>1, <2>2
  <1>8. ASSUME NEW r \in Requests, WhoAmI(r) \/ WhoAmIUnavailable(r) PROVE Kept /\ UNCHANGED sem
    <2>1. PICK status :
             /\ req[r].at = "ask" /\ UNCHANGED sem
             /\ req' = [req EXCEPT ![r].at = "put", ![r].status = status]
      BY <1>8 DEF WhoAmI, WhoAmIUnavailable, At
    <2>2. req'[r].at = "put" /\ \A q \in Requests : q # r => req'[q] = req[q]
      BY <2>1 DEF Types, Req
    <2> QED BY <2>1, <2>2
  <1>9. ASSUME NEW r \in Requests,
               \/ WhoAmIFails(r) \/ GiveUp(r) \/ \E kind \in Hub : MissingToken(r, kind)
               \/ \E kind \in Hub, token \in Callers : NoUpstream(r, kind, token)
        PROVE  Kept /\ UNCHANGED sem
    <2>1. ~At(r, "transfer") /\ Done(r) /\ UNCHANGED sem
      BY <1>9 DEF WhoAmIFails, GiveUp, MissingToken, NoUpstream, HubRequest, Arrives, At
    <2> QED BY <1>1, <2>1
  <1>10. ASSUME NEW r \in Requests, CachePut(r) PROVE Kept /\ UNCHANGED sem
    <2>1. /\ ~At(r, "transfer") /\ UNCHANGED sem
          /\ \E kind, verdict, proof : Decide(r, kind, verdict, proof)
      BY <1>10 DEF CachePut, At
    <2> QED BY <1>2, <2>1
  <1>11. ASSUME NEW r \in Requests, ClientLeaves(r) PROVE Kept /\ UNCHANGED sem
    <2>1. req' = [req EXCEPT ![r].client = "gone"] /\ UNCHANGED sem
      BY <1>11 DEF ClientLeaves
    <2>2. \A q \in Requests : req'[q].at = req[q].at /\ req'[q].kind = req[q].kind
      BY <2>1 DEF Types, Req
    <2> QED BY <2>1, <2>2
  <1>12. ASSUME NEW r \in Requests, TransferDone(r) \/ TransferFails(r) PROVE SlotsOK'
    BY <1>12, SlotsRelease DEF TransferDone, TransferFails
  <1>13. CASE Shutdown \/ Tick \/ \E t \in Tokens : Revoke(t)
    <2>1. UNCHANGED <<req, sem>>
      BY <1>13 DEF Shutdown, Tick, Revoke
    <2> QED BY <1>0, <2>1
  <1>14. CASE UNCHANGED vars
    BY <1>0, <1>14 DEF vars
  <1> HIDE DEF Kept
  <1> QED
    BY <1>0, <1>3, <1>4, <1>5, <1>6, <1>7, <1>8, <1>9, <1>10, <1>11, <1>12, <1>13, <1>14,
       SlotsAcquire DEF Next, Step

\* At the start no slot is taken.
LEMMA SlotsInit == Init => SlotsOK
  <1> SUFFICES ASSUME Init PROVE SlotsOK
    OBVIOUS
  <1>1. sem = [d \in Directions |-> 0] /\ \A r \in Requests : req[r].at = "new"
    BY DEF Init, NoReq
  <1>2. \A d : Moving(d) = {}
    BY <1>1 DEF Moving, At
  <1> QED BY <1>1, <1>2, FS_EmptySet, SlotsAssumption DEF SlotsOK

\* The invariant the theorems about slots and types share.
LEMMA SlotsInvariant == Spec => [](Core /\ SlotsOK)
  <1>1. Init => Core /\ AccessEnds /\ SlotsOK
    BY InitCore, SlotsInit
  <1>2. Core /\ AccessEnds /\ SlotsOK /\ [Next]_vars => (Core /\ AccessEnds /\ SlotsOK)'
    BY CoreStep, SlotsStep DEF Core
  <1> QED BY <1>1, <1>2, PTL DEF Spec

\* server.go acquireSlot, releaseSlot: whatever the order in which requests come,
\* wait, fail and lose their clients, the slots taken are those of the
\* requests that transfer, and within the limit.
THEOREM SlotsCounted == Spec => []SlotsHeld
  <1>1. SlotsOK => SlotsHeld
    BY DEF SlotsOK, SlotsHeld, Moving
  <1> QED BY <1>1, SlotsInvariant, PTL

\* server.go, authz.go, xet/service.go: every variable stays in its range; no
\* credential expires after its bound and no more slots are taken than there
\* are requests.
THEOREM TypeCorrect == Spec => []TypeOK
  <1>1. Core /\ SlotsOK => TypeOK
    <2> SUFFICES ASSUME Core, SlotsOK PROVE TypeOK
      OBVIOUS
    <2>1. sem \in [Directions -> 0..Cardinality(Requests)]
      <3>1. IsFiniteSet(Requests) /\ Cardinality(Requests) \in Nat
        BY TokensAssumption, FS_Interval, FS_CardinalityType DEF Requests
      <3>2. ASSUME NEW d \in Directions PROVE Cardinality(Moving(d)) <= Cardinality(Requests)
        <4>1. Moving(d) \in SUBSET Requests
          BY DEF Moving
        <4> QED BY <3>1, <4>1, FS_Subset
      <3>3. ASSUME NEW d \in Directions PROVE sem[d] \in 0..Cardinality(Requests)
        BY <3>1, <3>2 DEF SlotsOK
      <3> QED BY <3>3 DEF SlotsOK
    <2> QED BY <2>1 DEF Core, Types, TypeOK
  <1> QED BY <1>1, SlotsInvariant, PTL

-----------------------------------------------------------------------------
(* The verdict cache *)

\* The entries are finitely many, which Cardinality needs.
CacheOK == IsFiniteSet(entries) /\ CacheBounded

\* put keeps one verdict per token and stays within one of the cap.
LEMMA PutBounded ==
    ASSUME CacheOK, NEW e, entries' = Put(entries, e)
    PROVE  CacheOK'
  <1> DEFINE S == {x \in entries : Cardinality(entries) <= MaxEntries /\ x.token # e.token}
  <1>1. entries' = S \cup {e}
    BY DEF Put
  <1>2. IsFiniteSet(S) /\ Cardinality(S) <= Cardinality(entries) /\ Cardinality(S) \in Nat
    <2>1. S \in SUBSET entries
      OBVIOUS
    <2> QED BY <2>1, FS_Subset, FS_CardinalityType DEF CacheOK
  <1>3. IsFiniteSet(entries') /\ Cardinality(entries') <= Cardinality(S) + 1
    <2> HIDE DEF S
    <2>1. /\ IsFiniteSet(S \cup {e})
          /\ Cardinality(S \cup {e}) = IF e \in S THEN Cardinality(S) ELSE Cardinality(S) + 1
      BY <1>2, FS_AddElement
    <2> QED BY <1>1, <1>2, <2>1
  <1>4. Cardinality(S) <= MaxEntries
    <2>1. CASE Cardinality(entries) <= MaxEntries
      <3>1. Cardinality(entries) \in Nat
        BY FS_CardinalityType DEF CacheOK
      <3> HIDE DEF S
      <3> QED BY <1>2, <2>1, <3>1, BoundsAssumption
    <2>2. CASE ~(Cardinality(entries) <= MaxEntries)
      <3>1. S = {}
        BY <2>2
      <3> HIDE DEF S
      <3> QED BY <3>1, FS_EmptySet, BoundsAssumption
    <2> QED BY <2>1, <2>2
  <1>5. Cardinality(entries') <= MaxEntries + 1
    <2>1. Cardinality(entries') \in Nat
      BY <1>3, FS_CardinalityType
    <2> HIDE DEF S
    <2> QED BY <1>2, <1>3, <1>4, <2>1, BoundsAssumption
  <1>6. \A a, b \in entries' : a.token = b.token => a = b
    BY <1>1 DEF CacheOK, CacheBounded
  <1> QED BY <1>3, <1>5, <1>6 DEF CacheOK, CacheBounded

\* Dropping entries keeps the cache within its bound.
LEMMA DropBounded ==
    ASSUME CacheOK, entries' \subseteq entries
    PROVE  CacheOK'
  <1>1. IsFiniteSet(entries') /\ Cardinality(entries') <= Cardinality(entries)
    BY FS_Subset DEF CacheOK
  <1>2. Cardinality(entries) \in Nat /\ Cardinality(entries') \in Nat
    BY <1>1, FS_CardinalityType DEF CacheOK
  <1> QED BY <1>1, <1>2, BoundsAssumption DEF CacheOK, CacheBounded

\* authz.go put: however many requests are between their get and their put,
\* there is one verdict per token and at most one verdict past the cap.
THEOREM CacheLimited == Spec => []CacheBounded
  <1>1. Init => CacheOK
    BY FS_EmptySet, BoundsAssumption DEF Init, CacheOK, CacheBounded
  <1>2. CacheOK /\ [Next]_vars => CacheOK'
    <2> SUFFICES ASSUME CacheOK, [Next]_vars PROVE CacheOK'
      OBVIOUS
    <2>1. ASSUME NEW r \in Requests, CachePut(r) PROVE CacheOK'
      BY <2>1, PutBounded DEF CachePut
    <2>2. CASE entries' \subseteq entries
      BY <2>2, DropBounded
    <2>3. ASSUME NEW r \in Requests, NEW kind \in Hub, NEW token \in Callers,
                 CacheHit(r, kind, token) \/ CacheMiss(r, kind, token) \/ NoUpstream(r, kind, token)
          PROVE  entries' \subseteq entries
      BY <2>3 DEF CacheHit, CacheMiss, NoUpstream
    <2>4. ASSUME NEW r \in Requests,
                 \/ Resolve(r) \/ WhoAmI(r) \/ WhoAmIUnavailable(r) \/ WhoAmIFails(r) \/ Acquire(r)
                 \/ GiveUp(r) \/ TransferDone(r) \/ TransferFails(r) \/ ClientLeaves(r)
                 \/ \E kind \in CAS, x \in minted : CASRequest(r, kind, x)
                 \/ \E u \in urls : DataRequest(r, u)
                 \/ \E kind \in Hub : MissingToken(r, kind)
          PROVE  entries' = entries
      BY <2>4 DEF MissingToken, Resolve, WhoAmI, WhoAmIUnavailable, WhoAmIFails, Acquire, GiveUp, TransferDone,
                  TransferFails, ClientLeaves, CASRequest, DataRequest
    <2>5. CASE Tick \/ Shutdown \/ (\E t \in Tokens : Revoke(t)) \/ UNCHANGED vars
      BY <2>2, <2>5 DEF Tick, Shutdown, Revoke, vars
    <2> QED BY <2>1, <2>2, <2>3, <2>4, <2>5, Zenon DEF Next, Step
  <1>3. CacheOK => CacheBounded
    BY DEF CacheOK
  <1> QED BY <1>1, <1>2, <1>3, PTL DEF Spec

=============================================================================
