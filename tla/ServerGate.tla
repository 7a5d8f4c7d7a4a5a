----------------------------- MODULE ServerGate ----------------------------
(***************************************************************************)
(* What stands between a request and the relay in internal/server: the     *)
(* passthrough token check with its verdict cache (authz.go), the transfer *)
(* slots (server.go), the Xet credentials minted behind the check and      *)
(* honoured by the CAS endpoints (xet/service.go), and the shutdown of Run.*)
(*                                                                         *)
(* Time is a clock that ticks between any two steps.  Every credential     *)
(* carries, as history, the upstream answer it goes back to: `proof`.      *)
(* Requests are numbered in the order in which they come in.               *)
(***************************************************************************)
EXTENDS Naturals, FiniteSets, Functions

CONSTANTS
    N,          \* bound on HTTP requests
    Tokens,     \* Hub tokens
    NoToken,    \* no Authorization header
    Slots,      \* Limits.MaxConcurrentUploads and ...Downloads; 0 is no limit
    TTL,        \* Auth.CacheTTL
    TokenTTL,   \* life of a Xet token
    DataURLTTL, \* life of a signed data URL
    MaxEntries, \* 10_000 in put
    MaxTime,    \* bound on the clock
    Limit,      \* bounds on failures, clients that leave and revocations
    MaxUpsets   \* bound on all of these together

Requests == 1..N
Directions == {"upload", "download"}
Limited == {"failure", "leave", "revoke"}

ASSUME TTLAssumption == TTL \in Nat /\ TokenTTL \in Nat /\ DataURLTTL \in Nat
ASSUME BoundsAssumption == MaxEntries \in Nat /\ MaxTime \in Nat
                           /\ Limit \in [Limited -> Nat] /\ MaxUpsets \in Nat
ASSUME SlotsAssumption == Slots \in [Directions -> Nat]
ASSUME TokensAssumption == NoToken \notin Tokens /\ N \in Nat

VARIABLES
    now,        \* the clock
    vouched,    \* tokens upstream accepts
    entries,    \* tokenValidator.entries: a set of verdicts, one per token
    req,        \* per request: what it asks and where it is
    last,       \* history: the answer given in the last step, and why
    sem,        \* slots taken, per direction
    minted,     \* Xet tokens clients hold
    urls,       \* signed data URLs clients hold
    stopping,   \* Run's ctx is cancelled
    upstream,   \* an upstream endpoint is configured: s.upstream is not nil
    spent

vars == <<now, vouched, entries, req, last, sem, minted, urls, stopping, upstream, spent>>

-----------------------------------------------------------------------------
Callers == Tokens \cup {NoToken}
Answers == {200, 401, 503}      \* statuses of upstream's whoami
Proof == [said: Answers, since: 0..MaxTime]

Verdict == [token: Callers, verdict: {"accept", "reject"}, expires: 0..(MaxTime + TTL), proof: Proof]
XetToken == [scope: {"read", "write"}, exp: 0..(MaxTime + TokenTTL), proof: Proof]
DataURL == [exp: 0..(MaxTime + DataURLTTL), proof: Proof]

\* Endpoints behind authorizeWrite or validateToken, behind verifyBearer,
\* behind a signature, and open ones.
Hub == {"lfs_upload", "write_token", "read_token"}
CAS == {"xorb", "reconstruction"}
Kinds == Hub \cup CAS \cup {"data", "resolve"}

Direction(kind) == IF kind = "resolve" THEN "download" ELSE "upload"
Client == {"here", "gone"}
Points == {"new", "ask", "put", "slot", "transfer", "done"}
Req == [kind: Kinds, token: Callers, at: Points, status: Answers, client: Client]
NoReq == [kind |-> "resolve", token |-> NoToken, at |-> "new", status |-> 503, client |-> "here"]

Outcomes == {"admitted", "unauthorized", "badgateway", "unavailable",
             "served", "failed"}
Reasons == {"answer", "no token", "no upstream", "no answer"}
Outcome == [kind: Kinds, what: Outcomes \cup {"silent"}, why: Reasons, said: Answers,
            age: 0..MaxTime, client: Client]

NoOutcome == [kind |-> "resolve", what |-> "silent", why |-> "answer", said |-> 503, age |-> 0,
              client |-> "here"]

At(r, point) == req[r].at = point
Arrives(r) == At(r, "new") /\ ~stopping /\ \A q \in Requests : q < r => ~At(q, "new")
\* A request answered in the step it comes in is not counted.
Done(r) == req' = [req EXCEPT ![r] = IF At(r, "new") THEN @ ELSE [NoReq EXCEPT !.at = "done"]]

\* A credential let the request in, or did not.
Judge(r, kind, ok, proof) ==
    last' = [kind |-> kind, what |-> IF ok THEN "admitted" ELSE "unauthorized", why |-> "answer",
             said |-> proof.said, age |-> now - proof.since, client |-> req[r].client]
Answer(r, what) ==
    last' = [NoOutcome EXCEPT !.kind = req[r].kind, !.what = what, !.client = req[r].client]
\* The gate refuses without an answer of upstream.
Refuse(r, kind, why) ==
    last' = [NoOutcome EXCEPT !.kind = kind, !.what = "unauthorized", !.why = why,
                              !.client = req[r].client]
Silent == last' = NoOutcome

Spend(what) == /\ spent[what] < Limit[what]
               /\ SumFunction(spent) < MaxUpsets
               /\ spent' = [spent EXCEPT ![what] = @ + 1]

\* r.Context(): BaseContext is the context whose end stops the server.
Cancelled(r) == req[r].client = "gone" \/ stopping

Init ==
    /\ now = 0
    /\ vouched = Tokens
    /\ entries = {} /\ minted = {} /\ urls = {}
    /\ req = [r \in Requests |-> NoReq]
    /\ last = NoOutcome
    /\ sem = [d \in Directions |-> 0]
    /\ stopping = FALSE /\ upstream \in BOOLEAN
    /\ spent = [w \in Limited |-> 0]

-----------------------------------------------------------------------------
(* authorizeWrite and validateToken, Auth.Mode "passthrough" *)

\* The server keeps no record of what it mints, so one credential of each
\* sort in the clients' hands is as good as many: they keep the new or the old.
Holding(held, new) == {{new}} \cup IF held = {} THEN {} ELSE {held}

MintToken(kind, proof) ==
    [scope |-> IF kind = "write_token" THEN "write" ELSE "read",
     exp |-> now + TokenTTL, proof |-> proof]

\* What the caller of validateToken does with a verdict: refuse, wait for a
\* slot, or mint a token.
Decide(r, kind, verdict, proof) ==
    /\ Judge(r, kind, verdict = "accept", proof)
    /\ IF verdict = "accept" /\ kind = "lfs_upload"
       THEN req' = [req EXCEPT ![r] = [kind |-> kind, token |-> NoToken, at |-> "slot",
                                       status |-> 503, client |-> @.client]]
       ELSE Done(r)
    /\ IF verdict = "accept" /\ kind \in {"write_token", "read_token"}
       THEN minted' \in Holding(minted, MintToken(kind, proof)) ELSE UNCHANGED minted

\* Mutant: a verdict is served past its expiry.
GetExpired(token) == {e \in entries : e.token = token}

\* tokens.get: an entry until its expiry, the instant included.
Get(token) == {e \in entries : e.token = token /\ now <= e.expires}

Expired(token) == {e \in entries : e.token = token /\ now > e.expires}

\* authorizeWrite refuses a missing token itself; for a read token validateToken is
\* asked about it.
MissingToken(r, kind) ==
    /\ Arrives(r)
    /\ kind # "read_token"
    /\ Refuse(r, kind, "no token")
    /\ Done(r)
    /\ UNCHANGED <<now, vouched, entries, sem, minted, urls, stopping, upstream, spent>>

\* A request to an endpoint the Hub token guards, on its way into validateToken.
HubRequest(r, kind, token) ==
    /\ Arrives(r)
    /\ token # NoToken \/ kind = "read_token"
    /\ UNCHANGED <<now, vouched, sem, urls, stopping, upstream, spent>>

CacheHit(r, kind, token) ==
    /\ HubRequest(r, kind, token)
    /\ \E e \in Get(token) : Decide(r, kind, e.verdict, e.proof)
    /\ UNCHANGED entries

\* An expired entry is deleted, and upstream asked.
CacheMiss(r, kind, token) ==
    /\ HubRequest(r, kind, token)
    /\ upstream
    /\ Get(token) = {}
    /\ entries' = entries \ Expired(token)
    /\ req' = [req EXCEPT ![r].kind = kind, ![r].token = token, ![r].at = "ask"]
    /\ Silent
    /\ UNCHANGED <<minted>>

\* With nobody to ask every token is refused; nothing is cached.
NoUpstream(r, kind, token) ==
    /\ HubRequest(r, kind, token)
    /\ ~upstream
    /\ Get(token) = {}
    /\ entries' = entries \ Expired(token)
    /\ Refuse(r, kind, "no upstream")
    /\ Done(r)
    /\ UNCHANGED minted

\* upstream.WhoAmI answers.
WhoAmI(r) ==
    /\ At(r, "ask")
    /\ req' = [req EXCEPT ![r].at = "put",
                          ![r].status = IF req[r].token \in vouched THEN 200 ELSE 401]
    /\ Silent
    /\ UNCHANGED <<now, vouched, entries, sem, minted, urls, stopping, upstream, spent>>

\* It answers with another status, which is a verdict too.
WhoAmIUnavailable(r) ==
    /\ At(r, "ask")
    /\ Spend("failure")
    /\ req' = [req EXCEPT ![r].at = "put", ![r].status = 503]
    /\ Silent
    /\ UNCHANGED <<now, vouched, entries, sem, minted, urls, stopping, upstream>>

\* No answer: nothing is cached.  handleXetToken takes it for a refusal.
WhoAmIFails(r) ==
    /\ At(r, "ask")
    /\ IF Cancelled(r) THEN UNCHANGED spent ELSE Spend("failure")
    /\ IF req[r].kind = "read_token" THEN Refuse(r, "read_token", "no answer")
                                     ELSE Answer(r, "badgateway")
    /\ Done(r)
    /\ UNCHANGED <<now, vouched, entries, sem, minted, urls, stopping, upstream>>

\* Mutant: the cap is forgotten.
PutUncapped(old, e) == {x \in old : x.token # e.token} \cup {e}

\* tokens.put: past the cap everything is evicted.
Put(old, e) ==
    {x \in old : Cardinality(old) <= MaxEntries /\ x.token # e.token} \cup {e}

Vouches(status) == status = 200

CachePut(r) ==
    LET verdict == IF Vouches(req[r].status) THEN "accept" ELSE "reject"
        proof == [said |-> req[r].status, since |-> now]
    IN /\ At(r, "put")
       /\ entries' = Put(entries, [token |-> req[r].token, verdict |-> verdict,
                                   expires |-> now + TTL, proof |-> proof])
       /\ Decide(r, req[r].kind, verdict, proof)
       /\ UNCHANGED <<now, vouched, sem, urls, stopping, upstream, spent>>

-----------------------------------------------------------------------------
(* Xet credentials *)

\* verifyBearer: a token of this process, for the scope, until its expiry.
VerifyBearer(x, needScope) ==
    /\ now <= x.exp
    /\ needScope = "write" => x.scope = "write"

SignedDataURL(proof) == [exp |-> now + DataURLTTL, proof |-> proof]

\* A xorb or shard upload, or a reconstruction, whose answer has data URLs.
CASRequest(r, kind, x) ==
    LET ok == VerifyBearer(x, IF kind = "xorb" THEN "write" ELSE "read") IN
    /\ Arrives(r)
    /\ Judge(r, kind, ok, x.proof)
    /\ Done(r)
    /\ IF ok /\ kind = "reconstruction"
       THEN urls' \in Holding(urls, SignedDataURL(x.proof)) ELSE UNCHANGED urls
    /\ UNCHANGED <<now, vouched, entries, sem, minted, stopping, upstream, spent>>

\* HandleXorbData.
DataRequest(r, u) ==
    /\ Arrives(r)
    /\ Judge(r, "data", now <= u.exp, u.proof)
    /\ Done(r)
    /\ UNCHANGED <<now, vouched, entries, sem, minted, urls, stopping, upstream, spent>>

-----------------------------------------------------------------------------
(* Transfer slots: handleResolve and handleLFSUpload *)

\* GET resolve, the entry found (PullThrough).
Resolve(r) ==
    /\ Arrives(r)
    /\ req' = [req EXCEPT ![r].kind = "resolve", ![r].at = "slot"]
    /\ Silent
    /\ UNCHANGED <<now, vouched, entries, sem, minted, urls, stopping, upstream, spent>>

\* Mutant: with no limit the channel is nil, and sending on it blocks for ever.
AcquireFromNil(r) ==
    LET d == Direction(req[r].kind) IN
    /\ At(r, "slot")
    /\ sem[d] < Slots[d]
    /\ sem' = [sem EXCEPT ![d] = @ + 1]
    /\ req' = [req EXCEPT ![r].at = "transfer"]
    /\ Silent
    /\ UNCHANGED <<now, vouched, entries, minted, urls, stopping, upstream, spent>>

\* acquireSlot: a slot is free, or there is no limit.
Acquire(r) ==
    LET d == Direction(req[r].kind) IN
    /\ At(r, "slot")
    /\ Slots[d] > 0 => sem[d] < Slots[d]
    /\ sem' = IF Slots[d] > 0 THEN [sem EXCEPT ![d] = @ + 1] ELSE sem
    /\ req' = [req EXCEPT ![r].at = "transfer"]
    /\ Silent
    /\ UNCHANGED <<now, vouched, entries, minted, urls, stopping, upstream, spent>>

\* acquireSlot: the context ended; select may take either way.
GiveUp(r) ==
    LET d == Direction(req[r].kind) IN
    /\ At(r, "slot")
    /\ Cancelled(r) /\ Slots[d] > 0
    /\ Answer(r, "unavailable")
    /\ Done(r)
    /\ UNCHANGED <<now, vouched, entries, sem, minted, urls, stopping, upstream, spent>>

\* The deferred releaseSlot.
Release(r) ==
    LET d == Direction(req[r].kind) IN
    sem' = IF Slots[d] > 0 THEN [sem EXCEPT ![d] = @ - 1] ELSE sem

TransferDone(r) ==
    /\ At(r, "transfer")
    /\ Release(r)
    /\ Answer(r, "served")
    /\ Done(r)
    /\ UNCHANGED <<now, vouched, entries, minted, urls, stopping, upstream, spent>>

\* Mutant: the slot is released on the way that serves only.
TransferFailsHolding(r) ==
    /\ At(r, "transfer")
    /\ IF Cancelled(r) THEN UNCHANGED spent ELSE Spend("failure")
    /\ Answer(r, "failed")
    /\ Done(r)
    /\ UNCHANGED <<now, vouched, entries, sem, minted, urls, stopping, upstream>>

\* OpenFile or PutLFSBlob returns an error.
TransferFails(r) ==
    /\ At(r, "transfer")
    /\ IF Cancelled(r) THEN UNCHANGED spent ELSE Spend("failure")
    /\ Release(r)
    /\ Answer(r, "failed")
    /\ Done(r)
    /\ UNCHANGED <<now, vouched, entries, minted, urls, stopping, upstream>>

-----------------------------------------------------------------------------
(* Environment *)

Tick ==
    /\ now < MaxTime
    /\ now' = now + 1
    /\ Silent
    /\ UNCHANGED <<vouched, entries, req, sem, minted, urls, stopping, upstream, spent>>

Revoke(t) ==
    /\ t \in vouched
    /\ Spend("revoke")
    /\ vouched' = vouched \ {t}
    /\ Silent
    /\ UNCHANGED <<now, entries, req, sem, minted, urls, stopping, upstream>>

ClientLeaves(r) ==
    /\ req[r].at \in {"ask", "slot", "transfer"} /\ req[r].client = "here"
    /\ Spend("leave")
    /\ req' = [req EXCEPT ![r].client = "gone"]
    /\ Silent
    /\ UNCHANGED <<now, vouched, entries, sem, minted, urls, stopping, upstream>>

\* Run: no request is accepted any more and every context ends; Run returns
\* when the requests under way have (or after 30 s).
Shutdown ==
    /\ ~stopping
    /\ stopping' = TRUE
    /\ Silent
    /\ UNCHANGED <<now, vouched, entries, req, sem, minted, urls, upstream, spent>>

-----------------------------------------------------------------------------
Step(r) ==
    \/ WhoAmI(r) \/ CachePut(r)
    \/ Acquire(r) \/ GiveUp(r) \/ TransferDone(r)

Next ==
    \/ \E r \in Requests :
          \/ \E kind \in Hub : MissingToken(r, kind)
          \/ \E kind \in Hub, token \in Callers :
                \/ CacheHit(r, kind, token) \/ CacheMiss(r, kind, token)
                \/ NoUpstream(r, kind, token)
          \/ \E kind \in CAS, x \in minted : CASRequest(r, kind, x)
          \/ \E u \in urls : DataRequest(r, u)
          \/ Resolve(r)
          \/ Step(r)
          \/ WhoAmIUnavailable(r) \/ WhoAmIFails(r) \/ TransferFails(r) \/ ClientLeaves(r)
    \/ \E t \in Tokens : Revoke(t)
    \/ Tick \/ Shutdown

Spec == Init /\ [][Next]_vars

\* A handler's goroutine runs on, upstream answers, and a client that holds a
\* slot sends or takes its bytes.  Nothing is assumed of clients that have
\* not begun, of the clock or of failures.
FairSpec == Spec /\ \A r \in Requests : WF_vars(Step(r))

-----------------------------------------------------------------------------
(* Properties *)

\* Every variable stays in its range.
TypeOK ==
    /\ now \in 0..MaxTime
    /\ vouched \subseteq Tokens
    /\ entries \subseteq Verdict
    /\ req \in [Requests -> Req] /\ last \in Outcome
    /\ sem \in [Directions -> 0..Cardinality(Requests)]
    /\ minted \subseteq XetToken /\ urls \subseteq DataURL
    /\ stopping \in BOOLEAN /\ upstream \in BOOLEAN
    /\ spent \in [Limited -> Nat] /\ \A w \in Limited : spent[w] <= Limit[w]

\* How long after upstream's answer an endpoint may still open.
Horizon(kind) == CASE kind \in Hub -> TTL
                   [] kind \in CAS -> TTL + TokenTTL
                   [] kind = "data" -> TTL + TokenTTL + DataURLTTL

\* authz.go, xet/service.go: access goes back to a 200 of upstream, along
\* verdict cache, Xet token and signed URL, and to one that was taken in no
\* longer ago than their lives together; a refusal of the gate goes back to
\* another answer within the life of a verdict, unless there was no answer: a write
\* came without a token, no upstream is configured, or it failed to answer about a
\* read token.
AccessEnds ==
    /\ last.what = "admitted" =>
          last.why = "answer" /\ last.said = 200 /\ last.age <= Horizon(last.kind)
    /\ last.what = "unauthorized" /\ last.kind \in Hub =>
          \/ last.why = "answer" /\ last.said # 200 /\ last.age <= TTL
          \/ last.why = "no token" /\ last.kind # "read_token"
          \/ last.why = "no upstream" /\ ~upstream
          \/ last.why = "no answer" /\ last.kind = "read_token"

\* authz.go put: one verdict per token, and never more of them than one past
\* the cap, however many requests are between their get and their put.
CacheBounded ==
    /\ Cardinality(entries) <= MaxEntries + 1
    /\ \A e, f \in entries : e.token = f.token => e = f

\* server.go: the slots taken are those of the requests that transfer, on
\* every way out of the handlers, and within the limit.
SlotsHeld ==
    \A d \in Directions : Slots[d] > 0 =>
       /\ sem[d] = Cardinality({r \in Requests : At(r, "transfer") /\ Direction(req[r].kind) = d})
       /\ sem[d] <= Slots[d]

\* server.go: a request that has come in is answered, also one that waits
\* for a slot, and also when the server is told to stop.
RequestsEnd == \A r \in Requests : ~At(r, "new") ~> At(r, "done")

\* server.go: a request is turned away for want of a slot only when its
\* client has left; one under way at the shutdown is served.  It is not
\* kept: README, section 6.
DrainsGracefully == last.what = "unavailable" => last.client = "gone"
=============================================================================
