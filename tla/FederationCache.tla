-------------------------- MODULE FederationCache --------------------------
(***************************************************************************)
(* The cached reads of phip.federation.FederationClient: fetch_meta,       *)
(* fetch_key_resource and resolve_key on top of _cached_json_get, called   *)
(* by several asyncio tasks that share one client, and clear_cache.        *)
(*                                                                         *)
(* The code runs without interruption between awaits; _cached_json_get has *)
(* one, the call to _json_get.  A call is therefore one step when the      *)
(* cache answers it and otherwise a step up to the await (StartMiss), a    *)
(* step of the authority (OriginServes) and a step after the await         *)
(* (FetchSucceeds or FetchFails).  How _json_get itself runs and fails is  *)
(* the subject of module JsonGet.                                          *)
(*                                                                         *)
(* A response body is represented by the number of the publication it is a *)
(* copy of, so that a state shows how old a cached body is.                *)
(***************************************************************************)
EXTENDS Integers, Sequences

CONSTANTS Tasks,                \* asyncio tasks sharing the client
          Urls,
          Documents,            \* what an authority may publish at a URL
          Anchors,              \* instants callers pass as `at`
          NoAnchor,             \* at=None
          MaxAges,              \* values of max-age, and NoMaxAge
          NoMaxAge,             \* a response without max-age
          NoWindow,             \* a JWK without (valid) not_before, not_after
          Overflow,             \* a JWK one of whose times has no counterpart in UTC
          NoEntry,              \* _cache has no entry for the URL
          DEFAULT_TTL_SECONDS,
          MAX_TTL_SECONDS,
          MaxTime,              \* bound: the clock stops here
          MaxPublications       \* bound: publications per URL

ASSUME TtlAssumption ==
  /\ DEFAULT_TTL_SECONDS \in Nat \ {0}
  /\ MAX_TTL_SECONDS \in Nat \ {0}
  /\ DEFAULT_TTL_SECONDS <= MAX_TTL_SECONDS

ASSUME MaxAgeAssumption == NoMaxAge \notin Nat /\ MaxAges \subseteq Nat \cup {NoMaxAge}

ASSUME AnchorAssumption == NoAnchor \notin Nat /\ Anchors \subseteq Nat

ASSUME DocumentAssumption ==
  /\ {NoWindow, Overflow} \cap [not_before : Nat, not_after : Nat] = {}
  /\ NoWindow # Overflow
  /\ Documents \subseteq
       [actor      : BOOLEAN,   \* a JSON object with object_type "actor"
        active     : BOOLEAN,   \* state is "active"
        attributes : {"keys",   \* phip:keys has kty OKP, crv Ed25519 and x
                      "no_keys", "not_a_mapping"},
        window     : [not_before : Nat, not_after : Nat] \cup {NoWindow, Overflow}]

ASSUME EntryAssumption == NoEntry \notin [version : Nat, expires_at : Nat]

ASSUME BoundAssumption == MaxTime \in Nat /\ MaxPublications \in Nat

VARIABLES clock,       \* time.monotonic(), in seconds
          published,   \* published[u]: what the authority has published at u
          cache,       \* _cache
          calls        \* calls[t]: the latest call of task t

vars == <<clock, published, cache, calls>>

Operations == {"json", "key"}   \* fetch_meta and fetch_key_resource; resolve_key

\* What _json_get raises: ValueError for nearly everything; but a body nested too
\* deeply for the parser, and a URL that httpx alone refuses, pass its clauses.
FetchFaults == {"ValueError", "RecursionError", "InvalidURL"}

Outcomes ==
  {"pending", "json", "key", "KeyExpired", "AttributeError", "OverflowError"} \cup FetchFaults
NoVersion == 0

-----------------------------------------------------------------------------
(* The clock and the cache *)

\* _parse_max_age: 0 when the header or the directive is absent.
ParseMaxAge(max_age) == IF max_age = NoMaxAge THEN 0 ELSE max_age

ClampTtl(seconds) ==
  IF seconds <= 0 THEN DEFAULT_TTL_SECONDS
  ELSE IF seconds > MAX_TTL_SECONDS THEN MAX_TTL_SECONDS ELSE seconds

\* The lifetime granted to a publication.
Ttl(publication) == ClampTtl(ParseMaxAge(publication.max_age))

\* The publication that call t was or is being given.
Given(t) == published[calls[t].url][calls[t].version]

\* Mutant of ExpiresAt: the lifetime counted from the arrival of the response.
ExpiresAtFromArrival(t) == clock + Ttl(Given(t))

\* The lifetime of t's response is counted from the start of t's call.
ExpiresAt(t) == calls[t].now + Ttl(Given(t))

Live(u, now) == cache[u] # NoEntry /\ cache[u].expires_at > now

-----------------------------------------------------------------------------
(* What a call makes of the body *)

\* Mutant of WindowOutcome: not_after is not compared.
WindowOutcomeNoExpiry(window, at) ==
  IF at = NoAnchor THEN "key"
  ELSE IF window = NoWindow THEN "ValueError"
  ELSE IF window = Overflow THEN "OverflowError"
  ELSE IF at < window.not_before THEN "KeyExpired" ELSE "key"

\* Mutant of WindowOutcome: a missing not_before goes to the date parser.
WindowOutcomeUnchecked(window, at) ==
  IF at = NoAnchor THEN "key"
  ELSE IF window = NoWindow THEN "TypeError"
  ELSE IF at < window.not_before \/ at > window.not_after THEN "KeyExpired" ELSE "key"

\* Mutant of WindowOutcome: a time that overflows is no limit.
WindowOutcomeUnlessOverflow(window, at) ==
  IF at = NoAnchor \/ window = Overflow THEN "key"
  ELSE IF window = NoWindow THEN "ValueError"
  ELSE IF at < window.not_before \/ at > window.not_after THEN "KeyExpired" ELSE "key"

\* _validate_jwk_window, for a JWK that has its key material.  A time that cannot be
\* converted to UTC raises what no clause catches.
WindowOutcome(window, at) ==
  IF at = NoAnchor THEN "key"
  ELSE IF window = NoWindow THEN "ValueError"
  ELSE IF window = Overflow THEN "OverflowError"
  ELSE IF at < window.not_before \/ at > window.not_after THEN "KeyExpired" ELSE "key"

\* What the call returns or raises once _cached_json_get has given it doc.
Outcome(op, doc, at) ==
  CASE op = "json" -> "json"
    [] op = "key" /\ ~(doc.actor /\ doc.active) -> "ValueError"
    [] op = "key" /\ doc.actor /\ doc.active ->
         CASE doc.attributes = "not_a_mapping" -> "AttributeError"
           [] doc.attributes = "no_keys" -> "ValueError"
           [] doc.attributes = "keys" -> WindowOutcome(doc.window, at)

-----------------------------------------------------------------------------
(* Actions *)

Idle(t) == calls[t].pc \in {"idle", "done"}

Init ==
  /\ clock = 0
  /\ published = [u \in Urls |-> <<>>]
  /\ cache = [u \in Urls |-> NoEntry]
  /\ \E u \in Urls :
       calls = [t \in Tasks |->
                  [pc |-> "idle", url |-> u, op |-> "json", at |-> NoAnchor,
                   now |-> 0, version |-> NoVersion, outcome |-> "pending"]]

\* A call answered from the cache: no await, so it is atomic.  resolve_key
\* checks the document again on every call, whoever fetched it.
StartHit(t, u, op, at) ==
  /\ Idle(t)
  /\ Live(u, clock)
  /\ calls' = [calls EXCEPT ![t] =
        [pc |-> "done", url |-> u, op |-> op, at |-> at, now |-> clock,
         version |-> cache[u].version,
         outcome |-> Outcome(op, published[u][cache[u].version].doc, at)]]
  /\ UNCHANGED <<clock, published, cache>>

\* Mutant of StartMiss: a miss joins the response another call has under way.
StartMissCoalesced(t, u, op, at) ==
  LET flights == {s \in Tasks : calls[s].pc = "served" /\ calls[s].url = u} IN
  /\ Idle(t)
  /\ ~Live(u, clock)
  /\ calls' = [calls EXCEPT ![t] =
        [pc |-> IF flights = {} THEN "requested" ELSE "served",
         url |-> u, op |-> op, at |-> at, now |-> clock,
         version |-> IF flights = {} THEN NoVersion
                     ELSE calls[CHOOSE s \in flights : TRUE].version,
         outcome |-> "pending"]]
  /\ UNCHANGED <<clock, published, cache>>

\* A call the cache does not answer, up to the await.  `now` was read before.
StartMiss(t, u, op, at) ==
  /\ Idle(t)
  /\ ~Live(u, clock)
  /\ calls' = [calls EXCEPT ![t] =
        [pc |-> "requested", url |-> u, op |-> op, at |-> at, now |-> clock,
         version |-> NoVersion, outcome |-> "pending"]]
  /\ UNCHANGED <<clock, published, cache>>

\* The authority answers a request with what it publishes at that instant; the
\* response is under way from here on.
OriginServes(t) ==
  LET u == calls[t].url IN
  /\ calls[t].pc = "requested"
  /\ published[u] # <<>>
  /\ calls' = [calls EXCEPT ![t] =
        [@ EXCEPT !.pc = "served", !.version = Len(published[u])]]
  /\ UNCHANGED <<clock, published, cache>>

\* The await returns a body: it is stored for ttl seconds counted from `now`,
\* over any entry another call stored meanwhile, and the call goes on with it.
FetchSucceeds(t) ==
  /\ calls[t].pc = "served"
  /\ cache' = [cache EXCEPT ![calls[t].url] =
        [version |-> calls[t].version, expires_at |-> ExpiresAt(t)]]
  /\ calls' = [calls EXCEPT ![t] =
        [@ EXCEPT !.pc = "done",
                  !.outcome = Outcome(calls[t].op, Given(t).doc, calls[t].at)]]
  /\ UNCHANGED <<clock, published>>

\* The await raises, before or after the authority answered, or the max-age is too
\* long for int().  Failures are not cached and an expired entry stays where it is.
FetchFails(t, fault) ==
  /\ calls[t].pc \in {"requested", "served"}
  /\ fault = "RecursionError" => calls[t].pc = "served"
  /\ fault = "InvalidURL" => calls[t].pc = "requested"
  /\ calls' = [calls EXCEPT ![t] =
        [@ EXCEPT !.pc = "done", !.version = NoVersion, !.outcome = fault]]
  /\ UNCHANGED <<clock, published, cache>>

\* clear_cache; calls in flight are not affected and will store their bodies.
ClearCache ==
  /\ cache' = [u \in Urls |-> NoEntry]
  /\ UNCHANGED <<clock, published, calls>>

\* The authority replaces the document at u (a key rotated, revoked, renewed).
Publish(u, doc, max_age) ==
  /\ Len(published[u]) < MaxPublications
  /\ published' = [published EXCEPT ![u] =
        Append(@, [doc |-> doc, max_age |-> max_age, from |-> clock])]
  /\ UNCHANGED <<clock, cache, calls>>

Tick ==
  /\ clock < MaxTime
  /\ clock' = clock + 1
  /\ UNCHANGED <<published, cache, calls>>

\* The anchors a call may have: only resolve_key takes one.
AnchorsOf(op) == IF op = "key" THEN Anchors \cup {NoAnchor} ELSE {NoAnchor}

Next ==
  \/ \E t \in Tasks, u \in Urls, op \in Operations :
       \E at \in AnchorsOf(op) : StartHit(t, u, op, at) \/ StartMiss(t, u, op, at)
  \/ \E t \in Tasks : OriginServes(t) \/ FetchSucceeds(t)
  \/ \E t \in Tasks, fault \in FetchFaults : FetchFails(t, fault)
  \/ ClearCache
  \/ \E u \in Urls, doc \in Documents, max_age \in MaxAges : Publish(u, doc, max_age)
  \/ Tick

Spec == Init /\ [][Next]_vars

-----------------------------------------------------------------------------
(* Properties *)

Publications == [doc : Documents, max_age : MaxAges, from : Nat]

\* Types.  In particular a call raises nothing but what Outcomes lists, of which the
\* docstring of resolve_key names ValueError and KeyExpired only.
TypeOK ==
  /\ clock \in Nat
  /\ published \in [Urls -> Seq(Publications)]
  /\ cache \in [Urls -> [version : Nat, expires_at : Nat] \cup {NoEntry}]
  /\ calls \in [Tasks ->
       [pc : {"idle", "requested", "served", "done"}, url : Urls, op : Operations,
        at : Anchors \cup {NoAnchor}, now : Nat, version : Nat, outcome : Outcomes]]

\* Version v of a log of publications was not superseded before `instant`.
CurrentUntil(log, v, instant) ==
  /\ v \in 1..Len(log)
  /\ v = Len(log) \/ log[v + 1].from >= instant

\* A call that got a body, from the network or from the cache, got one that the
\* authority was still publishing less than the body's granted lifetime before
\* the call began: a rotated or revoked key is out of every caller's reach once
\* that time has passed, whatever was in flight when it was replaced.
\* (_cached_json_get reads `now` before the await, and counts the lifetime from
\* it: counted from the arrival of the response it would not hold.)
StalenessBounded ==
  \A t \in Tasks :
    calls[t].pc = "done" /\ calls[t].version # NoVersion =>
      CurrentUntil(published[calls[t].url], calls[t].version,
                   (calls[t].now - Ttl(Given(t))) + 1)

\* resolve_key only returns a key that the body it was given publishes for an
\* active actor and, with `at`, inside the key's window, also when that body was
\* cached by a call that checked less (another anchor, fetch_key_resource).
KeyUsable ==
  \A t \in Tasks :
    calls[t].pc = "done" /\ calls[t].outcome = "key" =>
      LET doc == Given(t).doc
          at  == calls[t].at
      IN /\ doc.actor /\ doc.active /\ doc.attributes = "keys"
         /\ at # NoAnchor =>
              /\ doc.window \notin {NoWindow, Overflow}
              /\ doc.window.not_before <= at /\ at <= doc.window.not_after

\* An entry is never replaced by an older body, unless the call that stores the
\* older one was already in flight when the entry's body was published: misses
\* for one URL are not coalesced, so the last response to arrive wins.
RegressionOnlyByOverlap ==
  [][\A u \in Urls :
       /\ cache[u] # NoEntry /\ cache'[u] # NoEntry
       /\ cache'[u].version < cache[u].version
       => \E t \in Tasks :
            /\ calls[t].pc = "served" /\ calls'[t].pc = "done" /\ calls[t].url = u
            /\ calls[t].now <= published[u][cache[u].version].from]_vars

\* The client implements the directory a verifier relies on: a call is an open
\* read while it awaits, and a body under way is not an answer yet.
Read(t) ==
  [status  |-> IF calls[t].pc \in {"requested", "served"} THEN "open" ELSE "closed",
   url     |-> calls[t].url,
   since   |-> calls[t].now,
   version |-> IF calls[t].pc = "done" THEN calls[t].version ELSE NoVersion]

Reads == [t \in Tasks |-> Read(t)]

Directory == INSTANCE KeyDirectory WITH MaxStaleness <- MAX_TTL_SECONDS, reads <- Reads

\* Every behaviour of the client is one of the directory (module KeyDirectory).
ImplementsDirectory == Directory!Spec

-----------------------------------------------------------------------------
(* The inductive invariant behind the properties above *)

PublicationsOrdered ==
  \A u \in Urls : \A i, j \in 1..Len(published[u]) :
    i <= j => published[u][i].from <= published[u][j].from /\ published[u][j].from <= clock

\* An entry's body was current, or was superseded so late that the entry expires
\* before the granted lifetime has passed since.
EntriesExpireInTime ==
  \A u \in Urls :
    cache[u] # NoEntry =>
      LET ttl == Ttl(published[u][cache[u].version]) IN
      /\ CurrentUntil(published[u], cache[u].version, cache[u].expires_at - ttl)
      /\ cache[u].expires_at <= clock + ttl

\* A response under way carries what was current at or after its call's start.
ResponsesFresh ==
  \A t \in Tasks :
    /\ calls[t].now <= clock
    /\ calls[t].pc = "served" =>
         CurrentUntil(published[calls[t].url], calls[t].version, calls[t].now)

KeysAreGiven ==
  \A t \in Tasks :
    calls[t].outcome = "key" => calls[t].pc = "done" /\ calls[t].version # NoVersion

\* Everything the proofs need: the parts above and the properties themselves.
IndInv ==
  /\ TypeOK
  /\ PublicationsOrdered
  /\ EntriesExpireInTime
  /\ ResponsesFresh
  /\ StalenessBounded
  /\ KeysAreGiven
  /\ KeyUsable
=============================================================================
