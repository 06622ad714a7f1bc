----------------------- MODULE FederationCacheProofs -----------------------
(***************************************************************************)
(* Proofs, for every set of tasks, URLs, documents and headers and every   *)
(* lifetime, of the safety properties of FederationCache and of its        *)
(* refinement of KeyDirectory.                                             *)
(***************************************************************************)
EXTENDS FederationCache, TLAPS

\* The lifetime granted to any publication is a whole number of seconds between
\* 1 and MAX_TTL_SECONDS.
LEMMA TtlRange ==
  ASSUME NEW p \in Publications
  PROVE  Ttl(p) \in 1..MAX_TTL_SECONDS
<1>1. p.max_age \in Nat \cup {NoMaxAge}
  BY MaxAgeAssumption DEF Publications
<1>2. ParseMaxAge(p.max_age) \in Nat
  BY <1>1 DEF ParseMaxAge
<1>3. \A seconds \in Nat : ClampTtl(seconds) \in 1..MAX_TTL_SECONDS
  BY TtlAssumption DEF ClampTtl
<1> QED
  BY <1>2, <1>3 DEF Ttl

LEMMA OutcomeType ==
  ASSUME NEW op \in Operations, NEW doc \in Documents,
         NEW at \in Anchors \cup {NoAnchor}
  PROVE  /\ Outcome(op, doc, at) \in Outcomes \ {"pending"}
         /\ Outcome(op, doc, at) = "key" =>
              /\ doc.actor /\ doc.active /\ doc.attributes = "keys"
              /\ at # NoAnchor =>
                   /\ doc.window \notin {NoWindow, Overflow}
                   /\ doc.window.not_before <= at /\ at <= doc.window.not_after
<1>1. /\ doc.actor \in BOOLEAN /\ doc.active \in BOOLEAN
      /\ doc.attributes \in {"keys", "no_keys", "not_a_mapping"}
      /\ doc.window \in [not_before : Nat, not_after : Nat] \cup {NoWindow, Overflow}
  BY DocumentAssumption
<1>2. CASE op = "json"
  BY <1>2 DEF Outcome, Outcomes, FetchFaults
<1>3. CASE op = "key" /\ ~(doc.actor /\ doc.active)
  BY <1>3 DEF Outcome, Outcomes, FetchFaults
<1>4. CASE op = "key" /\ doc.actor /\ doc.active
  <2>1. Outcome(op, doc, at) =
          CASE doc.attributes = "not_a_mapping" -> "AttributeError"
            [] doc.attributes = "no_keys" -> "ValueError"
            [] doc.attributes = "keys" -> WindowOutcome(doc.window, at)
    BY <1>4 DEF Outcome
  <2>2. CASE doc.attributes # "keys"
    BY <1>1, <2>1, <2>2 DEF Outcomes, FetchFaults
  <2>3. CASE doc.attributes = "keys"
    <3>1. Outcome(op, doc, at) = WindowOutcome(doc.window, at)
      BY <2>1, <2>3
    <3> QED
      BY <1>1, <1>4, <2>3, <3>1, AnchorAssumption DEF WindowOutcome, Outcomes, FetchFaults
  <2> QED
    BY <2>2, <2>3
<1> QED
  BY <1>2, <1>3, <1>4 DEF Operations

-----------------------------------------------------------------------------
\* A publication appended to a log leaves every earlier one in place, and does
\* not make anything stale before the instant at which it is appended.
LEMMA AppendKeepsCurrent ==
  ASSUME NEW log \in Seq(Publications), NEW p \in Publications,
         NEW v \in Nat, NEW instant \in Int,
         instant <= p.from, CurrentUntil(log, v, instant)
  PROVE  /\ Append(log, p)[v] = log[v]
         /\ CurrentUntil(Append(log, p), v, instant)
BY DEF CurrentUntil, Publications
-----------------------------------------------------------------------------
Call == [pc : {"idle", "requested", "served", "done"}, url : Urls, op : Operations,
         at : Anchors \cup {NoAnchor}, now : Nat, version : Nat, outcome : Outcomes]

\* What the steps below need of a call's publication: while the version a call
\* was given, or an entry's, is one that was published, it has a document and a
\* lifetime.
LEMMA PublicationType ==
  ASSUME TypeOK, NEW u \in Urls, NEW v \in 1..Len(published[u])
  PROVE  /\ published[u][v] \in Publications
         /\ published[u][v].doc \in Documents
         /\ published[u][v].from \in Nat
         /\ Ttl(published[u][v]) \in 1..MAX_TTL_SECONDS
<1>1. published[u][v] \in Publications
  BY DEF TypeOK
<1> QED
  BY <1>1, TtlRange DEF Publications

\* The initial states satisfy the inductive invariant.
LEMMA InitEstablishesIndInv == Init => IndInv
<1> SUFFICES ASSUME Init PROVE IndInv
  OBVIOUS
<1>1. TypeOK
  BY DEF Init, TypeOK, Operations, Outcomes, NoVersion
<1>2. PublicationsOrdered /\ EntriesExpireInTime
  BY DEF Init, PublicationsOrdered, EntriesExpireInTime
<1>3. ResponsesFresh /\ StalenessBounded /\ KeysAreGiven /\ KeyUsable
  BY DEF Init, ResponsesFresh, StalenessBounded, KeysAreGiven, KeyUsable
<1> QED
  BY <1>1, <1>2, <1>3 DEF IndInv

-----------------------------------------------------------------------------
(* Types are preserved *)

\* A step of a call that leaves the clock, the log and the cache alone, and
\* replaces the call's record by one of the right type, preserves the types.
LEMMA TypePreserved ==
  ASSUME IndInv, [Next]_vars
  PROVE  TypeOK'
<1> USE DEF IndInv
<1>1. ASSUME NEW t \in Tasks, NEW u \in Urls, NEW op \in Operations,
             NEW at \in AnchorsOf(op), StartHit(t, u, op, at)
      PROVE  TypeOK'
  <2>1. at \in Anchors \cup {NoAnchor}
    BY <1>1 DEF AnchorsOf
  <2>2. cache[u] \in [version : Nat, expires_at : Nat]
    BY <1>1 DEF StartHit, Live, TypeOK
  <2>3. cache[u].version \in 1..Len(published[u])
    BY <1>1 DEF StartHit, Live, EntriesExpireInTime, CurrentUntil
  <2>4. published[u][cache[u].version].doc \in Documents
    BY <2>3, PublicationType
  <2>5. Outcome(op, published[u][cache[u].version].doc, at) \in Outcomes
    BY <2>1, <2>4, OutcomeType
  <2> DEFINE call == [pc |-> "done", url |-> u, op |-> op, at |-> at, now |-> clock,
         version |-> cache[u].version,
         outcome |-> Outcome(op, published[u][cache[u].version].doc, at)]
  <2>6. call \in Call
    BY <2>1, <2>2, <2>5 DEF Call, TypeOK
  <2> HIDE DEF call
  <2>7. calls' = [calls EXCEPT ![t] = call] /\ UNCHANGED <<clock, published, cache>>
    BY <1>1 DEF StartHit, call
  <2> QED
    BY <2>6, <2>7 DEF TypeOK, Call
<1>2. ASSUME NEW t \in Tasks, NEW u \in Urls, NEW op \in Operations,
             NEW at \in AnchorsOf(op), StartMiss(t, u, op, at)
      PROVE  TypeOK'
  <2>1. at \in Anchors \cup {NoAnchor}
    BY <1>2 DEF AnchorsOf
  <2> QED
    BY <1>2, <2>1 DEF StartMiss, TypeOK, Outcomes, NoVersion
<1>3. ASSUME NEW t \in Tasks, OriginServes(t)
      PROVE  TypeOK'
  <2>1. Len(published[calls[t].url]) \in Nat
    BY DEF TypeOK
  <2> QED
    BY <1>3, <2>1 DEF OriginServes, TypeOK
<1>4. ASSUME NEW t \in Tasks, FetchSucceeds(t)
      PROVE  TypeOK'
  <2>1. /\ calls[t] \in Call
        /\ calls[t].version \in 1..Len(published[calls[t].url])
    BY <1>4 DEF FetchSucceeds, ResponsesFresh, CurrentUntil, TypeOK, Call
  <2>2. Given(t).doc \in Documents /\ Ttl(Given(t)) \in Nat
    BY <2>1, PublicationType, TtlAssumption DEF Given, Call
  <2>3. Outcome(calls[t].op, Given(t).doc, calls[t].at) \in Outcomes
    BY <2>1, <2>2, OutcomeType DEF Call
  <2>4. ExpiresAt(t) \in Nat
    BY <2>1, <2>2 DEF ExpiresAt, Call
  <2>5. calls' \in [Tasks -> Call]
    BY <1>4, <2>1, <2>3 DEF FetchSucceeds, TypeOK, Call
  <2>6. cache' \in [Urls -> [version : Nat, expires_at : Nat] \cup {NoEntry}]
    BY <1>4, <2>1, <2>4 DEF FetchSucceeds, TypeOK, Call
  <2> QED
    BY <1>4, <2>5, <2>6 DEF FetchSucceeds, TypeOK, Call
<1>5. ASSUME NEW t \in Tasks, NEW fault \in FetchFaults, FetchFails(t, fault)
      PROVE  TypeOK'
  BY <1>5 DEF FetchFails, TypeOK, Outcomes, NoVersion
<1>6. CASE ClearCache
  BY <1>6 DEF ClearCache, TypeOK
<1>7. ASSUME NEW u \in Urls, NEW doc \in Documents, NEW max_age \in MaxAges,
             Publish(u, doc, max_age)
      PROVE  TypeOK'
  <2>1. [doc |-> doc, max_age |-> max_age, from |-> clock] \in Publications
    BY DEF Publications, TypeOK
  <2>2. published' \in [Urls -> Seq(Publications)]
    BY <1>7, <2>1 DEF Publish, TypeOK
  <2> QED
    BY <1>7, <2>2 DEF Publish, TypeOK
<1>8. CASE Tick
  BY <1>8 DEF Tick, TypeOK
<1>9. CASE UNCHANGED vars
  BY <1>9 DEF vars, TypeOK
<1> QED
  BY <1>1, <1>2, <1>3, <1>4, <1>5, <1>6, <1>7, <1>8, <1>9 DEF Next
-----------------------------------------------------------------------------
(* The invariant is preserved *)

\* The part of the invariant that speaks of one call.
CallInv(t) ==
  /\ calls[t].now <= clock
  /\ calls[t].pc = "served" =>
       CurrentUntil(published[calls[t].url], calls[t].version, calls[t].now)
  /\ calls[t].pc = "done" /\ calls[t].version # NoVersion =>
       CurrentUntil(published[calls[t].url], calls[t].version,
                    (calls[t].now - Ttl(Given(t))) + 1)
  /\ calls[t].outcome = "key" => calls[t].pc = "done" /\ calls[t].version # NoVersion
  /\ calls[t].pc = "done" /\ calls[t].outcome = "key" =>
       LET doc == Given(t).doc
           at  == calls[t].at
       IN /\ doc.actor /\ doc.active /\ doc.attributes = "keys"
          /\ at # NoAnchor =>
               /\ doc.window \notin {NoWindow, Overflow}
               /\ doc.window.not_before <= at /\ at <= doc.window.not_after

LEMMA IndInvParts ==
  IndInv <=> /\ TypeOK /\ PublicationsOrdered /\ EntriesExpireInTime
             /\ \A t \in Tasks : CallInv(t)
BY DEF IndInv, ResponsesFresh, StalenessBounded, KeysAreGiven, KeyUsable, CallInv

\* A call that a step leaves alone keeps its part of the invariant.
LEMMA OtherCallsKeep ==
  ASSUME NEW t \in Tasks, CallInv(t), calls'[t] = calls[t],
         UNCHANGED <<clock, published>>
  PROVE  CallInv(t)'
BY DEF CallInv, Given

LEMMA StartHitKeeps ==
  ASSUME IndInv, NEW t \in Tasks, NEW u \in Urls, NEW op \in Operations,
         NEW at \in AnchorsOf(op), StartHit(t, u, op, at)
  PROVE  CallInv(t)'
<1> DEFINE v == cache[u].version
<1>1. at \in Anchors \cup {NoAnchor}
  BY DEF AnchorsOf
<1>2. /\ cache[u] \in [version : Nat, expires_at : Nat]
      /\ cache[u].expires_at > clock
      /\ CurrentUntil(published[u], v, cache[u].expires_at - Ttl(published[u][v]))
  BY DEF StartHit, Live, IndInv, TypeOK, EntriesExpireInTime
<1>3. v \in 1..Len(published[u])
  BY <1>2 DEF CurrentUntil
<1>4. /\ published[u][v].doc \in Documents
      /\ Ttl(published[u][v]) \in 1..MAX_TTL_SECONDS
      /\ v < Len(published[u]) => published[u][v + 1].from \in Nat
  <2>1. v < Len(published[u]) => v + 1 \in 1..Len(published[u])
    BY <1>3 DEF IndInv, TypeOK
  <2> QED
    BY <1>3, <2>1, PublicationType DEF IndInv
<1>5. /\ calls'[t] = [pc |-> "done", url |-> u, op |-> op, at |-> at, now |-> clock,
           version |-> v, outcome |-> Outcome(op, published[u][v].doc, at)]
      /\ UNCHANGED <<clock, published>>
  BY DEF StartHit, IndInv, TypeOK
<1>6. Given(t)' = published[u][v]
  BY <1>5 DEF Given
<1>7. CurrentUntil(published[u], v, (clock - Ttl(published[u][v])) + 1)
  BY <1>2, <1>3, <1>4, TtlAssumption DEF CurrentUntil, IndInv, TypeOK
<1>8. v # NoVersion /\ clock \in Nat
  BY <1>3 DEF NoVersion, IndInv, TypeOK
<1> HIDE DEF v
<1> QED
  BY <1>1, <1>4, <1>5, <1>6, <1>7, <1>8, OutcomeType DEF CallInv

LEMMA FetchSucceedsKeeps ==
  ASSUME IndInv, NEW t \in Tasks, FetchSucceeds(t)
  PROVE  CallInv(t)' /\ EntriesExpireInTime'
<1> DEFINE u == calls[t].url
           v == calls[t].version
           ttl == Ttl(Given(t))
<1>1. calls[t] \in Call /\ clock \in Nat
  BY DEF IndInv, TypeOK, Call
<1>2. CurrentUntil(published[u], v, calls[t].now) /\ calls[t].now <= clock
  BY DEF FetchSucceeds, IndInv, ResponsesFresh
<1>3. v \in 1..Len(published[u]) /\ v # NoVersion
  BY <1>2 DEF CurrentUntil, NoVersion
<1>4. /\ Given(t) = published[u][v]
      /\ Given(t).doc \in Documents
      /\ ttl \in 1..MAX_TTL_SECONDS
      /\ v < Len(published[u]) => published[u][v + 1].from \in Nat
  <2>1. v < Len(published[u]) => v + 1 \in 1..Len(published[u])
    BY <1>1, <1>3 DEF IndInv, TypeOK, Call
  <2> QED
    BY <1>1, <1>3, <2>1, PublicationType DEF Given, IndInv, Call
<1>5. /\ calls'[t] = [calls[t] EXCEPT !.pc = "done",
                        !.outcome = Outcome(calls[t].op, Given(t).doc, calls[t].at)]
      /\ cache' = [cache EXCEPT ![u] =
                     [version |-> v, expires_at |-> calls[t].now + ttl]]
      /\ UNCHANGED <<clock, published>>
  BY DEF FetchSucceeds, ExpiresAt, IndInv, TypeOK
<1>6. /\ calls'[t].pc = "done"
      /\ calls'[t].outcome = Outcome(calls[t].op, Given(t).doc, calls[t].at)
      /\ calls'[t].url = u /\ calls'[t].version = v
      /\ calls'[t].now = calls[t].now /\ calls'[t].at = calls[t].at
  BY <1>1, <1>5 DEF Call
<1>7. Given(t)' = Given(t)
  BY <1>5, <1>6 DEF Given
<1>8. CallInv(t)'
  <2>1. CurrentUntil(published[u], v, (calls[t].now - ttl) + 1)
    BY <1>1, <1>2, <1>4, TtlAssumption DEF CurrentUntil, Call
  <2>2. /\ calls[t].op \in Operations
        /\ calls[t].at \in Anchors \cup {NoAnchor}
    BY <1>1 DEF Call
  <2>3. Outcome(calls[t].op, Given(t).doc, calls[t].at) = "key" =>
          /\ Given(t).doc.actor /\ Given(t).doc.active
          /\ Given(t).doc.attributes = "keys"
          /\ calls[t].at # NoAnchor =>
               /\ Given(t).doc.window \notin {NoWindow, Overflow}
               /\ Given(t).doc.window.not_before <= calls[t].at
               /\ calls[t].at <= Given(t).doc.window.not_after
    BY <1>4, <2>2, OutcomeType
  <2> QED
    BY <1>2, <1>3, <1>5, <1>6, <1>7, <2>1, <2>3 DEF CallInv
<1>9. EntriesExpireInTime'
  <2> SUFFICES ASSUME NEW w \in Urls, cache'[w] # NoEntry
               PROVE  LET bound == Ttl(published[w][cache'[w].version]) IN
                      /\ CurrentUntil(published[w], cache'[w].version,
                                      cache'[w].expires_at - bound)
                      /\ cache'[w].expires_at <= clock + bound
    BY <1>5 DEF EntriesExpireInTime
  <2>1. CASE w = u
    <3>1. cache'[w] = [version |-> v, expires_at |-> calls[t].now + ttl]
      BY <1>5, <2>1 DEF IndInv, TypeOK
    <3>2. (calls[t].now + ttl) - ttl = calls[t].now
      BY <1>1, <1>4, TtlAssumption DEF Call
    <3>3. calls[t].now + ttl <= clock + ttl
      BY <1>1, <1>2, <1>4, TtlAssumption DEF Call
    <3> QED
      BY <1>2, <1>4, <2>1, <3>1, <3>2, <3>3
  <2>2. CASE w # u
    <3>1. cache'[w] = cache[w]
      BY <1>5, <2>2 DEF IndInv, TypeOK
    <3> QED
      BY <3>1 DEF IndInv, EntriesExpireInTime
  <2> QED
    BY <2>1, <2>2
<1> QED
  BY <1>8, <1>9

LEMMA OriginServesKeeps ==
  ASSUME IndInv, NEW t \in Tasks, OriginServes(t)
  PROVE  CallInv(t)'
<1>1. calls[t] \in Call /\ published[calls[t].url] \in Seq(Publications)
  BY DEF IndInv, TypeOK, Call
<1>2. /\ calls'[t] = [calls[t] EXCEPT !.pc = "served",
                        !.version = Len(published[calls[t].url])]
      /\ UNCHANGED <<clock, published>>
      /\ published[calls[t].url] # <<>>
      /\ calls[t].pc = "requested"
  BY DEF OriginServes, IndInv, TypeOK
<1>3. /\ calls'[t].pc = "served" /\ calls'[t].url = calls[t].url
      /\ calls'[t].version = Len(published[calls[t].url])
      /\ calls'[t].now = calls[t].now /\ calls'[t].outcome = calls[t].outcome
  BY <1>1, <1>2 DEF Call
<1>4. Len(published[calls[t].url]) \in 1..Len(published[calls[t].url])
  BY <1>1, <1>2
<1>5. calls[t].now <= clock /\ calls[t].outcome # "key"
  BY <1>2 DEF IndInv, ResponsesFresh, KeysAreGiven
<1> QED
  BY <1>2, <1>3, <1>4, <1>5 DEF CallInv, CurrentUntil

\* A publication supersedes what was current at the instant it is made, and so
\* cannot make a body stale before that instant.
LEMMA PublishKeeps ==
  ASSUME IndInv, NEW u \in Urls, NEW doc \in Documents, NEW max_age \in MaxAges,
         Publish(u, doc, max_age)
  PROVE  /\ PublicationsOrdered'
         /\ EntriesExpireInTime'
         /\ \A t \in Tasks : CallInv(t)'
<1> DEFINE p == [doc |-> doc, max_age |-> max_age, from |-> clock]
<1>1. clock \in Nat /\ p \in Publications /\ p.from = clock
  BY DEF IndInv, TypeOK, Publications
<1>2. /\ published' = [published EXCEPT ![u] = Append(@, p)]
      /\ UNCHANGED <<clock, cache, calls>>
  BY DEF Publish
<1> HIDE DEF p
\* What was published stays where it was, at every URL.
<1>3. ASSUME NEW w \in Urls, NEW v \in Nat, NEW instant \in Int,
             instant <= clock, CurrentUntil(published[w], v, instant)
      PROVE  /\ published'[w][v] = published[w][v]
             /\ CurrentUntil(published'[w], v, instant)
  <2>1. CASE w = u
    <3>1. published'[w] = Append(published[w], p)
      BY <1>2, <2>1 DEF IndInv, TypeOK
    <3>2. published[w] \in Seq(Publications) /\ instant <= p.from
      BY <1>1, <1>3 DEF IndInv, TypeOK
    <3>3. /\ Append(published[w], p)[v] = published[w][v]
          /\ CurrentUntil(Append(published[w], p), v, instant)
      BY <1>1, <1>3, <3>2, AppendKeepsCurrent
    <3> QED
      BY <3>1, <3>3
  <2>2. CASE w # u
    BY <1>2, <1>3, <2>2 DEF IndInv, TypeOK
  <2> QED
    BY <2>1, <2>2
<1>4. PublicationsOrdered'
  <2> SUFFICES ASSUME NEW w \in Urls, NEW i \in 1..Len(published'[w]),
                      NEW j \in 1..Len(published'[w]), i <= j
               PROVE  /\ published'[w][i].from <= published'[w][j].from
                      /\ published'[w][j].from <= clock
    BY <1>2 DEF PublicationsOrdered
  <2>1. CASE w = u
    <3>1. published'[w] = Append(published[w], p) /\ published[w] \in Seq(Publications)
      BY <1>2, <2>1 DEF IndInv, TypeOK
    <3>2. \A k \in 1..Len(published[w]) :
            published[w][k].from <= clock /\ published'[w][k] = published[w][k]
      BY <3>1 DEF IndInv, PublicationsOrdered
    <3>3. /\ Len(published'[w]) = Len(published[w]) + 1
          /\ published'[w][Len(published[w]) + 1] = p
      BY <1>1, <3>1
    <3>4. CASE j \in 1..Len(published[w])
      <4>1. i \in 1..Len(published[w])
        BY <3>1, <3>4
      <4> QED
        BY <3>2, <3>4, <4>1 DEF IndInv, PublicationsOrdered
    <3>5. CASE j = Len(published[w]) + 1
      <4>1. published'[w][j].from = clock
        BY <1>1, <3>3, <3>5
      <4>2. i = j \/ i \in 1..Len(published[w])
        BY <3>1, <3>5
      <4> QED
        BY <1>1, <3>2, <4>1, <4>2
    <3> QED
      BY <3>1, <3>3, <3>4, <3>5
  <2>2. CASE w # u
    BY <1>2, <2>2 DEF IndInv, TypeOK, PublicationsOrdered
  <2> QED
    BY <2>1, <2>2
<1>5. EntriesExpireInTime'
  <2> SUFFICES ASSUME NEW w \in Urls, cache[w] # NoEntry
               PROVE  LET ttl == Ttl(published'[w][cache[w].version]) IN
                      /\ CurrentUntil(published'[w], cache[w].version,
                                      cache[w].expires_at - ttl)
                      /\ cache[w].expires_at <= clock + ttl
    BY <1>2 DEF EntriesExpireInTime
  <2> DEFINE v == cache[w].version
             ttl == Ttl(published[w][v])
  <2>1. /\ v \in Nat /\ cache[w].expires_at \in Nat
        /\ CurrentUntil(published[w], v, cache[w].expires_at - ttl)
        /\ cache[w].expires_at <= clock + ttl
    BY DEF IndInv, TypeOK, EntriesExpireInTime
  <2>2. ttl \in Nat
    BY <2>1, PublicationType, TtlAssumption DEF CurrentUntil, IndInv
  <2>3. cache[w].expires_at - ttl <= clock /\ cache[w].expires_at - ttl \in Int
    BY <1>1, <2>1, <2>2
  <2> QED
    BY <1>3, <2>1, <2>3
<1>6. ASSUME NEW t \in Tasks
      PROVE  CallInv(t)'
  <2>1. calls'[t] = calls[t] /\ calls[t] \in Call /\ clock' = clock
    BY <1>2 DEF IndInv, TypeOK, Call
  <2>2. CallInv(t)
    BY IndInvParts
  <2>3. ASSUME calls[t].pc = "served"
        PROVE  CurrentUntil(published'[calls[t].url], calls[t].version, calls[t].now)
    BY <1>3, <2>1, <2>2, <2>3 DEF CallInv, Call
  <2>4. ASSUME calls[t].pc = "done", calls[t].version # NoVersion
        PROVE  /\ Given(t)' = Given(t)
               /\ CurrentUntil(published'[calls[t].url], calls[t].version,
                               (calls[t].now - Ttl(Given(t))) + 1)
    <3>1. CurrentUntil(published[calls[t].url], calls[t].version,
                       (calls[t].now - Ttl(Given(t))) + 1)
      BY <2>2, <2>4 DEF CallInv
    <3>2. Ttl(Given(t)) \in 1..MAX_TTL_SECONDS
      BY <2>1, <3>1, PublicationType DEF Given, CurrentUntil, IndInv, Call
    <3>3. /\ (calls[t].now - Ttl(Given(t))) + 1 \in Int
          /\ (calls[t].now - Ttl(Given(t))) + 1 <= clock
      BY <1>1, <2>1, <2>2, <3>2, TtlAssumption DEF CallInv, Call
    <3> QED
      BY <1>3, <2>1, <3>1, <3>3 DEF Given, Call
  <2> QED
    BY <2>1, <2>2, <2>3, <2>4 DEF CallInv
<1> QED
  BY <1>4, <1>5, <1>6

LEMMA TickKeeps ==
  ASSUME IndInv, Tick
  PROVE  /\ PublicationsOrdered'
         /\ EntriesExpireInTime'
         /\ \A t \in Tasks : CallInv(t)'
<1>1. clock \in Nat /\ clock' = clock + 1 /\ UNCHANGED <<published, cache, calls>>
  BY DEF Tick, IndInv, TypeOK
<1>2. PublicationsOrdered'
  <2> SUFFICES ASSUME NEW u \in Urls, NEW i \in 1..Len(published[u]),
                      NEW j \in 1..Len(published[u]), i <= j
               PROVE  /\ published[u][i].from <= published[u][j].from
                      /\ published[u][j].from <= clock'
    BY <1>1 DEF PublicationsOrdered
  <2> QED
    BY <1>1, PublicationType DEF IndInv, PublicationsOrdered
<1>3. EntriesExpireInTime'
  <2> SUFFICES ASSUME NEW u \in Urls, cache[u] # NoEntry
               PROVE  LET ttl == Ttl(published[u][cache[u].version]) IN
                      /\ CurrentUntil(published[u], cache[u].version,
                                      cache[u].expires_at - ttl)
                      /\ cache[u].expires_at <= clock' + ttl
    BY <1>1 DEF EntriesExpireInTime
  <2> DEFINE v == cache[u].version
             ttl == Ttl(published[u][v])
  <2>1. /\ cache[u].expires_at \in Nat
        /\ CurrentUntil(published[u], v, cache[u].expires_at - ttl)
        /\ cache[u].expires_at <= clock + ttl
    BY DEF IndInv, TypeOK, EntriesExpireInTime
  <2>2. ttl \in Nat
    BY <2>1, PublicationType, TtlAssumption DEF CurrentUntil, IndInv
  <2>3. cache[u].expires_at <= clock' + ttl
    BY <1>1, <2>1, <2>2
  <2> QED
    BY <2>1, <2>3
<1>4. ASSUME NEW t \in Tasks
      PROVE  CallInv(t)'
  <2>1. CallInv(t) /\ calls[t].now \in Nat
    BY IndInvParts DEF IndInv, TypeOK
  <2>2. calls'[t].now <= clock'
    BY <1>1, <2>1 DEF CallInv
  <2> QED
    BY <1>1, <2>1, <2>2 DEF CallInv, Given
<1> QED
  BY <1>2, <1>3, <1>4

LEMMA NextPreservesIndInv == IndInv /\ [Next]_vars => IndInv'
<1> SUFFICES ASSUME IndInv, [Next]_vars PROVE IndInv'
  OBVIOUS
<1>1. TypeOK'
  BY TypePreserved
<1>2. /\ PublicationsOrdered /\ EntriesExpireInTime
      /\ \A t \in Tasks : CallInv(t)
      /\ calls \in [Tasks -> Call]
  BY IndInvParts DEF IndInv, TypeOK, Call
<1> SUFFICES /\ PublicationsOrdered' /\ EntriesExpireInTime'
             /\ \A t \in Tasks : CallInv(t)'
  BY <1>1 DEF IndInv, ResponsesFresh, StalenessBounded, KeysAreGiven, KeyUsable, CallInv
\* The steps of one call: the other calls and the cache are left alone.
<1>3. ASSUME NEW t \in Tasks, NEW call, calls' = [calls EXCEPT ![t] = call],
             UNCHANGED <<clock, published>>, CallInv(t)'
      PROVE  PublicationsOrdered' /\ \A s \in Tasks : CallInv(s)'
  <2>1. \A s \in Tasks : s # t => calls'[s] = calls[s]
    BY <1>2, <1>3
  <2>2. \A s \in Tasks : s # t => CallInv(s)'
    BY <1>2, <1>3, <2>1, OtherCallsKeep
  <2> QED
    BY <1>2, <1>3, <2>2 DEF PublicationsOrdered
<1>4. ASSUME NEW t \in Tasks, NEW u \in Urls, NEW op \in Operations,
             NEW at \in AnchorsOf(op), StartHit(t, u, op, at)
      PROVE  /\ PublicationsOrdered' /\ EntriesExpireInTime'
             /\ \A s \in Tasks : CallInv(s)'
  BY <1>2, <1>3, <1>4, StartHitKeeps DEF StartHit, EntriesExpireInTime
<1>5. ASSUME NEW t \in Tasks, NEW u \in Urls, NEW op \in Operations,
             NEW at \in AnchorsOf(op), StartMiss(t, u, op, at)
      PROVE  /\ PublicationsOrdered' /\ EntriesExpireInTime'
             /\ \A s \in Tasks : CallInv(s)'
  <2>1. CallInv(t)'
    BY <1>2, <1>5 DEF StartMiss, CallInv, IndInv, TypeOK
  <2> QED
    BY <1>2, <1>3, <1>5, <2>1 DEF StartMiss, EntriesExpireInTime
<1>6. ASSUME NEW t \in Tasks, OriginServes(t)
      PROVE  /\ PublicationsOrdered' /\ EntriesExpireInTime'
             /\ \A s \in Tasks : CallInv(s)'
  BY <1>2, <1>3, <1>6, OriginServesKeeps DEF OriginServes, EntriesExpireInTime
<1>7. ASSUME NEW t \in Tasks, FetchSucceeds(t)
      PROVE  /\ PublicationsOrdered' /\ EntriesExpireInTime'
             /\ \A s \in Tasks : CallInv(s)'
  BY <1>2, <1>3, <1>7, FetchSucceedsKeeps DEF FetchSucceeds
<1>8. ASSUME NEW t \in Tasks, NEW fault \in FetchFaults, FetchFails(t, fault)
      PROVE  /\ PublicationsOrdered' /\ EntriesExpireInTime'
             /\ \A s \in Tasks : CallInv(s)'
  <2>1. CallInv(t)'
    BY <1>2, <1>8 DEF FetchFails, FetchFaults, CallInv, Call
  <2> QED
    BY <1>2, <1>3, <1>8, <2>1 DEF FetchFails, EntriesExpireInTime
<1>9. CASE ClearCache
  BY <1>2, <1>9 DEF ClearCache, PublicationsOrdered, EntriesExpireInTime, CallInv, Given
<1>10. CASE UNCHANGED vars
  BY <1>2, <1>10 DEF vars, PublicationsOrdered, EntriesExpireInTime, CallInv, Given
<1> QED
  BY <1>4, <1>5, <1>6, <1>7, <1>8, <1>9, <1>10, PublishKeeps, TickKeeps DEF Next

-----------------------------------------------------------------------------
(* The theorems *)

\* The strengthened invariant holds of every reachable state.
THEOREM IndInvInvariant == Spec => []IndInv
<1>1. Init => IndInv
  BY InitEstablishesIndInv
<1>2. IndInv /\ [Next]_vars => IndInv'
  BY NextPreservesIndInv
<1> QED
  BY <1>1, <1>2, PTL DEF Spec

\* Every reachable state is well typed: in particular every call of
\* fetch_meta, fetch_key_resource and resolve_key ends in a listed outcome.
THEOREM TypeCorrect == Spec => []TypeOK
<1>1. IndInv => TypeOK
  BY DEF IndInv
<1> QED
  BY <1>1, IndInvInvariant, PTL

\* No call of a FederationClient is given a body that was superseded a whole
\* granted lifetime or longer before the call began, whatever its calls'
\* interleaving, the order of the responses and the calls of clear_cache.
THEOREM StalenessIsBounded == Spec => []StalenessBounded
<1>1. IndInv => StalenessBounded
  BY DEF IndInv
<1> QED
  BY <1>1, IndInvInvariant, PTL

\* resolve_key never returns a key outside its window or of an actor that the
\* body does not show as active, whoever put that body in the cache.
THEOREM ReturnedKeysAreUsable == Spec => []KeyUsable
<1>1. IndInv => KeyUsable
  BY DEF IndInv
<1> QED
  BY <1>1, IndInvInvariant, PTL

-----------------------------------------------------------------------------
(* Regressions of an entry *)

\* The body a call stores was current when the call started; so an entry newer
\* than it was published after that, while the call was in flight.
LEMMA FetchSucceedsRegression ==
  ASSUME IndInv, NEW t \in Tasks, FetchSucceeds(t), NEW u \in Urls,
         cache[u] # NoEntry, cache'[u] # NoEntry, cache'[u].version < cache[u].version
  PROVE  /\ calls[t].pc = "served" /\ calls'[t].pc = "done" /\ calls[t].url = u
         /\ calls[t].now <= published[u][cache[u].version].from
<1> DEFINE v == calls[t].version
           w == cache[u].version
<1>1. calls[t] \in Call /\ calls[t].pc = "served" /\ calls'[t].pc = "done"
  BY DEF FetchSucceeds, IndInv, TypeOK, Call
<1>2. /\ cache[u] \in [version : Nat, expires_at : Nat]
      /\ w \in 1..Len(published[u])
      /\ published[u] \in Seq(Publications)
  BY DEF IndInv, TypeOK, EntriesExpireInTime, CurrentUntil
<1>3. cache'[u] # cache[u]
  BY <1>2
<1>4. calls[t].url = u /\ cache'[u].version = v
  BY <1>3 DEF FetchSucceeds, IndInv, TypeOK
<1>5. CurrentUntil(published[u], v, calls[t].now)
  BY <1>1, <1>4 DEF IndInv, ResponsesFresh
<1>6. /\ v \in Nat /\ v < w /\ v # Len(published[u])
      /\ v + 1 \in 1..Len(published[u]) /\ v + 1 <= w
  BY <1>2, <1>4, <1>5 DEF CurrentUntil
<1>7. calls[t].now <= published[u][v + 1].from
  BY <1>5, <1>6 DEF CurrentUntil
<1>8. published[u][v + 1].from <= published[u][w].from
  BY <1>2, <1>6 DEF IndInv, PublicationsOrdered
<1>9. /\ calls[t].now \in Nat /\ published[u][v + 1].from \in Nat
      /\ published[u][w].from \in Nat
  BY <1>1, <1>2, <1>6, PublicationType DEF IndInv, Call
<1> QED
  BY <1>1, <1>4, <1>7, <1>8, <1>9

\* An entry goes back to an older body only when the call that stores it was
\* already in flight when the newer one was published.
THEOREM RegressionsOverlap == Spec => RegressionOnlyByOverlap
<1> DEFINE Overlap(u) ==
      /\ cache[u] # NoEntry /\ cache'[u] # NoEntry
      /\ cache'[u].version < cache[u].version
      => \E t \in Tasks :
           /\ calls[t].pc = "served" /\ calls'[t].pc = "done" /\ calls[t].url = u
           /\ calls[t].now <= published[u][cache[u].version].from
<1>1. IndInv /\ [Next]_vars => [\A u \in Urls : Overlap(u)]_vars
  <2> SUFFICES ASSUME IndInv, Next, NEW u \in Urls,
                      cache[u] # NoEntry, cache'[u] # NoEntry,
                      cache'[u].version < cache[u].version
               PROVE  \E t \in Tasks :
                        /\ calls[t].pc = "served" /\ calls'[t].pc = "done"
                        /\ calls[t].url = u
                        /\ calls[t].now <= published[u][cache[u].version].from
    OBVIOUS
  <2>1. cache' # cache /\ cache'[u].version # cache[u].version
    <3>1. cache[u].version \in Nat
      BY DEF IndInv, TypeOK
    <3> QED
      BY <3>1
  <2>2. ASSUME NEW t \in Tasks, FetchSucceeds(t)
        PROVE  \E s \in Tasks :
                 /\ calls[s].pc = "served" /\ calls'[s].pc = "done"
                 /\ calls[s].url = u
                 /\ calls[s].now <= published[u][cache[u].version].from
    BY <2>2, FetchSucceedsRegression
  <2>3. ~ClearCache
    BY DEF ClearCache
  <2> QED
    BY <2>1, <2>2, <2>3
    DEF Next, StartHit, StartMiss, OriginServes, FetchFails, Publish, Tick
<1>2. Spec => [][\A u \in Urls : Overlap(u)]_vars
  BY <1>1, IndInvInvariant, PTL DEF Spec
<1> QED
  BY <1>2 DEF RegressionOnlyByOverlap

-----------------------------------------------------------------------------
(* The client implements the directory *)

\* A step of one call is a step of the read it stands for.
LEMMA ReadsChange ==
  ASSUME TypeOK, NEW t \in Tasks, NEW call, calls' = [calls EXCEPT ![t] = call]
  PROVE  Reads' = [Reads EXCEPT ![t] =
           [status  |-> IF call.pc \in {"requested", "served"} THEN "open" ELSE "closed",
            url     |-> call.url,
            since   |-> call.now,
            version |-> IF call.pc = "done" THEN call.version ELSE NoVersion]]
BY DEF TypeOK, Reads, Read

LEMMA ReadsSame == ASSUME calls' = calls PROVE Reads' = Reads
BY DEF Reads, Read

LEMMA InitRefines == Init => Directory!Init
<1> SUFFICES ASSUME Init PROVE Directory!Init
  OBVIOUS
<1>1. PICK u \in Urls :
        calls = [t \in Tasks |->
                  [pc |-> "idle", url |-> u, op |-> "json", at |-> NoAnchor,
                   now |-> 0, version |-> NoVersion, outcome |-> "pending"]]
  BY DEF Init
<1>2. \A t \in Tasks : Read(t) =
        [status |-> "closed", url |-> u, since |-> 0, version |-> Directory!NoVersion]
  BY <1>1 DEF Read, NoVersion, Directory!NoVersion
<1>3. Reads = [t \in Tasks |->
                 [status |-> "closed", url |-> u, since |-> 0, version |-> Directory!NoVersion]]
  BY <1>2 DEF Reads
<1> QED
  BY <1>3 DEF Init, Directory!Init

\* A body that was current at `instant` or later is acceptable to a read that
\* began less than MAX_TTL_SECONDS after that instant.
LEMMA CurrentIsAcceptable ==
  ASSUME TypeOK, NEW u \in Urls, NEW v \in Nat, NEW instant \in Int, NEW since \in Nat,
         CurrentUntil(published[u], v, instant), since < instant + MAX_TTL_SECONDS
  PROVE  Directory!Acceptable(u, v, since)
<1>1. v \in 1..Len(published[u]) /\ published[u] \in Seq(Publications)
  BY DEF CurrentUntil, TypeOK
<1>2. CASE v = Len(published[u])
  BY <1>1, <1>2 DEF Directory!Acceptable, Directory!Current
<1>3. CASE v # Len(published[u])
  <2>1. v + 1 \in 1..Len(published[u])
    BY <1>1, <1>3
  <2>2. published[u][v + 1].from \in Nat /\ published[u][v + 1].from >= instant
    BY <1>3, <2>1, PublicationType DEF CurrentUntil
  <2>3. published[u][v + 1].from + MAX_TTL_SECONDS > since
    BY <2>2, TtlAssumption
  <2> QED
    BY <1>1, <2>3 DEF Directory!Acceptable
<1> QED
  BY <1>2, <1>3

LEMMA StartHitRefines ==
  ASSUME IndInv, NEW t \in Tasks, NEW u \in Urls, NEW op \in Operations,
         NEW at \in AnchorsOf(op), StartHit(t, u, op, at)
  PROVE  Directory!AnswerAtOnce(t, u, cache[u].version)
         /\ cache[u].version \in 1..Len(published[u])
<1> DEFINE v == cache[u].version
           ttl == Ttl(published[u][v])
<1>1. /\ cache[u] \in [version : Nat, expires_at : Nat]
      /\ cache[u].expires_at > clock
      /\ CurrentUntil(published[u], v, cache[u].expires_at - ttl)
  BY DEF StartHit, Live, IndInv, TypeOK, EntriesExpireInTime
<1>2. v \in 1..Len(published[u]) /\ ttl \in 1..MAX_TTL_SECONDS /\ clock \in Nat
  BY <1>1, PublicationType DEF CurrentUntil, IndInv, TypeOK
<1>3. Directory!Acceptable(u, v, clock)
  <2>1. /\ cache[u].expires_at - ttl \in Int
        /\ clock < (cache[u].expires_at - ttl) + MAX_TTL_SECONDS
    BY <1>1, <1>2, TtlAssumption
  <2> QED
    BY <1>1, <1>2, <2>1, CurrentIsAcceptable DEF IndInv
<1>4. Reads[t].status = "closed"
  BY DEF StartHit, Idle, Reads, Read
<1>5. Reads' = [Reads EXCEPT ![t] =
        [status |-> "closed", url |-> u, since |-> clock, version |-> v]]
  <2> DEFINE call == [pc |-> "done", url |-> u, op |-> op, at |-> at, now |-> clock,
         version |-> v, outcome |-> Outcome(op, published[u][v].doc, at)]
  <2>1. calls' = [calls EXCEPT ![t] = call]
    BY DEF StartHit
  <2>2. /\ call.pc = "done" /\ call.url = u /\ call.now = clock /\ call.version = v
    OBVIOUS
  <2> HIDE DEF call, v
  <2>3. Reads' = [Reads EXCEPT ![t] =
           [status  |-> IF call.pc \in {"requested", "served"} THEN "open" ELSE "closed",
            url     |-> call.url,
            since   |-> call.now,
            version |-> IF call.pc = "done" THEN call.version ELSE NoVersion]]
    BY <2>1, ReadsChange DEF IndInv
  <2> QED
    BY <2>2, <2>3
<1> QED
  BY <1>2, <1>3, <1>4, <1>5 DEF Directory!AnswerAtOnce, StartHit

LEMMA FetchSucceedsRefines ==
  ASSUME IndInv, NEW t \in Tasks, FetchSucceeds(t)
  PROVE  Directory!Answer(t, calls[t].version)
         /\ calls[t].version \in 1..Len(published[Reads[t].url])
<1>1. calls[t] \in Call /\ calls[t].pc = "served"
  BY DEF FetchSucceeds, IndInv, TypeOK, Call
<1>2. CurrentUntil(published[calls[t].url], calls[t].version, calls[t].now)
  BY <1>1 DEF IndInv, ResponsesFresh
<1>3. /\ Reads[t].status = "open" /\ Reads[t].url = calls[t].url
      /\ Reads[t].since = calls[t].now
  BY <1>1 DEF Reads, Read
<1>4. Directory!Acceptable(Reads[t].url, calls[t].version, Reads[t].since)
  BY <1>1, <1>2, <1>3, CurrentIsAcceptable, TtlAssumption DEF IndInv, Call
<1>5. Reads' = [Reads EXCEPT ![t] =
        [status |-> "closed", url |-> @.url, since |-> @.since,
         version |-> calls[t].version]]
  <2> DEFINE call == [calls[t] EXCEPT !.pc = "done",
                        !.outcome = Outcome(calls[t].op, Given(t).doc, calls[t].at)]
  <2>1. calls' = [calls EXCEPT ![t] = call]
    BY DEF FetchSucceeds
  <2>2. /\ call.pc = "done" /\ call.url = calls[t].url
        /\ call.now = calls[t].now /\ call.version = calls[t].version
    BY <1>1 DEF Call
  <2> HIDE DEF call
  <2>3. Reads' = [Reads EXCEPT ![t] =
           [status  |-> IF call.pc \in {"requested", "served"} THEN "open" ELSE "closed",
            url     |-> call.url,
            since   |-> call.now,
            version |-> IF call.pc = "done" THEN call.version ELSE NoVersion]]
    BY <2>1, ReadsChange DEF IndInv
  <2>4. Reads' = [Reads EXCEPT ![t] =
          [status |-> "closed", url |-> calls[t].url, since |-> calls[t].now,
           version |-> calls[t].version]]
    BY <2>2, <2>3
  <2> QED
    BY <1>3, <2>4
<1> QED
  BY <1>2, <1>3, <1>4, <1>5 DEF Directory!Answer, FetchSucceeds, CurrentUntil

LEMMA FetchFailsRefines ==
  ASSUME IndInv, NEW t \in Tasks, NEW fault \in FetchFaults, FetchFails(t, fault)
  PROVE  Directory!Fail(t)
<1>1. calls[t] \in Call /\ calls[t].pc \in {"requested", "served"}
  BY DEF FetchFails, IndInv, TypeOK, Call
<1> DEFINE call == [calls[t] EXCEPT !.pc = "done", !.version = NoVersion,
                      !.outcome = fault]
<1>2. calls' = [calls EXCEPT ![t] = call] /\ UNCHANGED <<clock, published>>
  BY DEF FetchFails
<1>3. /\ call.pc = "done" /\ call.url = calls[t].url
      /\ call.now = calls[t].now /\ call.version = NoVersion
  BY <1>1 DEF Call
<1> HIDE DEF call
<1>4. Reads' = [Reads EXCEPT ![t] =
         [status  |-> IF call.pc \in {"requested", "served"} THEN "open" ELSE "closed",
          url     |-> call.url,
          since   |-> call.now,
          version |-> IF call.pc = "done" THEN call.version ELSE NoVersion]]
  BY <1>2, ReadsChange DEF IndInv
<1>5. /\ Reads[t].status = "open"
      /\ [Reads[t] EXCEPT !.status = "closed"]
           = [status |-> "closed", url |-> calls[t].url, since |-> calls[t].now,
              version |-> NoVersion]
  BY <1>1 DEF Reads, Read
<1> QED
  BY <1>2, <1>3, <1>4, <1>5 DEF Directory!Fail

LEMMA NextRefines ==
  ASSUME IndInv, [Next]_vars
  PROVE  [Directory!Next]_(Directory!vars)
<1>1. ASSUME NEW t \in Tasks, NEW u \in Urls, NEW op \in Operations,
             NEW at \in AnchorsOf(op), StartHit(t, u, op, at)
      PROVE  Directory!Next
  BY <1>1, StartHitRefines DEF Directory!Next
<1>2. ASSUME NEW t \in Tasks, NEW u \in Urls, NEW op \in Operations,
             NEW at \in AnchorsOf(op), StartMiss(t, u, op, at)
      PROVE  Directory!Next
  <2> DEFINE call == [pc |-> "requested", url |-> u, op |-> op, at |-> at, now |-> clock,
         version |-> NoVersion, outcome |-> "pending"]
  <2>1. calls' = [calls EXCEPT ![t] = call] /\ UNCHANGED <<clock, published>>
    BY <1>2 DEF StartMiss
  <2>2. /\ call.pc = "requested" /\ call.url = u /\ call.now = clock
        /\ call.version = NoVersion
    OBVIOUS
  <2> HIDE DEF call
  <2>3. Reads' = [Reads EXCEPT ![t] =
           [status  |-> IF call.pc \in {"requested", "served"} THEN "open" ELSE "closed",
            url     |-> call.url,
            since   |-> call.now,
            version |-> IF call.pc = "done" THEN call.version ELSE NoVersion]]
    BY <2>1, ReadsChange DEF IndInv
  <2>4. Reads[t].status = "closed"
    BY <1>2 DEF StartMiss, Idle, Reads, Read
  <2>5. Directory!Begin(t, u)
    BY <2>1, <2>2, <2>3, <2>4 DEF Directory!Begin, Directory!NoVersion, NoVersion
  <2> QED
    BY <2>5 DEF Directory!Next
<1>3. ASSUME NEW t \in Tasks, OriginServes(t)
      PROVE  UNCHANGED Directory!vars
  <2> DEFINE call == [calls[t] EXCEPT !.pc = "served",
                        !.version = Len(published[calls[t].url])]
  <2>1. calls[t] \in Call /\ calls[t].pc = "requested"
    BY <1>3 DEF OriginServes, IndInv, TypeOK, Call
  <2>2. calls' = [calls EXCEPT ![t] = call] /\ UNCHANGED <<clock, published>>
    BY <1>3 DEF OriginServes
  <2>3. /\ call.pc = "served" /\ call.url = calls[t].url /\ call.now = calls[t].now
    BY <2>1 DEF Call
  <2> HIDE DEF call
  <2>4. \A s \in Tasks : Read(s)' = Read(s)
    <3>1. calls'[t] = call /\ \A s \in Tasks : s # t => calls'[s] = calls[s]
      BY <2>2 DEF IndInv, TypeOK
    <3> QED
      BY <2>1, <2>3, <3>1 DEF Read
  <2> QED
    BY <2>2, <2>4 DEF Directory!vars, Reads
<1>4. ASSUME NEW t \in Tasks, FetchSucceeds(t)
      PROVE  Directory!Next
  BY <1>4, FetchSucceedsRefines DEF Directory!Next
<1>5. ASSUME NEW t \in Tasks, NEW fault \in FetchFaults, FetchFails(t, fault)
      PROVE  Directory!Next
  BY <1>5, FetchFailsRefines DEF Directory!Next
<1>6. CASE ClearCache \/ UNCHANGED vars
  BY <1>6, ReadsSame DEF ClearCache, vars, Directory!vars
<1>7. ASSUME NEW u \in Urls, NEW doc \in Documents, NEW max_age \in MaxAges,
             Publish(u, doc, max_age)
      PROVE  Directory!Next
  BY <1>7, ReadsSame DEF Publish, Directory!Publish, Directory!Next
<1>8. CASE Tick
  BY <1>8, ReadsSame DEF Tick, Directory!Tick, Directory!Next
<1> QED
  BY <1>1, <1>2, <1>3, <1>4, <1>5, <1>6, <1>7, <1>8 DEF Next

\* FederationClient's cached reads implement the directory of KeyDirectory.
THEOREM CacheImplementsDirectory == Spec => ImplementsDirectory
<1>1. Init => Directory!Init
  BY InitRefines
<1>2. IndInv /\ [Next]_vars => [Directory!Next]_(Directory!vars)
  BY NextRefines
<1> QED
  BY <1>1, <1>2, IndInvInvariant, PTL DEF Spec, ImplementsDirectory, Directory!Spec
=============================================================================
