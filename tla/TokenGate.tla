------------------------------ MODULE TokenGate ------------------------------
(***************************************************************************)
(* Capability tokens (phip.tokens) from mint_token to verify_token, with   *)
(* the lookup of the grantor's key in between.                             *)
(*                                                                         *)
(* A verifier does what the library documents: it decodes what was         *)
(* presented (parse_token), looks up the key as of the token's not_before  *)
(* (resolve_key with `at`) and then calls verify_token for a request, all  *)
(* while time passes and the grantor replaces its key.  Of the lookup only *)
(* what KeyDirectory promises is used, which FederationCache implements.   *)
(***************************************************************************)
EXTENDS Integers, Sequences, FiniteSets

CONSTANTS Tasks, Urls, MaxAges,   \* as in KeyDirectory
          MaxStaleness,
          Keys,
          Compromised,            \* keys that others can sign with, too
          Objects, Actors,
          Anyone,                 \* granted_to "*"
          Nobody,                 \* granted_to ""
          EmptyName,              \* the object name "", which the glob "" matches
          NoTime,                 \* a time that cannot be parsed; no anchor
          Overflow,               \* one whose conversion raises OverflowError, or a
                                  \* window with such a time
          NoKey,                  \* signer of an unsigned token; no key yet
          Garbled,                \* what parse_token refuses
          Unspecified,            \* None for requesting_actor and the like
          Grants,                 \* what tokens may say
          Asked,                  \* what may be requested
          Documents,              \* what a grantor may publish for its key
          NoWindow,               \* a key without (valid) not_before, not_after
          MaxTime,                \* bound: the clock stops here
          MaxPublications,        \* bound: publications per URL
          MaxMinted               \* bound: tokens minted

\* _VALID_SCOPES, in two kinds, and _STAR_SAFE_SCOPES.
PushScopes == {"push_events", "push_state", "push_measurements", "push_relations"}
ReadScopes == {"read_state", "read_history", "read_topology", "read_query"}
StarSafeScopes == {"read_topology"}

\* What _parse_dt makes of times.  One next to an end of the range of a datetime
\* may leave it when it is converted to UTC, as 9999-12-31T23:59:59 does west of
\* Greenwich and the first hours of the year 1 do east of it.
Times == Nat \cup {NoTime, Overflow}

\* A glob stands for the names that it matches, and "" for {EmptyName}.
AllGrants ==
  [granted_to : Actors \cup {Anyone, Nobody},
   scope : PushScopes \cup ReadScopes \cup {"unknown"},
   object_filter : SUBSET (Objects \cup {EmptyName}), not_before : Times, expires : Times]

Tokens == [grant : Grants, signature : [key : Keys \cup {NoKey}, over : Grants]]

Requests ==
  [actor : Actors \cup {Unspecified}, object : Objects \cup {Unspecified},
   scope : PushScopes \cup ReadScopes \cup {Unspecified}]

ASSUME GrantAssumption == Grants \subseteq AllGrants /\ Asked \subseteq Requests
ASSUME DocumentAssumption ==
  /\ {NoWindow, Overflow} \cap [not_before : Nat, not_after : Nat] = {}
  /\ NoWindow # Overflow
  /\ Documents \subseteq
       [fault  : {"none",            \* an active actor with a usable key
                  "ValueError",      \* no actor, not active, or without key
                  "AttributeError"}, \* attributes is no mapping
        key    : Keys,
        window : [not_before : Nat, not_after : Nat] \cup {NoWindow, Overflow}]
ASSUME KeyAssumption == Compromised \subseteq Keys /\ NoKey \notin Keys
ASSUME NameAssumption ==
  /\ Anyone \notin Actors /\ Nobody \notin Actors \cup {Anyone}
  /\ EmptyName \notin Objects
  /\ Unspecified \notin Actors \cup Objects \cup PushScopes \cup ReadScopes
ASSUME ValueAssumption ==
  /\ NoTime \notin Nat /\ Overflow \notin Nat \cup {NoTime} /\ Garbled \notin Tokens
ASSUME BoundAssumption ==
  /\ MaxStaleness \in Nat \ {0} /\ MaxTime \in Nat
  /\ MaxPublications \in Nat /\ MaxMinted \in Nat

VARIABLES clock, published, reads,   \* as in KeyDirectory
          minted,                    \* the tokens that mint_token has returned
          gates                      \* gates[t]: the latest verification of task t

vars == <<clock, published, reads, minted, gates>>

Directory == INSTANCE KeyDirectory

-----------------------------------------------------------------------------
(* Minting *)

\* Mutant of MintRefused: anyone may be granted anything.
MintRefusedUnstarred(g) ==
  \/ g.scope \notin PushScopes \cup ReadScopes
  \/ g.object_filter = {EmptyName} \/ g.granted_to = Nobody

\* What mint_token raises ValueError for.  It does not look at the times.
MintRefused(g) ==
  \/ g.scope \notin PushScopes \cup ReadScopes
  \/ g.object_filter = {EmptyName} \/ g.granted_to = Nobody
  \/ g.granted_to = Anyone /\ g.scope \notin StarSafeScopes

Token(g, key) == [grant |-> g, signature |-> [key |-> key, over |-> g]]

\* mint_token; a call that it refuses changes nothing.
MintToken(g, key) ==
  /\ Cardinality(minted) < MaxMinted
  /\ ~MintRefused(g)
  /\ minted' = minted \cup {Token(g, key)}
  /\ UNCHANGED <<clock, published, reads, gates>>

\* What may be presented: tokens as minted, with another grant or without their
\* signature, tokens made by hand with a compromised key, and other strings.
Presentable ==
  minted
  \cup {[m EXCEPT !.grant = g] : m \in minted, g \in Grants}
  \cup {[m EXCEPT !.signature = [@ EXCEPT !.key = NoKey]] : m \in minted}
  \cup {Token(g, key) : g \in Grants, key \in Compromised}
  \cup {Garbled}

-----------------------------------------------------------------------------
(* The checks of verify_token, for a request at an instant *)

\* Mutant of SignatureFault: a missing signature is not looked for.
SignatureFaultUnlessSigned(token, key) ==
  CASE token.signature.key = NoKey -> "TypeError"
    [] token.signature.key # NoKey /\ token.signature # Token(token.grant, key).signature ->
         "InvalidSignature"
    [] OTHER -> "none"

\* Steps 1 and 2; a signature that cannot be decoded is one of another key.
SignatureFault(token, key) ==
  CASE token.signature.key = NoKey -> "InvalidCapability"
    [] token.signature.key # NoKey /\ token.signature # Token(token.grant, key).signature ->
         "InvalidSignature"
    [] OTHER -> "none"

\* Step 3, in two.  A time that cannot be parsed is no limit.
Begun(g, now) == g.not_before # NoTime => g.not_before <= now
NotExpired(g, now) == g.expires # NoTime => now <= g.expires

\* Step 4.
GrantedTo(g, actor) == actor = Unspecified \/ g.granted_to \in {Anyone, actor}

\* Step 5: _glob_match.
FilterMatches(g, object) == object = Unspecified \/ object \in g.object_filter

\* Mutant of ScopeCovers: reading the state covers reading the history.
ScopeCoversSwapped(g, scope) ==
  \/ scope \in {Unspecified, g.scope}
  \/ scope \in {"read_history", "read_topology"} /\ g.scope = "read_state"

\* Step 6.
ScopeCovers(g, scope) ==
  \/ scope \in {Unspecified, g.scope}
  \/ scope \in {"read_state", "read_topology"} /\ g.scope = "read_history"

\* Steps 3 to 6, of a token whose limits have been parsed.
Covers(g, request, now) ==
  /\ Begun(g, now) /\ NotExpired(g, now)
  /\ GrantedTo(g, request.actor)
  /\ FilterMatches(g, request.object)
  /\ ScopeCovers(g, request.scope)

\* Mutant of TokenFault: a limit that cannot be converted is none.
TokenFaultUnlessOverflow(token, key, request, now) ==
  LET Converted(time) == IF time = Overflow THEN NoTime ELSE time
      g == [token.grant EXCEPT !.not_before = Converted(@), !.expires = Converted(@)]
  IN IF SignatureFault(token, key) # "none" THEN SignatureFault(token, key)
     ELSE IF Covers(g, request, now) THEN "none" ELSE "InvalidCapability"

\* not_before is parsed and compared before expires is parsed.
TokenFault(token, key, request, now) ==
  IF SignatureFault(token, key) # "none" THEN SignatureFault(token, key)
  ELSE IF token.grant.not_before = Overflow THEN "OverflowError"
  ELSE IF ~Begun(token.grant, now) THEN "InvalidCapability"
  ELSE IF token.grant.expires = Overflow THEN "OverflowError"
  ELSE IF Covers(token.grant, request, now) THEN "none"
  ELSE "InvalidCapability"

-----------------------------------------------------------------------------
(* The verifier *)

\* What _json_get raises, as in FederationCache.
FetchFaults == {"ValueError", "RecursionError", "InvalidURL"}

Faults ==
  {"InvalidCapability", "InvalidSignature", "KeyExpired", "AttributeError", "OverflowError"}
  \cup FetchFaults

Ended == {"granted"} \cup Faults

\* A task verifies one token.
Idle(t) == gates[t].pc = "idle"

NoRequest == [actor |-> Unspecified, object |-> Unspecified, scope |-> Unspecified]

Gate(pc, token, key, request, decided) ==
  [pc |-> pc, token |-> token, key |-> key, request |-> request, decided |-> decided]

Init ==
  /\ Directory!Init
  /\ minted = {}
  /\ gates = [t \in Tasks |-> Gate("idle", Garbled, NoKey, NoRequest, 0)]

\* parse_token raises.
PresentGarbled(t) ==
  /\ Idle(t)
  /\ gates' = [gates EXCEPT ![t] = Gate("InvalidCapability", Garbled, NoKey, NoRequest, clock)]
  /\ UNCHANGED <<clock, published, reads, minted>>

\* parse_token returns, and the lookup has to wait.
PresentToken(t, u, token) ==
  /\ Idle(t)
  /\ Directory!Begin(t, u)
  /\ gates' = [gates EXCEPT ![t] = Gate("resolving", token, NoKey, NoRequest, 0)]
  /\ UNCHANGED minted

\* The `at` that the verifier takes from the token's not_before.  Of one that cannot
\* be converted to UTC it has the time itself or none, as its own parser has it.
Anchors(g) == IF g.not_before = Overflow THEN {Overflow, NoTime} ELSE {g.not_before}

\* A time beyond the range of UTC is outside every window inside of it.
Outside(window, at) == at = Overflow \/ at < window.not_before \/ at > window.not_after

\* Mutant of KeyFault: only the end of the window is looked at.
KeyFaultUnlessEnded(doc, at) ==
  IF doc.fault # "none" THEN doc.fault
  ELSE IF at = NoTime THEN "none"
  ELSE IF doc.window = NoWindow THEN "ValueError"
  ELSE IF doc.window = Overflow THEN "OverflowError"
  ELSE IF at = Overflow \/ at > doc.window.not_after THEN "KeyExpired" ELSE "none"

\* What resolve_key raises once it has the document, with _validate_jwk_window.
KeyFault(doc, at) ==
  IF doc.fault # "none" THEN doc.fault
  ELSE IF at = NoTime THEN "none"
  ELSE IF doc.window = NoWindow THEN "ValueError"
  ELSE IF doc.window = Overflow THEN "OverflowError"
  ELSE IF Outside(doc.window, at) THEN "KeyExpired" ELSE "none"

\* What the lookup of a key for token makes of the document it got.
AfterLookup(token, doc, at) ==
  IF KeyFault(doc, at) = "none"
  THEN Gate("resolved", token, doc.key, NoRequest, 0)
  ELSE Gate(KeyFault(doc, at), token, NoKey, NoRequest, clock)

\* The lookup has got an answer, whichever document that is.
Resolve(t, v) ==
  /\ gates[t].pc = "resolving"
  /\ Directory!Answer(t, v)
  /\ \E at \in Anchors(gates[t].token.grant) :
       gates' = [gates EXCEPT ![t] =
                   AfterLookup(@.token, published[reads[t].url][v].doc, at)]
  /\ UNCHANGED minted

\* parse_token returns, and the lookup answers at once, from a cache.
PresentAndResolve(t, u, token, v) ==
  /\ Idle(t)
  /\ Directory!AnswerAtOnce(t, u, v)
  /\ \E at \in Anchors(token.grant) :
       gates' = [gates EXCEPT ![t] = AfterLookup(token, published[u][v].doc, at)]
  /\ UNCHANGED minted

\* The lookup gets no answer.
ResolutionFails(t, fault) ==
  /\ gates[t].pc = "resolving"
  /\ Directory!Fail(t)
  /\ gates' = [gates EXCEPT ![t] = Gate(fault, @.token, NoKey, NoRequest, clock)]
  /\ UNCHANGED minted

\* Mutant of VerificationTime: it was read before the lookup.
VerificationTimeOfLookup(t) == reads[t].since

\* verification_time is not given: verify_token reads the clock.
VerificationTime(t) == clock

\* verify_token, for whatever is requested.
VerifyToken(t, request) ==
  LET fault == TokenFault(gates[t].token, gates[t].key, request, VerificationTime(t)) IN
  /\ gates[t].pc = "resolved"
  /\ gates' = [gates EXCEPT ![t] =
       Gate(IF fault = "none" THEN "granted" ELSE fault, @.token, @.key, request, clock)]
  /\ UNCHANGED <<clock, published, reads, minted>>

\* The grantor replaces its key.
PublishKey(u, doc, max_age) ==
  /\ Len(published[u]) < MaxPublications
  /\ Directory!Publish(u, doc, max_age)
  /\ UNCHANGED <<minted, gates>>

Tick ==
  /\ clock < MaxTime
  /\ Directory!Tick
  /\ UNCHANGED <<minted, gates>>

Next ==
  \/ \E g \in Grants, key \in Keys : MintToken(g, key)
  \/ \E t \in Tasks : PresentGarbled(t)
  \/ \E t \in Tasks, u \in Urls :
       \E token \in Presentable \ {Garbled} :
         PresentToken(t, u, token) \/ \E v \in 1..Len(published[u]) : PresentAndResolve(t, u, token, v)
  \/ \E t \in Tasks : \E v \in 1..Len(published[reads[t].url]) : Resolve(t, v)
  \/ \E t \in Tasks, fault \in FetchFaults : ResolutionFails(t, fault)
  \/ \E t \in Tasks, request \in Asked : VerifyToken(t, request)
  \/ \E u \in Urls, doc \in Documents, max_age \in MaxAges : PublishKey(u, doc, max_age)
  \/ Tick

Spec == Init /\ [][Next]_vars

-----------------------------------------------------------------------------
(* Properties *)

\* Types, and the exceptions a verification ends with when it does not grant.  The
\* docstrings name four of them: InvalidCapability and InvalidSignature of
\* verify_token, ValueError and KeyExpired of resolve_key.
TypeOK ==
  /\ clock \in Nat
  /\ published \in [Urls -> Seq([doc : Documents, max_age : MaxAges, from : Nat])]
  /\ reads \in [Tasks -> [status : {"open", "closed"}, url : Urls, since : Nat, version : Nat]]
  /\ minted \subseteq Tokens
  /\ gates \in [Tasks ->
       [pc : {"idle", "resolving", "resolved"} \cup Ended, token : Tokens \cup {Garbled},
        key : Keys \cup {NoKey}, request : Requests, decided : Nat]]

Granted(t) == gates[t].pc = "granted"
Honest(t) == gates[t].key \notin Compromised

\* What is granted under a key that only its owner signs with was minted, as it
\* is, by mint_token, and reaches no further: only a grant of a push scope lets
\* anyone push, and then with that scope only, and only one of the history
\* lets anyone read the history.
GrantsAreMinted ==
  \A t \in Tasks :
    Granted(t) /\ Honest(t) =>
      LET scope == gates[t].request.scope
          g     == gates[t].token.grant
      IN /\ gates[t].token \in minted
         /\ scope \in PushScopes => g.scope = scope
         /\ scope = "read_history" => g.scope = "read_history"
         /\ gates[t].request.object \in Objects => gates[t].request.object \in g.object_filter

\* Nobody but the one a minted token names gets more by it than the topology:
\* what mint_token refuses to sign, verify_token would accept.
StrangersReadTopologyOnly ==
  \A t \in Tasks :
    LET r == gates[t].request IN
    Granted(t) /\ Honest(t) /\ r.actor \notin {Unspecified, gates[t].token.grant.granted_to} =>
      r.scope \in {Unspecified, "read_topology"}

\* At the instant of the decision the token is in its window, however long the
\* lookup of the key took; a limit that cannot be converted is not taken for none.
GrantedInTime ==
  \A t \in Tasks :
    LET g == gates[t].token.grant IN
    Granted(t) =>
      /\ Overflow \notin {g.not_before, g.expires}
      /\ g.not_before # NoTime => g.not_before <= gates[t].decided
      /\ g.expires # NoTime => gates[t].decided <= g.expires

\* The key of a granted token was still published, by an active actor, less than
\* MaxStaleness before it was looked up, and, if the token says since when it is valid, was valid
\* then: the key's holder cannot date a token back to before the key was.
KeysWereLive ==
  \A t \in Tasks :
    Granted(t) =>
      LET log == published[reads[t].url]
          v   == reads[t].version
          nb  == gates[t].token.grant.not_before
      IN /\ v \in 1..Len(log) /\ log[v].doc.key = gates[t].token.signature.key
         /\ log[v].doc.fault = "none"
         /\ v < Len(log) => reads[t].since < log[v + 1].from + MaxStaleness
         /\ nb # NoTime =>
              /\ log[v].doc.window \notin {NoWindow, Overflow}
              /\ nb \in log[v].doc.window.not_before..log[v].doc.window.not_after
=============================================================================
