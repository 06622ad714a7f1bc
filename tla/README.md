# Specifications of phip-py

TLA+ models of `phip`, the Python library for the PhIP protocol: histories of
signed, hash-linked events kept by authorities, and the client side that
writes, reads and verifies them. The models are checked with TLC on small
instances and theorems about them are proved with TLAPS. Line numbers refer to
`src/src/phip/`.

## 1. Inventory

| part (file) | state it keeps | operations | hard behaviours | what makes it correct |
|---|---|---|---|---|
| federation cache (`federation.py` 66-165, 234-294) | `_cache`: URL to body and expiry | `fetch_meta`, `fetch_key_resource`, `resolve_key`, `clear_cache` | asyncio tasks interleave at the one await of `_cached_json_get`; clock read before, entry stored after it; cached bodies reused by stricter calls | no body is used longer than its lifetime after it was superseded; a returned key is usable now |
| federation request (`federation.py` 167-228) | addresses, buffer | `_json_get`, `_read_capped` | resolver, peer and network fail, stall or dribble at every await | connects only after the addresses it was given were vetted, stays under the cap, gives up a silent peer |
| address filter (`federation.py` 297-355) | none | `_is_private_address` | range boundaries, textual forms | agrees with the ranges it documents |
| topology (`topology.py`) | none between calls; `flat`, `prev_last_hash` in a call | `topology_entry_for`, `build_topology_envelope`, `walk_topology_chain`, `verify_topology_response`, `verify_first_page`, `stitch_pages` | pages of a growing chain, empty, repeated, reordered, of another object, altered | an accepted read is the beginning of one chain; a sound read is accepted |
| events (`events.py`) | none | `hash_event`, `sign_event`, `verify_event`, `verify_chain` | several signers, stale heads, altered events and signatures, unresolvable keys | a good signature fixes everything before it |
| bundles (`bundle.py`) | a `Bundle` | `make_bundle`, `verify_bundle`, `pack_bundle`, `unpack_bundle`, `bundle_from_dict` | anything may happen to a bundle or its archive on the way; three ways to resolve a key | what passes is what the producer put in; a packed bundle comes back |
| tokens (`tokens.py`) | none | `mint_token`, `encode_token`, `parse_token`, `verify_token` | windows, unparsable times, scopes that cover others, `*` | no token grants what its issuer did not |
| clients (`client.py`, `async_client.py`) | connection pool, default token | `get`, `history`, `get_topology`, `query`, `create`, `push`, `batch_*`, `meta` | an answer lost after the resolver acted, requests processed after their caller gave up, redirects, gateways' answers | what a call tells its caller of its events is true |
| errors (`errors.py`) | none | `from_envelope` | envelopes of any shape, unknown codes | an error response gives a PhipError of its status |
| crypto, canonical JSON, URIs (`crypto.py`, `canonicalize.py`, `uri.py`) | none | conversions | encodings | injective; round trips |

How they interact: every part that hashes or signs calls `canonical_bytes`,
`sign`, `verify` and `sha256_hex`. `topology` and `bundle` use `hash_event`,
`bundle` uses `verify_event` but walks chains with a loop of its own, which the
models show to compute the same links as `verify_chain` (operator
`ExpectedPrevious`). `verify_chain` calls back a key resolver that its caller
supplies; the federation client is where such a resolver gets foreign keys.
`Client.history` and `Client.get_topology` hand out pages that nothing checks
until the caller passes them to `verify_chain` or `stitch_pages`. Parts share no
memory; the only state that several tasks share is the federation cache.

The hazards that follow from this, each with its line and the properties that
cover it, are listed in `PROJECT.json`.

## 2. Modules

    KeyDirectory  <== implemented by ==  FederationCache <- MCFederationCache
                                         FederationCache <- FederationCacheProofs
    AddressFilter <- JsonGet <- MCJsonGet, JsonGetProofs
    TopologyRead  <- MCTopologyRead, TopologyReadProofs
    Events        <- ChainWalk    <- MCChainWalk, ChainWalkProofs
                  <- BundleVerify <- MCBundleVerify, BundleVerifyProofs
    BundleArchive <- MCBundleArchive, BundleArchiveProofs
    TokenGate     <- MCTokenGate, TokenGateProofs   (an INSTANCE of KeyDirectory)
    Submission    <== implemented by ==  ClientCalls <- MCClientCalls
                                         ClientCalls <- ClientCallsProofs

### Hashes and signatures

SHA-256 over canonical JSON is taken to be injective, and a signature to be made
by the holder of a key only. `Events` represents a hash by all it is computed
from: the sequence of the contents of the chain up to the event. `HashEvent`
includes the signature, as `hash_event` does, and `Unsigned` strips it, as
`sign_event` and `verify_event` do; that difference decides
`HonestSignatureFixesHistory`. `TopologyRead` uses the place of an event in its
chain as its hash, which is enough because a topology reader never hashes.
A signature is a record of its key and what it covers. `key_id` is not covered:
it is a field of the signature, in the code as in the model. A `signature.value`
that cannot be decoded counts as one over something else where `verify_event`
turns the `ValueError` into `False`, and keeps its exception in `verify_bundle`,
which calls `verify` itself.

### FederationCache and KeyDirectory

`cache` is `_cache`; `published` is what the authority has published at each
URL; `calls[t]` is the latest call of task `t` with the locals of
`_cached_json_get` that live across the await. The code runs uninterrupted
between awaits, so a call is `StartHit`, or `StartMiss`, `OriginServes` (the
authority's step) and `FetchSucceeds` or `FetchFails`. `ClearCache` is
`clear_cache`; `Publish` and `Tick` are the environment. A body is represented by
the number of the publication it copies, so that a state shows its age.
`Outcome` is the tail of `resolve_key`, run on hits and on fresh bodies alike.
Cancelling a task at the await has the effect of `FetchFails` on the cache.
`FetchFaults` are what `_json_get` raises: `ValueError` for nearly everything, but
`RecursionError` for a body nested too deeply for the JSON parser, and httpx's
`InvalidURL`, which is no `RequestError`. An `attributes` that is not a mapping
raises `AttributeError`. The docstring of `resolve_key` mentions none of these;
`TypeOK` lists what is raised and does not judge it. `max-age=0` is
treated as an absent directive (`ParseMaxAge`, `ClampTtl`), as in the code.

`KeyDirectory` is what a verifier may rely on: every read ends in a failure or in
a document that was still published less than `MaxStaleness` seconds before the
read began; nothing relates two reads, and a later one may return an older
document. The mapping `Reads` makes a call that awaits an open read.

### AddressFilter and JsonGet

`AddressFilter` is `_is_private_address` on the texts that `getaddrinfo` gives. An
address is the first two octets of an IPv4 address (or of the one that an IPv6
address maps), the first hextet of an IPv6 address and the shape of the rest:
the filter looks at nothing else. The patterns `fe[89ab]x:`, `f[cd]xx:` and
`ffxx:` are conditions on the digits of a hextet; they can only match where it is
written with four digits, which in canonical form is where the first is not
zero. `IsSpecial` states the same by the blocks that the comments of the code
name, as pairs of a base and a size. Zone suffixes are stripped and do not
matter; a text that `inet_pton` refuses counts as private and never comes from
`getaddrinfo`.

`pc` follows `_json_get` from await to await. httpx applies `timeout_seconds` to each
of its waits by itself: to the TCP connect, over https to the TLS handshake, to the
sending of the request and to every read from the network. `silence` is the timer of
the present wait, `elapsed` the time since the connection was begun. `Receive` is one
such read. What it has brought is looked at at once: the rest of the header
(`HeaderComplete`, with the status check), no, one or several pieces of the body
(`Chunk`, with the size check after the piece has been buffered; pieces are not empty,
as `aiter_bytes` yields none), or its end (`BodyComplete`). A read may bring nothing of
these, because it holds a part of the header, of the framing of chunks or of a
compressed stream: the timer then begins anew while `buf` stays as it is. Time spent in
`getaddrinfo` is not counted, since nothing limits it. The addresses that are vetted
are those `_json_get` is given; httpx resolves the name again (section 5).

### TopologyRead

`VerifyFirstPage` is one call of `verify_first_page` whose entries are then used;
`StitchPage` is one round of the loop in `stitch_pages`, `StitchEnds` its return.
`Grow` interleaves with them because the pages may come from a lazy iterable.
A source is "sound" (an object's pages in order, each of any length, also empty)
or "any": every slice of every chain, as signed at any time, in any order, any
number of times, and every corruption of `Corrupted` (signature removed or by
another key, wrong marker or length, another object's name, a foreign or lost
entry). `Defects` are pages that the authority itself signs though they are
wrong: with a gap, with a sixth field, with a null hash. Without a key the
caller has verified each page beforehand, as the docstring of `stitch_pages`
requires. Whether the object is the one asked for is not compared anywhere in
the code, and so `StitchedIsPrefix` says "of some object".

### ChainWalk

`Push` is an author that read the first `n` events of a history at some time,
signs an event with `sign_event` and sends it with `Client.push`; `AppendEvent` is
the authority, which takes an event that names its present head. The reader
walks a list with `verify_chain`, one round per `Walk`. The list is not chosen
beforehand: the next event is any signed event, as it was, altered or relinked to
what precedes it, or one a dishonest actor signs now. The resolver answers with
the key of the `key_id` or with None.

### BundleVerify

`Extend` grows histories, `MakeBundle` is `make_bundle` for any objects and any
first events of their histories. `CheckManifest` is step 1 of `verify_bundle` on
the bundle as made or with any of `AlteredManifests` and forged key records;
`NextObject`, `WalkEvent`, `EndOfHistory` and `Return` are its loops. An altered
bundle reveals its histories as they are walked, so every list of the events of
`NextEvents` is tried. `ResolveEventKey` has the three rules of the code in its
order; an actor stands for its URI and its key, `TailOf` for the last segment.

### BundleArchive

`PackBundle` is `pack_bundle`: `Members` are the members it writes. `Open` is
`tarfile.open` with `getmembers`, `ReadMember` one round of the loop of
`unpack_bundle`, `EndOfArchive` what follows it, `BundleFromDict` is
`bundle_from_dict`. The archive is not chosen beforehand: each member that is
read is one of the packed bundle's, as often and in whatever order, or one of
`AlienMembers` (altered, under a second spelling of a name, a directory, a file
of another name). An archive that lost its end between two members reads as one
that has fewer, and so does one whose header is damaged there, because
`getmembers` then stops without an error; a cut inside a member, or what is no
archive, raises `tarfile.ReadError`. A member is its lines, of which each is a
JSON value, blank or neither; `json.dumps` writes no line break, and so a value is
one line. The order in which `dict`s and members are written does not matter and
is left out. `JSONDecodeError` and `UnicodeDecodeError` are both `ValueError`s and
appear as such.

### ClientCalls and Submission

`calls[t]` is the latest call of task `t` on a `Client` or an `AsyncClient`, which
have the same control; only the latter's tasks interleave in one thread, at the
await of `_request`, while threads that share a `Client` interleave there as well.
`Begin` is an operation up to that await, `BeginRefused` one whose phip_id is not
the authority's; `Receive` is `_handle_response` with the tail of `meta`,
`TransportFails` the `httpx.RequestError` of any cause, a timeout as well. `Registry`
and `FromEnvelope` are `errors.py`. `get`, `history` and `get_topology` differ in
path and parameters only and are the operation "get".

Everything else is the environment. `chain` is what the resolver has appended.
The resolver is honest: it appends what fits the head (`AppendEvent`), refuses
requests or single events of a batch, and answers what it has done. A gateway may
answer in its place: with a status below 500 it has not forwarded the request,
with 500 or more it may have, and the resolver goes on. When a call ends before
its events are processed they are `late` and may be appended at any time
(`ProcessLate`). Bodies may be mangled. `Redirect` is what httpx does with 301, 302
and 303 when `follow_redirects` is on: the POST becomes a GET of another URL,
which is refused at an endpoint for POST ("endpoint") or answered ("object").
307 and 308 repeat the request and change nothing. With `follow_redirects` off, a
redirect is one of the gateways' answers.

`Submission` is what an author may rely on: a call that returns has told which of
its events were appended; one that is refused has appended none and never will;
one that ends unclear may have appended any of them, or may still. The mapping
`Status` counts as refused a `ValueError` of the arguments and every `PhipError`
with a status below 500. That is the reason why a transport error and a
success that cannot be read have the status 500 of the class: an answer that
says nothing must not look like a refusal.

### TokenGate

`MintToken` is `mint_token`; `minted` is what it has signed. `gates[t]` is one
verification by task `t` as the documentation asks for it: `parse_token`
(`PresentGarbled` where it raises, else `PresentToken`), `resolve_key` with the
token's `not_before` as `at`, then `verify_token` at whatever time the lookup has
come back (`VerifyToken`). The lookup is taken from `KeyDirectory`, which
`FederationCache` is shown to implement: `Resolve` and `ResolutionFails` end a
lookup that had to wait, with a document or without one, `PresentAndResolve` is one
that a cache answers. What is published need not be usable: `KeyFault` is all that
`resolve_key` does with the document, `AttributeError` and `OverflowError` included, and
`AfterLookup` its effect on a fresh document and a cached one alike. The presenter chooses the key that is
looked up, since `key_id` is not signed. `Presentable` is what may arrive: tokens
as minted, with another grant under their signature, without signature, and
tokens made by hand with a key in `Compromised`.

A glob is the set of names it matches, and the empty glob is `{EmptyName}`. A time
that is missing or cannot be parsed is `NoTime`, which is no limit: a token whose
`expires` is mistyped never expires, and `mint_token` signs it, because it does not
look at the times. `StrangersReadTopologyOnly` holds by `MintRefused` alone, as
the docstring of `verify_token` warns; the mutant without it breaks the property.
`Overflow` is a time so near the end of datetime's range that its conversion to UTC
raises `OverflowError`, which `_parse_dt` lets through: such a limit is not a missing
one but an exception, for `not_before` before anything is compared. `at` is the
caller's: of a `not_before` that cannot be converted it has the time itself, which is
outside every window, or none (`Anchors`). `granted_by` and `token_id` are compared with nothing in the code and left out, as
is an explicit `verification_time`, which makes the decision a function.

## 3. Runs

| run | bounds | shows |
|---|---|---|
| federation_races | 2 tasks, 1 URL, 2 publications, lifetimes 1 and 2, clock to 3 | lifetimes, races and the refinement of `KeyDirectory` |
| federation_keys | 2 tasks, 8 kinds of document, anchors 0, 2 and none, 2 publications | every path of `resolve_key` over a shared cache |
| json_get | 27 addresses on both sides of the ranges' ends, alone or with a public one, pieces of 1 or 2 bytes, cap 3, timeout 2, 3 reads counted | one request with the address filter, with liveness |
| topology_read | 2 objects, 4 events each | stitching and first pages |
| topology_read_null | 2 objects, 2 events each | finding: a null hash resets the link |
| chain_walk | 2 objects, 2 actors (1 honest), 2 bodies, 2 pushes, lists of 3 | signatures fix histories |
| bundle_verify | 2 objects, 2 actors and an outsider, 2 events in all, histories walked to 3 | bundles as made and altered |
| token_gate | 1 verification, 2 keys (1 compromised), 7 grants, 9 requests, 7 kinds of document, 2 publications, 1 token minted, clock to 2 | grants, windows and keys over time |
| bundle_archive | 2 ids with 3 spellings, 16 bundles, archives of 5 members of which 1 was not packed | packing and unpacking |
| client_calls | 2 tasks (`create` and `meta`; `batch_push`), 2 objects of 1 event, 2 refusals, statuses 302 and 502, redirects to endpoints | submissions and the refinement of `Submission` |
| client_errors | the same with 1 object | finding: error responses that leave as other exceptions |
| client_redirect | the same with 1 object and redirects to objects | finding: a redirected push that appends nothing returns |

Why these are enough. Two tasks: a race needs one call in flight and another
that stores; two publications make old and new. The clock reaches past the
longest lifetime. Two pieces of the body can reach the cap exactly and pass it.
Four events let a page of two be followed, skipped or repeated by another of two.
Two pushes on one head, and three places in a list, let a list hold a fork. Two
bundled events are two histories of one event or one of two. `MaxElapsed` lies
above every time `DurationBounded` allows, so saturation hides nothing. `reads` is
counted up to `MaxReads` but not limited by it: a call may go on reading for ever, and
`DurationBounded` speaks of the states before the count is full, for every `MaxReads`
in the theorem. Objects
and bodies that no definition tells apart are symmetric. Verifications share
nothing but the minted tokens and the publications, so one suffices; one minted
token together with any grant under its signature stands for two. Five members of
an archive hold the largest bundle whole, and of the smaller ones all members with
a second copy, a second spelling or an alien. Calls affect one another only by the chains, so two tasks, one with
a batch over two objects and one with single events on one of them, show a call
that ends by what another one or a late event has appended; chains of one event
suffice for the conflict. `create` and `push` have the same control, and so have
the two batch operations. Two refusals stand for those that `meta` treats apart
(404) and those that it does not; the proofs cover all codes and statuses.

Deadlock is not checked where the modelled call ends for good (`JsonGet`,
`TopologyRead`, `ChainWalk`, `BundleVerify`, `BundleArchive`, `TokenGate`) or every event
there is has been appended (`ClientCalls`); the cache never stops, because calls may
always be made.

Fairness is stated in `JsonGet` only: time passes and httpx's timer fires, the
call goes on from its URL, and the resolver answers. The first two are the event
loop's; the last is an assumption, as `getaddrinfo` is awaited without a timeout.
Nothing is asked of the peer. That is why `EndsUnlessFedForEver` needs the timer in
every state on the wire, and why it has its second half: that every call ends is false
of the code, because a peer may send a byte before each timeout for ever. In the
header informational responses allow it, in the body an encoding that yields
nothing; neither the timeout nor the size cap then ends the call.

For the clients nothing is promised in time: their timeout limits each read, a
peer may send a byte before every one, and unlike `_json_get` they cap no body.

Each run that is expected to fail shows one sentence of the repository's
documentation to be wrong of the code; `PROJECT.json` quotes it under "findings". Further sentences that the models show to be
inexact, without a run of their own:

- `_clamp_ttl` does not bound lifetimes from below (docstring, `federation.py` 291);
  a max-age under the default is taken as it is (`ClampTtl`).
- `timeout_seconds` is no total timeout (`federation.py` 75); `DurationBounded` says
  what it bounds, and `EndsUnlessFedForEver` that a request need not end.
- `resolve_key` raises `AttributeError`, `RecursionError` and `InvalidURL` as well
  (`Outcome`, `FetchFaults`), where lines 122-125 name `ValueError` and `KeyExpired`.
- `verify_bundle` raises `KeyNotFound` for an event that names the producer's key
  by its full URI when that key is not embedded, though line 148 of `bundle.py`
  exempts it (`ResolveEventKey`), and `KeyError` or `ValueError` for manifests that
  lack a field or signatures that cannot be decoded, where line 150 says
  `PhipError` (`ManifestFault`).
- `unpack_bundle` lets `tarfile`, json and codec errors through, where line 318 says
  `PhipError` (`Open`, `ReadMember`).
- `verify_token` and `resolve_key` raise `OverflowError` for a time at the end of
  datetime's range (`TokenFault`, `WindowOutcome`).

## 4. Proofs

All theorems hold for every value of the constants that satisfies the named
assumptions (positive lifetimes in order, model values that differ from data).
Every invariant and action property of a run that is expected to pass is one of
them, except liveness. Four have a hypothesis more, which a finding shows to be
necessary: that no authority signs a null `event_hash`
(`StitchedIsPrefix`, `StitchedIsLinked`), and that no redirect leads to a page that
answers a GET (`ReturnedIsAppended` and the refinement of `Submission`).

- **FederationCacheProofs.** `IndInv` adds to the properties that publications are
  ordered in time, that an entry's body was current until the entry's expiry
  minus its lifetime, and that a response under way was current when its call
  began. The second is what makes hits safe and the third what makes stores
  safe; without them `StalenessBounded` is not inductive. From it follow
  `TypeCorrect`, `StalenessIsBounded`, `ReturnedKeysAreUsable`,
  `RegressionsOverlap` and, by mapping each action to one of `KeyDirectory` or a
  stutter, `CacheImplementsDirectory`.
- **JsonGetProofs.** `ConnectsOnlyWhenVetted`, `BodyCapped` and `DurationBounded`
  are inductive together with the types. For the last each step ends a wait, which
  makes room for `timeout_seconds` more (`OneMoreWait`), or leaves the timer alone, or
  is a second of both. `FilterIsExact`: for every address the
  filter agrees with the blocks, by arithmetic on octets and digits; it is the
  only fact on the filter that `VettedBeforeConnect` uses.
- **TopologyReadProofs.** A page that verifies is a slice of a chain, or one that
  the authority signed with a null hash (`VerifiedIsSigned`). Without the latter
  (`SlicesOnly`), which a sound source excludes and otherwise
  `"null_hash" \notin Defects`, every accepted entry has a hash; the last one
  determines the object and the number of entries accepted, and the next page can
  only continue them. `IndInv` has `StitchedIsPrefix` under `SlicesOnly`, so that
  types and the acceptance of sound reads are proved for any pages; what is said
  of the entries of any source is proved for authorities that sign no null hash.
- **ChainWalkProofs.** `IndInv` says that chains are chained and of signed events,
  that what an actor signs follows a beginning of the history, and that what has
  passed is chained and carries good signatures. `HashDetermines` turns equal
  hashes into equal histories.
- **BundleVerifyProofs.** Types, and `TrustedHistoriesAreTheProducers`: the signed
  manifest fixes the heads, and a head fixes a history. `KeyInv` adds that what has
  passed was resolved by one of the three rules, from which
  `ForeignEventsCarryEmbeddedKeys` follows. `SoundBundlesVerify` is proved under
  `DictsArePresent`, that a dict of heads is not the value for a missing field: then
  the history that is walked is the one the manifest was made of, each link fits,
  and the rule that `Resolvable` names finds the key; the least entry that the
  code's loop would take exists by well-founded induction.
- **BundleArchiveProofs.** `IndInv`, which the run checks as well, relates the dicts
  that the loop fills to the members read so far: a value is that of the last file
  whose name stands for its key (`LastMemberIsStored`), the manifest is one that
  was read (`ManifestIsRead`), and the loop has been left if and only if a file
  could not be parsed (`FilesParse`). `RoundTrip`, `LossOnlyRemoves` and
  `LastMemberCounts` hold by it in every state: a value is a member's, a packed
  member determines its item (`MemberOfItem`, by the inverse of `Quote`), and
  its lines are the item's, since `Lines` leaves a member without blank lines as it
  is (`NoBlankLines`). `Lines` is written without recursion, by the number of lines
  kept up to each; `NthElement` shows that the n-th of them exists.
- **TokenGateProofs.** `IndInv` says that minted signatures cover what they are
  on, that a signature of an uncompromised key on a presented token is a minted
  one, that the key in hand is that of a document which `KeyDirectory` may have
  answered and which was usable for the token (`Usable`), and that no read began in the
  future; the last makes a publication
  that arrives during a verification harmless. All five properties of the run
  follow.
- **ClientCallsProofs.** `IInv` relates the
  answer that is on its way to what is done and left to do: an answer below 500
  leaves nothing to do, an envelope below 500 or a status that is an error for
  the operation goes with nothing appended. Types and `ErrorBelow500IsRefusal`
  follow. Under `RedirectsStay`, that no redirect leads to a page that answers a
  GET, 200 or 201 for a single event moreover goes with the event appended, which
  gives `ReturnedIsAppended`, and each step is mapped to one of `Submission` or a
  stutter (`CallsImplementSubmissions`). `DecodableErrorsBecomePhipErrors` says that
  the run client_errors has found all there is: an error response whose body can be
  decoded and whose code can be looked up always becomes a `PhipError` of its status.

Only model-checked: `EndsUnlessFedForEver`, which is liveness, and the
violations.

## 5. Not modelled

- The second resolution that httpx makes when it connects (the known gap that
  the docstring of `federation.py` states).
- Key rotation inside a chain walk: `verify_chain` asks its resolver for one key
  per `key_id` and has no notion of time.
- Truncation: `next_cursor` is not signed, and a reader cannot tell a shorter
  chain from a read that ends early.
- Object projections in `bundle.objects`, which `verify_bundle` does not look at.
- Eviction: the cache has none.
- Paging by the clients: `history` and `get_topology` return one page as it came;
  the cursor, the order and the loop are the caller's. What a reader may conclude
  from pages is the subject of `TopologyRead` and `ChainWalk`.
- Answers of status 200 by which a gateway stands in for the resolver (a captive
  portal): a client that does not verify what it is given cannot tell, and nothing
  in the code promises that it would.
- `message`, `details` and `current_head` of an error, the authorization header and
  the quoting of paths: passed through, and no decision depends on them.
- PhIP URIs (`uri.py`): one regular expression on one string, without state; a model
  would repeat it character by character. URIs are model values.
- Canonical JSON (`canonicalize.py`): one call into rfc8785, whose code is not in the
  repository; taken to be injective. Key generation and base64 (`crypto.py`) likewise
  belong to libraries.
- Package exports, versions, exception texts.

## 6. Plan

Every part that keeps state or makes decisions is modelled, and every safety
property of the runs is proved. What could follow: that a bundle which was packed,
carried in an archive and unpacked passes `verify_bundle` (`BundleArchive` and
`BundleVerify` composed), and a reader that pages through `get_topology` with a cursor
while the chain grows.
