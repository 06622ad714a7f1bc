---------------------------- MODULE BundleVerify ----------------------------
(***************************************************************************)
(* Bundles (phip.bundle): a producer signs a manifest of the heads of some *)
(* histories (make_bundle), the bundle is carried to a reader, perhaps     *)
(* altered, and the reader checks it (verify_bundle): the manifest, then   *)
(* each history, one step per event, then its head.  What a history in the *)
(* bundle holds is revealed as it is walked.                               *)
(*                                                                         *)
(* An actor stands for the URI of its key actor and for its key.           *)
(***************************************************************************)
EXTENDS Events, FiniteSets

CONSTANTS Objects, Actors, Bodies,
          Producer,         \* created_by, and the key that signs the manifest
          Outsider,         \* the key of somebody else
          Tails, TailOf,    \* TailOf[a]: the bare id that a's URI ends with
          KeyDicts,         \* what a producer may embed: sequences of [uri, key]
          ForgedKeyDicts,   \* what may be put in their place
          Absent,           \* a missing field of the manifest
          MaxEvents         \* bound: events in all histories

ASSUME ActorAssumption ==
  /\ Producer \in Actors /\ Outsider \notin Actors /\ NoKey \notin Actors \cup {Outsider}
  /\ Absent \notin Actors
  /\ NoSignature \notin Actors \cup Tails /\ Tails \cap Actors = {}
  /\ TailOf \in [Actors -> Tails]
ASSUME KeyDictAssumption ==
  KeyDicts \cup ForgedKeyDicts \subseteq
    Seq([uri : Actors, key : Actors \cup {Outsider, NoKey}])
ASSUME MaxEventsAssumption == MaxEvents \in Nat

VARIABLES chain,            \* chain[o]: the history of o at its authority
          counts,           \* counts[o]: events of the bundled history of o
          sound,            \* whether the bundle arrives as it was made
          trusted,          \* whether the reader has producer_public_key
          bundle,           \* what the reader has: [manifest, keys]
          pc,               \* "growing", "made", "objects", "walking" or an end
          current, walked,  \* the object whose history is walked, and how far
          accepted          \* accepted[o]: the histories that have passed

vars == <<chain, counts, sound, trusted, bundle, pc, current, walked, accepted>>
reader == <<sound, trusted, current, walked, accepted>>

Errors == {"PhipError", "InvalidEvent", "InvalidSignature", "KeyNotFound", "KeyError",
           "ValueError"}

-----------------------------------------------------------------------------
(* Making a bundle *)

\* Actor a extends o, naming its key by its URI or by the tail of it.
Extend(o, a, b, key_id) ==
  /\ pc = "growing"
  /\ Cardinality(UNION {{x} \X (1..Len(chain[x])) : x \in Objects}) < MaxEvents
  /\ chain' = [chain EXCEPT ![o] = Append(@,
       SignEvent([phip_id |-> o, actor |-> a, body |-> b,
                  previous_hash |-> IF @ = <<>> THEN Genesis ELSE HashEvent(@[Len(@)])],
                 a, key_id))]
  /\ UNCHANGED <<counts, bundle, pc, reader>>

\* The manifest without its signature; created_at, authority and the like are
\* left out.
UnsignedManifest(m) == [created_by |-> m.created_by, heads |-> m.heads]

SignManifest(unsigned, key) ==
  [created_by |-> unsigned.created_by, heads |-> unsigned.heads,
   signature |-> [key |-> key, over |-> unsigned]]

\* The object entries of a manifest: history_head by phip_id.
Heads(n) == [o \in DOMAIN n |-> HashEvent(chain[o][n[o]])]

\* Mutant of MakeBundle: an object without events is let in.
MakeBundleEmpty(n, keys) ==
  /\ pc = "growing"
  /\ pc' = "made" /\ counts' = n
  /\ bundle' = [manifest |-> SignManifest([created_by |-> Producer,
                   heads |-> [o \in DOMAIN n |->
                     IF n[o] = 0 THEN Genesis ELSE HashEvent(chain[o][n[o]])]], Producer),
                keys |-> keys]
  /\ UNCHANGED <<chain, reader>>

\* make_bundle for the first n[o] events of each o.
MakeBundle(n, keys) ==
  /\ pc = "growing"
  /\ IF \E o \in DOMAIN n : n[o] = 0
     THEN pc' = "PhipError" /\ UNCHANGED <<counts, bundle>>
     ELSE /\ pc' = "made"
          /\ counts' = n
          /\ bundle' = [manifest |-> SignManifest([created_by |-> Producer,
                                                   heads |-> Heads(n)], Producer),
                        keys |-> keys]
  /\ UNCHANGED <<chain, reader>>

-----------------------------------------------------------------------------
(* On the way *)

\* What somebody with only a key of its own can sign to follow history h of o.
ForgedEvents(o, h) ==
  {SignEvent(u, Outsider, id) :
     u \in [phip_id : {o}, actor : Actors, body : Bodies,
            previous_hash : {IF h = <<>> THEN Genesis ELSE HashEvent(h[Len(h)])}],
     id \in Actors \cup Tails}

\* Other heads: of histories of another length, or of forged ones.
OtherHeads(heads) ==
  UNION {{[heads EXCEPT ![o] = HashEvent(e)] :
            e \in ForgedEvents(o, <<>>) \cup {chain[o][k] : k \in 1..Len(chain[o])}} :
           o \in DOMAIN heads}

\* A manifest that has lost a field or its signature, or has a malformed one, or
\* other heads, the signature as it was or somebody else's.
AlteredManifests(m) ==
  {[m EXCEPT !.created_by = Absent], [m EXCEPT !.heads = Absent],
   [m EXCEPT !.signature = [@ EXCEPT !.key = Absent]],
   [m EXCEPT !.signature = [@ EXCEPT !.key = NoKey]]}
  \cup {SignManifest([created_by |-> Absent, heads |-> m.heads], Outsider),
        SignManifest([created_by |-> m.created_by, heads |-> Absent], Outsider)}
  \cup {[m EXCEPT !.heads = h] : h \in OtherHeads(m.heads)}
  \cup {SignManifest([created_by |-> m.created_by, heads |-> h], Outsider) :
          h \in OtherHeads(m.heads)}

-----------------------------------------------------------------------------
(* Keys *)

\* _embedded_key: a malformed record has NoKey, a missing one gives it.
EmbeddedKey(keys, uri) ==
  IF \E k \in DOMAIN keys : keys[k].uri = uri
  THEN keys[CHOOSE k \in DOMAIN keys : keys[k].uri = uri].key
  ELSE NoKey

\* Mutant of ResolveEventKey: a producer's key is good for every actor.
ResolveEventKeyUnguarded(keys, key_id, producer_key, actor) ==
  IF EmbeddedKey(keys, key_id) # NoKey THEN EmbeddedKey(keys, key_id)
  ELSE IF key_id \in Tails THEN producer_key ELSE NoKey

\* The records whose URI ends with a bare id.
TailMatches(keys, key_id) == {k \in DOMAIN keys : TailOf[keys[k].uri] = key_id}

\* Mutant of ResolveEventKey: bare ids are not matched with the tails of URIs.
ResolveEventKeyNoTails(keys, key_id, producer_key, actor) ==
  IF EmbeddedKey(keys, key_id) # NoKey THEN EmbeddedKey(keys, key_id)
  ELSE IF key_id \in Tails /\ actor = Producer THEN producer_key
  ELSE NoKey

\* _resolve_event_key: full URI, else the first URI with the tail, else the
\* producer for its own events.
ResolveEventKey(keys, key_id, producer_key, actor) ==
  IF EmbeddedKey(keys, key_id) # NoKey THEN EmbeddedKey(keys, key_id)
  ELSE IF key_id \in Actors THEN NoKey
  ELSE IF TailMatches(keys, key_id) # {}
  THEN keys[CHOOSE k \in TailMatches(keys, key_id) :
              \A m \in TailMatches(keys, key_id) : k <= m].key
  ELSE IF actor = Producer THEN producer_key
  ELSE NoKey

\* producer_public_key, else the embedded key of created_by.
ProducerKey == IF trusted THEN Producer ELSE EmbeddedKey(bundle.keys, Producer)

-----------------------------------------------------------------------------
(* verify_bundle *)

ManifestSigned(m, key) == m.signature.key = key /\ m.signature.over = UnsignedManifest(m)

\* Mutant of ManifestFault: the signature only has to be the producer's.
ManifestFaultAnyManifest(m) ==
  IF m.signature.key = Absent THEN "PhipError"
  ELSE IF ProducerKey = NoKey THEN "KeyNotFound"
  ELSE IF m.signature.key # ProducerKey THEN "InvalidSignature"
  ELSE IF m.heads = Absent THEN "KeyError"
  ELSE "none"

\* What step 1 raises, or "none"; a signature of NoKey is one that cannot be decoded.
ManifestFault(m) ==
  IF m.signature.key = Absent THEN "PhipError"
  ELSE IF ~trusted /\ m.created_by = Absent THEN "KeyError"
  ELSE IF ProducerKey = NoKey THEN "KeyNotFound"
  ELSE IF m.signature.key = NoKey THEN "ValueError"
  ELSE IF ~ManifestSigned(m, ProducerKey) THEN "InvalidSignature"
  ELSE IF m.heads = Absent THEN "KeyError"
  ELSE "none"

\* A reader gets b and checks its manifest.
CheckManifest(b, is_sound, has_key) ==
  /\ pc = "made"
  /\ sound' = is_sound /\ trusted' = has_key /\ bundle' = b
  /\ pc' = IF ManifestFault(b.manifest)' = "none" THEN "objects" ELSE ManifestFault(b.manifest)'
  /\ UNCHANGED <<chain, counts, current, walked, accepted>>

\* The loop takes the next entry of the manifest; the order is any.
NextObject(o) ==
  /\ pc = "objects" /\ o \in DOMAIN bundle.manifest.heads \ DOMAIN accepted
  /\ pc' = "walking" /\ current' = o /\ walked' = <<>>
  /\ UNCHANGED <<chain, counts, sound, trusted, bundle, accepted>>

\* What an event of a history raises, or "none".
EventFault(e) ==
  LET key == ResolveEventKey(bundle.keys, e.signature.key_id, ProducerKey, e.actor) IN
    IF e.previous_hash # ExpectedPrevious(walked, e) THEN "InvalidEvent"
    ELSE IF e.signature.key_id = NoSignature THEN "InvalidEvent"
    ELSE IF key = NoKey THEN "KeyNotFound"
    ELSE IF ~VerifyEvent(e, key) THEN "InvalidSignature"
    ELSE "none"

WalkEvent(e) ==
  /\ pc = "walking" /\ Len(walked) < MaxEvents + 1
  /\ IF EventFault(e) = "none"
     THEN walked' = Append(walked, e) /\ UNCHANGED pc
     ELSE pc' = EventFault(e) /\ UNCHANGED walked
  /\ UNCHANGED <<chain, counts, sound, trusted, bundle, current, accepted>>

HeadMatches(o) == HashEvent(walked[Len(walked)]) = bundle.manifest.heads[o]

\* The history of current ends; one that is missing ends at once.
EndOfHistory ==
  /\ pc = "walking"
  /\ IF walked # <<>> /\ HeadMatches(current)
     THEN /\ pc' = "objects"
          /\ accepted' = [o \in DOMAIN accepted \cup {current} |->
                            IF o = current THEN walked ELSE accepted[o]]
     ELSE pc' = "InvalidEvent" /\ UNCHANGED accepted
  /\ UNCHANGED <<chain, counts, sound, trusted, bundle, current, walked>>

Return ==
  /\ pc = "objects" /\ DOMAIN accepted = DOMAIN bundle.manifest.heads
  /\ pc' = "verified"
  /\ UNCHANGED <<chain, counts, bundle, reader>>

\* What the history of current may hold next: in a sound bundle its next event.
NextEvents ==
  IF sound
  THEN {chain[current][k] : k \in {Len(walked) + 1} \cap 1..counts[current]}
  ELSE LET events == UNION {{chain[o][k] : k \in 1..Len(chain[o])} : o \in Objects} IN
         events \cup ForgedEvents(current, walked)
         \cup UNION {AlteredEvents(e, Objects, Actors, Bodies, Actors \cup Tails) : e \in events}

Init ==
  /\ chain = [o \in Objects |-> <<>>]
  /\ counts = <<>>
  /\ sound = FALSE /\ trusted = FALSE
  /\ bundle = <<>>
  /\ pc = "growing"
  /\ current = Absent /\ walked = <<>>
  /\ accepted = <<>>

Next ==
  \/ \E o \in Objects, a \in Actors, b \in Bodies :
       \E key_id \in {a, TailOf[a]} : Extend(o, a, b, key_id)
  \/ \E S \in (SUBSET Objects) \ {{}} : \E n \in [S -> 0..MaxEvents] : \E keys \in KeyDicts :
       (\A o \in S : n[o] <= Len(chain[o])) /\ MakeBundle(n, keys)
  \/ \E has_key \in BOOLEAN : pc = "made" /\ CheckManifest(bundle, TRUE, has_key)
  \/ pc = "made" /\
       \E m \in {bundle.manifest} \cup AlteredManifests(bundle.manifest) :
         \E keys \in {bundle.keys} \cup ForgedKeyDicts : \E has_key \in BOOLEAN :
           CheckManifest([manifest |-> m, keys |-> keys], FALSE, has_key)
  \/ pc = "objects" /\ \E o \in DOMAIN bundle.manifest.heads : NextObject(o)
  \/ pc = "walking" /\ \E e \in NextEvents : WalkEvent(e)
  \/ EndOfHistory /\ (sound => Len(walked) = counts[current])
  \/ Return

Spec == Init /\ [][Next]_vars

-----------------------------------------------------------------------------
(* Properties *)

TypeOK ==
  /\ DOMAIN chain = Objects /\ \A o \in Objects : IsHistory(chain[o])
  /\ sound \in BOOLEAN /\ trusted \in BOOLEAN
  /\ pc \in {"growing", "made", "objects", "walking", "verified"} \cup Errors
  /\ DOMAIN counts \subseteq Objects
  /\ \A o \in DOMAIN counts : counts[o] \in 1..Len(chain[o])
  /\ IsHistory(walked)
  /\ \A o \in DOMAIN accepted : IsHistory(accepted[o])

\* A reader that has the producer's key gets the histories the producer put in,
\* every one of them, no event missing, added, altered or signed anew, whatever
\* came of the manifest, the histories and the embedded keys on the way.
TrustedHistoriesAreTheProducers ==
  trusted =>
    /\ \A o \in DOMAIN accepted :
         o \in DOMAIN counts /\ accepted[o] = SubSeq(chain[o], 1, counts[o])
    /\ pc = "verified" => DOMAIN accepted = DOMAIN counts

\* Even in a bundle that nobody vouches for, an event that claims an actor other
\* than the producer is signed with a key embedded under the name it gives.
ForeignEventsCarryEmbeddedKeys ==
  \A o \in DOMAIN accepted : \A k \in DOMAIN accepted[o] :
    LET e == accepted[o][k] IN
      e.actor # Producer =>
        \E i \in DOMAIN bundle.keys :
          /\ bundle.keys[i].key = e.signature.key
          /\ e.signature.key_id \in {bundle.keys[i].uri, TailOf[bundle.keys[i].uri]}

BundledEvents == UNION {{chain[o][k] : k \in 1..counts[o]} : o \in DOMAIN counts}

\* The key of e is embedded under its full id, or under the one URI that ends
\* with its bare id; else e is the producer's own.
Resolvable(e) ==
  LET id == e.signature.key_id IN
    \/ id \in Actors /\ EmbeddedKey(bundle.keys, id) = e.signature.key
    \/ /\ id \in Tails /\ TailMatches(bundle.keys, id) # {}
       /\ \A i \in TailMatches(bundle.keys, id) : bundle.keys[i].key = e.signature.key
    \/ /\ id \in Tails /\ TailMatches(bundle.keys, id) = {}
       /\ e.actor = Producer /\ e.signature.key = Producer

\* A bundle that arrives as it was made, with keys for all its events, verifies.
SoundBundlesVerify ==
  /\ sound /\ ProducerKey = Producer
  /\ \A e \in BundledEvents : Resolvable(e)
  => pc \notin Errors
=============================================================================
