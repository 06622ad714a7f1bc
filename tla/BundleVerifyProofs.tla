------------------------- MODULE BundleVerifyProofs -------------------------
(***************************************************************************)
(* Proofs, for histories of any length and any actors and embedded keys,   *)
(* of what a reader with the producer's key gets from a bundle.            *)
(***************************************************************************)
EXTENDS BundleVerify, TLAPS, WellFoundedInduction

-----------------------------------------------------------------------------
(* What a chain of hashes determines, for lists of events of any length and
   content. *)

LEMMA SeqOfItsOwn ==
  ASSUME NEW S, NEW s \in Seq(S)
  PROVE  IsSeq(s) /\ Len(s) \in Nat /\ DOMAIN s = 1..Len(s)
<1>1. \A k \in 1..Len(s) : s[k] \in {s[m] : m \in DOMAIN s}
  OBVIOUS
<1>2. s \in Seq({s[m] : m \in DOMAIN s})
  BY <1>1
<1> QED
  BY <1>2 DEF IsSeq

LEMMA IsSeqFacts ==
  ASSUME NEW s, IsSeq(s)
  PROVE  Len(s) \in Nat /\ DOMAIN s = 1..Len(s)
<1> DEFINE S == {s[m] : m \in DOMAIN s}
<1>1. s \in Seq(S)
  BY DEF IsSeq
<1> HIDE DEF S
<1> QED
  BY <1>1

LEMMA AppendFacts ==
  ASSUME NEW s, IsSeq(s), NEW e
  PROVE  /\ IsSeq(Append(s, e))
         /\ Len(Append(s, e)) = Len(s) + 1
         /\ \A k \in 1..Len(s) : Append(s, e)[k] = s[k]
         /\ Append(s, e)[Len(s) + 1] = e
<1> DEFINE S == {s[m] : m \in DOMAIN s}
           T == S \cup {e}
<1>1. s \in Seq(S)
  BY DEF IsSeq
<1> HIDE DEF S
<1>2. s \in Seq(T) /\ e \in T
  BY <1>1
<1> HIDE DEF T
<1>3. /\ Append(s, e) \in Seq(T)
      /\ Len(Append(s, e)) = Len(s) + 1
      /\ \A k \in 1..Len(s) : Append(s, e)[k] = s[k]
      /\ Append(s, e)[Len(s) + 1] = e
  BY <1>2
<1> QED
  BY <1>3, SeqOfItsOwn

LEMMA AppendHistory ==
  ASSUME NEW s, IsHistory(s), NEW e, IsEvent(e)
  PROVE  IsHistory(Append(s, e))
<1>1. IsSeq(s) /\ Len(s) \in Nat
  BY IsSeqFacts DEF IsHistory
<1>2. ASSUME NEW k \in 1..Len(Append(s, e))
      PROVE  IsEvent(Append(s, e)[k])
  <2>1. k \in 1..Len(s) \/ k = Len(s) + 1
    BY <1>1, AppendFacts
  <2> QED
    BY <1>1, <2>1, AppendFacts DEF IsHistory
<1> QED
  BY <1>1, <1>2, AppendFacts DEF IsHistory

\* The hash of a chain's last event is made of the contents of all its events.
LEMMA HashOfLast ==
  ASSUME NEW s, IsSeq(s), Chained(s), NEW n \in 1..Len(s)
  PROVE  HashEvent(s[n]) = HashOfFirst(s, n)
<1>1. Len(s) \in Nat /\ n \in Nat /\ n - 1 \in Nat
  BY IsSeqFacts
<1>2. s[n].previous_hash = HashOfFirst(s, n - 1)
  BY DEF Chained
<1> DEFINE C == {Content(s[k]) : k \in 1..n}
<1>3. HashOfFirst(s, n - 1) \in Seq(C) /\ Len(HashOfFirst(s, n - 1)) = n - 1
  BY <1>1 DEF HashOfFirst
<1>4. Content(s[n]) \in C
  BY <1>1
<1> HIDE DEF C
<1>5. /\ Append(HashOfFirst(s, n - 1), Content(s[n])) \in Seq(C)
      /\ Len(Append(HashOfFirst(s, n - 1), Content(s[n]))) = n
      /\ \A k \in 1..(n - 1) :
           Append(HashOfFirst(s, n - 1), Content(s[n]))[k] = HashOfFirst(s, n - 1)[k]
      /\ Append(HashOfFirst(s, n - 1), Content(s[n]))[n] = Content(s[n])
  BY <1>1, <1>3, <1>4
<1>6. \A k \in 1..(n - 1) : HashOfFirst(s, n - 1)[k] = Content(s[k])
  BY DEF HashOfFirst
<1>7. \A k \in 1..n :
        Append(HashOfFirst(s, n - 1), Content(s[n]))[k] = Content(s[k])
  BY <1>1, <1>5, <1>6
<1>8. Append(HashOfFirst(s, n - 1), Content(s[n])) = [k \in 1..n |-> Content(s[k])]
  BY <1>1, <1>5, <1>7
<1> QED
  BY <1>2, <1>8 DEF HashEvent, HashOfFirst

\* An event that names the hash of a chain's last event continues the chain.
LEMMA ChainExtends ==
  ASSUME NEW s, IsSeq(s), Chained(s), NEW e,
         e.previous_hash = IF s = <<>> THEN Genesis ELSE HashEvent(s[Len(s)])
  PROVE  /\ Chained(Append(s, e))
         /\ e.previous_hash = HashOfFirst(s, Len(s))
<1>1. Len(s) \in Nat /\ DOMAIN s = 1..Len(s)
  BY IsSeqFacts
<1>2. e.previous_hash = HashOfFirst(s, Len(s))
  <2>1. CASE s = <<>>
    BY <2>1 DEF HashOfFirst, Genesis
  <2>2. CASE s # <<>>
    <3>1. Len(s) # 0
      <4> DEFINE S == {s[m] : m \in DOMAIN s}
      <4>1. s \in Seq(S)
        BY DEF IsSeq
      <4> HIDE DEF S
      <4> QED
        BY <2>2, <4>1
    <3> QED
      BY <1>1, <2>2, <3>1, HashOfLast
  <2> QED
    BY <2>1, <2>2
<1>3. ASSUME NEW k \in 1..Len(Append(s, e))
      PROVE  Append(s, e)[k].previous_hash = HashOfFirst(Append(s, e), k - 1)
  <2>1. HashOfFirst(Append(s, e), k - 1) = HashOfFirst(s, k - 1)
    <3>1. Len(Append(s, e)) = Len(s) + 1
      BY AppendFacts
    <3>2. \A m \in 1..(k - 1) : m \in 1..Len(s)
      BY <1>1, <3>1
    <3>3. \A m \in 1..(k - 1) : Append(s, e)[m] = s[m]
      BY <3>2, AppendFacts
    <3> QED
      BY <3>3 DEF HashOfFirst
  <2>2. k \in 1..Len(s) \/ k = Len(s) + 1
    BY <1>1, AppendFacts
  <2>3. CASE k \in 1..Len(s)
    BY <2>1, <2>3, AppendFacts DEF Chained
  <2>4. CASE k = Len(s) + 1
    <3>1. k - 1 = Len(s)
      BY <1>1, <2>4
    <3> QED
      BY <1>2, <2>1, <2>4, <3>1, AppendFacts
  <2> QED
    BY <2>2, <2>3, <2>4
<1> QED
  BY <1>2, <1>3 DEF Chained

\* A hash determines the events it stands for: two chains with the same hash
\* after n events agree on all n, signatures included.
LEMMA HashDetermines ==
  ASSUME NEW s, NEW t, IsHistory(s), IsHistory(t), Chained(s), Chained(t),
         NEW n \in Nat, n <= Len(s), n <= Len(t), HashOfFirst(s, n) = HashOfFirst(t, n)
  PROVE  \A k \in 1..n : s[k] = t[k]
<1>0. Len(s) \in Nat /\ Len(t) \in Nat
  BY IsSeqFacts DEF IsHistory
<1>1. ASSUME NEW k \in 1..n
      PROVE  Content(s[k]) = Content(t[k])
  <2>1. HashOfFirst(s, n)[k] = Content(s[k]) /\ HashOfFirst(t, n)[k] = Content(t[k])
    BY DEF HashOfFirst
  <2> QED
    BY <2>1
<1>2. ASSUME NEW k \in 1..n
      PROVE  s[k] = t[k]
  <2>1. k \in 1..Len(s) /\ k \in 1..Len(t)
    BY <1>0
  <2>2. \A m \in 1..(k - 1) : m \in 1..n
    OBVIOUS
  <2>3. HashOfFirst(s, k - 1) = HashOfFirst(t, k - 1)
    BY <1>1, <2>2 DEF HashOfFirst
  <2>4. s[k].previous_hash = t[k].previous_hash
    BY <2>1, <2>3 DEF Chained
  <2>5. /\ s[k].phip_id = t[k].phip_id /\ s[k].actor = t[k].actor
        /\ s[k].body = t[k].body /\ s[k].signature = t[k].signature
    BY <1>1 DEF Content
  <2> QED
    BY <2>1, <2>4, <2>5 DEF IsHistory, IsEvent
<1> QED
  BY <1>2

-----------------------------------------------------------------------------

Reading == pc \in {"objects", "walking", "verified"}

ChainsAreChained == \A o \in Objects : Chained(chain[o])

\* Before a reader has the bundle it is as it was made, and nothing has passed.
NothingRead ==
  pc \in {"growing", "made"} => ~trusted /\ ~sound /\ accepted = <<>>

ManifestIsTheProducers ==
  pc = "made" =>
    bundle.manifest =
      SignManifest([created_by |-> Producer, heads |-> Heads(counts)], Producer)

\* What is declared to a reader that has the key, or gets what was made, are the
\* producer's heads.
HeadsAreTheProducers ==
  (sound \/ trusted) /\ Reading => bundle.manifest.heads = Heads(counts)

CurrentIsBundled == (sound \/ trusted) /\ pc = "walking" => current \in DOMAIN counts

IndInv ==
  /\ TypeOK /\ ChainsAreChained /\ NothingRead /\ ManifestIsTheProducers
  /\ HeadsAreTheProducers /\ CurrentIsBundled /\ Chained(walked)
  /\ TrustedHistoriesAreTheProducers

-----------------------------------------------------------------------------

LEMMA EmptyHistory == IsHistory(<<>>) /\ Chained(<<>>) /\ 1..Len(<<>>) = {}
<1>1. <<>> \in Seq({}) /\ 1..Len(<<>>) = {}
  OBVIOUS
<1>2. IsSeq(<<>>)
  BY <1>1, SeqOfItsOwn
<1> QED
  BY <1>1, <1>2 DEF IsHistory, Chained

LEMMA EmptyIffNoLength ==
  ASSUME NEW s, IsSeq(s)
  PROVE  s = <<>> <=> Len(s) = 0
<1> DEFINE S == {s[m] : m \in DOMAIN s}
<1>1. s \in Seq(S)
  BY DEF IsSeq
<1> HIDE DEF S
<1> QED
  BY <1>1

LEMMA SignedIsEvent ==
  ASSUME NEW u, NEW key, NEW key_id
  PROVE  /\ IsEvent(SignEvent(u, key, key_id))
         /\ SignEvent(u, key, key_id).previous_hash = u.previous_hash
BY DEF SignEvent, IsEvent

LEMMA InitIndInv == Init => IndInv
<1> SUFFICES ASSUME Init PROVE IndInv
  OBVIOUS
<1>1. \A o \in Objects : chain[o] = <<>>
  BY DEF Init
<1>2. DOMAIN <<>> = {}
  OBVIOUS
<1>3. TypeOK
  BY <1>1, <1>2, EmptyHistory DEF Init, TypeOK
<1>4. ChainsAreChained /\ Chained(walked)
  BY <1>1, EmptyHistory DEF Init, ChainsAreChained
<1> QED
  BY <1>2, <1>3, <1>4
  DEF Init, IndInv, NothingRead, ManifestIsTheProducers, HeadsAreTheProducers, Reading,
      CurrentIsBundled, TrustedHistoriesAreTheProducers

LEMMA ExtendKeeps ==
  ASSUME IndInv, NEW o \in Objects, NEW a \in Actors, NEW b \in Bodies, NEW key_id,
         Extend(o, a, b, key_id)
  PROVE  IndInv'
<1> DEFINE h == chain[o]
           e == SignEvent([phip_id |-> o, actor |-> a, body |-> b,
                           previous_hash |-> IF h = <<>> THEN Genesis
                                             ELSE HashEvent(h[Len(h)])], a, key_id)
<1>1. /\ pc = "growing" /\ chain' = [chain EXCEPT ![o] = Append(h, e)]
      /\ UNCHANGED <<counts, bundle, pc, sound, trusted, current, walked, accepted>>
  BY DEF Extend, reader
<1>2. IsEvent(e) /\ e.previous_hash = IF h = <<>> THEN Genesis ELSE HashEvent(h[Len(h)])
  BY SignedIsEvent
<1>3. IsHistory(h) /\ IsSeq(h) /\ Chained(h) /\ DOMAIN chain = Objects
  BY DEF IndInv, TypeOK, ChainsAreChained, IsHistory
<1> HIDE DEF e, h
<1>4. /\ IsHistory(Append(h, e)) /\ Chained(Append(h, e))
      /\ Len(h) \in Nat /\ Len(Append(h, e)) = Len(h) + 1
  BY <1>2, <1>3, AppendHistory, AppendFacts, ChainExtends, IsSeqFacts
<1>5. /\ DOMAIN chain' = Objects /\ chain'[o] = Append(h, e)
      /\ \A x \in Objects : x # o => chain'[x] = chain[x]
  BY <1>1, <1>3
<1>6. TypeOK'
  <2>1. ASSUME NEW x \in DOMAIN counts
        PROVE  counts[x] \in 1..Len(chain'[x])
    <3>1. x \in Objects /\ counts[x] \in 1..Len(chain[x])
      BY DEF IndInv, TypeOK
    <3> QED
      BY <1>4, <1>5, <3>1 DEF h
  <2> QED
    BY <1>1, <1>4, <1>5, <2>1 DEF IndInv, TypeOK
<1>7. ChainsAreChained'
  BY <1>4, <1>5 DEF IndInv, ChainsAreChained
<1>8. ~trusted /\ ~sound
  BY <1>1 DEF IndInv, NothingRead
<1> QED
  BY <1>1, <1>6, <1>7, <1>8
  DEF IndInv, NothingRead, ManifestIsTheProducers, HeadsAreTheProducers, Reading,
      CurrentIsBundled, TrustedHistoriesAreTheProducers

LEMMA MakeBundleKeeps ==
  ASSUME IndInv, NEW S \in SUBSET Objects, NEW n \in [S -> 0..MaxEvents], NEW keys,
         \A o \in S : n[o] <= Len(chain[o]), MakeBundle(n, keys)
  PROVE  IndInv'
<1>1. pc = "growing" /\ UNCHANGED <<chain, sound, trusted, current, walked, accepted>>
  BY DEF MakeBundle, reader
<1>2. ~trusted /\ ~sound /\ accepted = <<>>
  BY <1>1 DEF IndInv, NothingRead
<1>3. CASE \E o \in DOMAIN n : n[o] = 0
  <2>1. pc' = "PhipError" /\ UNCHANGED <<counts, bundle>>
    BY <1>3 DEF MakeBundle
  <2> QED
    BY <1>1, <1>2, <2>1
    DEF IndInv, TypeOK, Errors, ChainsAreChained, NothingRead, ManifestIsTheProducers,
        HeadsAreTheProducers, Reading, CurrentIsBundled, TrustedHistoriesAreTheProducers
<1>4. CASE ~\E o \in DOMAIN n : n[o] = 0
  <2>1. /\ pc' = "made" /\ counts' = n
        /\ bundle' = [manifest |-> SignManifest([created_by |-> Producer,
                                                 heads |-> Heads(n)], Producer),
                      keys |-> keys]
    BY <1>4 DEF MakeBundle
  <2>2. \A o \in S : n[o] \in 1..Len(chain[o])
    <3> SUFFICES ASSUME NEW o \in S PROVE n[o] \in 1..Len(chain[o])
      OBVIOUS
    <3>1. IsSeq(chain[o]) /\ n[o] # 0 /\ n[o] \in Nat
      BY <1>4, MaxEventsAssumption DEF IndInv, TypeOK, IsHistory
    <3>2. Len(chain[o]) \in Nat
      BY <3>1, IsSeqFacts
    <3> QED
      BY <3>1, <3>2
  <2>3. TypeOK'
    BY <1>1, <2>1, <2>2 DEF IndInv, TypeOK
  <2>4. ManifestIsTheProducers'
    <3>1. Heads(n) = Heads(counts)'
      BY <1>1, <2>1 DEF Heads
    <3>2. bundle'.manifest = SignManifest([created_by |-> Producer, heads |-> Heads(n)], Producer)
      BY <2>1
    <3> QED
      BY <3>1, <3>2 DEF ManifestIsTheProducers
  <2> QED
    BY <1>1, <1>2, <2>1, <2>3, <2>4
    DEF IndInv, ChainsAreChained, NothingRead, HeadsAreTheProducers, Reading,
        CurrentIsBundled, TrustedHistoriesAreTheProducers
<1> QED
  BY <1>3, <1>4

\* Whatever becomes of a manifest, the producer's signature on it is one on the
\* heads that the producer signed.
LEMMA ManifestSignatureCovers ==
  ASSUME NEW u, u = [created_by |-> u.created_by, heads |-> u.heads],
         NEW m, m \in {SignManifest(u, Producer)} \cup AlteredManifests(SignManifest(u, Producer)),
         m.signature.key # Absent, ManifestSigned(m, Producer)
  PROVE  m.heads = u.heads
<1> DEFINE s == SignManifest(u, Producer)
<1>1. s = [created_by |-> u.created_by, heads |-> u.heads,
           signature |-> [key |-> Producer, over |-> u]]
  BY DEF SignManifest
<1>2. m.signature.key = Producer /\ m.signature.over.heads = m.heads
  BY DEF ManifestSigned, UnsignedManifest
<1>3. Producer # Outsider /\ Producer # NoKey
  BY ActorAssumption
<1>4. \A v : SignManifest(v, Outsider).signature.key = Outsider
  BY DEF SignManifest
<1>5. CASE m.signature = s.signature
  BY <1>1, <1>2, <1>5
<1>6. CASE m = [s EXCEPT !.signature = [@ EXCEPT !.key = Absent]]
  BY <1>1, <1>6
<1>7. CASE m = [s EXCEPT !.signature = [@ EXCEPT !.key = NoKey]]
  BY <1>1, <1>2, <1>3, <1>7
<1>8. CASE \E v : m = SignManifest(v, Outsider)
  BY <1>2, <1>3, <1>4, <1>8
<1> HIDE DEF s
<1>9. CASE m = s \/ m = [s EXCEPT !.created_by = Absent] \/ \E h : m = [s EXCEPT !.heads = h]
  <2>1. m.signature = s.signature
    BY <1>1, <1>9
  <2> QED
    BY <1>5, <2>1
<1> QED
  <2>1. m \in {s} \cup AlteredManifests(s)
    BY DEF s
  <2> QED
    BY <1>6, <1>7, <1>8, <1>9, <2>1 DEF AlteredManifests

LEMMA CheckManifestKeeps ==
  ASSUME IndInv, NEW b, NEW is_sound \in BOOLEAN, NEW has_key \in BOOLEAN,
         CheckManifest(b, is_sound, has_key),
         b.manifest \in {bundle.manifest} \cup AlteredManifests(bundle.manifest),
         is_sound => b.manifest = bundle.manifest
  PROVE  IndInv'
<1> DEFINE u == [created_by |-> Producer, heads |-> Heads(counts)]
<1>1. /\ pc = "made" /\ sound' = is_sound /\ trusted' = has_key /\ bundle' = b
      /\ pc' = IF ManifestFault(b.manifest)' = "none" THEN "objects"
               ELSE ManifestFault(b.manifest)'
      /\ UNCHANGED <<chain, counts, current, walked, accepted>>
  BY DEF CheckManifest
<1>2. accepted = <<>> /\ bundle.manifest = SignManifest(u, Producer)
  BY <1>1 DEF IndInv, NothingRead, ManifestIsTheProducers
<1>3. Heads(counts)' = Heads(counts)
  BY <1>1 DEF Heads
<1>4. pc' \in {"objects"} \cup Errors
  BY <1>1 DEF ManifestFault, Errors
<1>5. ASSUME sound' \/ trusted', pc' = "objects"
      PROVE  bundle'.manifest.heads = Heads(counts)
  <2>1. CASE is_sound
    BY <1>1, <1>2, <2>1 DEF SignManifest
  <2>2. CASE ~is_sound
    <3>1. has_key /\ ManifestFault(b.manifest)' = "none"
      BY <1>1, <1>5, <2>2 DEF ManifestFault
    <3>2. ProducerKey' = Producer
      BY <1>1, <3>1 DEF ProducerKey
    <3>3. b.manifest.signature.key # Absent /\ ManifestSigned(b.manifest, Producer)
      BY <1>1, <3>1, <3>2 DEF ManifestFault, ManifestSigned, UnsignedManifest
    <3>4. b.manifest.heads = u.heads
      BY <1>2, <3>3, ManifestSignatureCovers
    <3> QED
      BY <1>1, <3>4
  <2> QED
    BY <2>1, <2>2
<1>6. TypeOK'
  BY <1>1, <1>4 DEF IndInv, TypeOK
<1>7. HeadsAreTheProducers'
  <2>1. Reading' => pc' = "objects"
    BY <1>4 DEF Reading, Errors
  <2> QED
    BY <1>3, <1>5, <2>1 DEF HeadsAreTheProducers
<1>8. TrustedHistoriesAreTheProducers'
  <2>1. DOMAIN accepted' = {} /\ pc' # "verified"
    BY <1>1, <1>2, <1>4 DEF Errors
  <2> QED
    BY <2>1 DEF TrustedHistoriesAreTheProducers
<1>9. ChainsAreChained' /\ Chained(walked)'
  BY <1>1 DEF IndInv, ChainsAreChained, Chained, HashOfFirst, Content
<1>10. NothingRead' /\ ManifestIsTheProducers' /\ CurrentIsBundled'
  BY <1>4 DEF Errors, NothingRead, ManifestIsTheProducers, CurrentIsBundled
<1> QED
  BY <1>6, <1>7, <1>8, <1>9, <1>10 DEF IndInv

LEMMA NextObjectKeeps ==
  ASSUME IndInv, NEW o, NextObject(o)
  PROVE  IndInv'
<1>1. /\ pc = "objects" /\ o \in DOMAIN bundle.manifest.heads
      /\ pc' = "walking" /\ current' = o /\ walked' = <<>>
      /\ UNCHANGED <<chain, counts, sound, trusted, bundle, accepted>>
  BY DEF NextObject
<1>2. TypeOK'
  BY <1>1, EmptyHistory DEF IndInv, TypeOK
<1>3. HeadsAreTheProducers'
  BY <1>1 DEF IndInv, HeadsAreTheProducers, Reading, Heads, HashEvent, Content
<1>4. CurrentIsBundled'
  BY <1>1 DEF IndInv, HeadsAreTheProducers, Reading, Heads, CurrentIsBundled
<1>5. ChainsAreChained' /\ Chained(walked)'
  BY <1>1, EmptyHistory DEF IndInv, ChainsAreChained
<1>6. TrustedHistoriesAreTheProducers' /\ NothingRead' /\ ManifestIsTheProducers'
  BY <1>1 DEF IndInv, TrustedHistoriesAreTheProducers, NothingRead, ManifestIsTheProducers
<1> QED
  BY <1>2, <1>3, <1>4, <1>5, <1>6 DEF IndInv

\* Whatever a history in the bundle holds is an event.
LEMMA NextIsEvent ==
  ASSUME IndInv, pc = "walking", NEW e \in NextEvents
  PROVE  IsEvent(e)
<1>1. CASE sound
  <2>1. PICK k \in {Len(walked) + 1} \cap 1..counts[current] : e = chain[current][k]
    BY <1>1 DEF NextEvents
  <2>2. current \in Objects /\ counts[current] \in 1..Len(chain[current])
        /\ IsHistory(chain[current])
    BY <1>1 DEF IndInv, CurrentIsBundled, TypeOK
  <2>3. k \in 1..Len(chain[current])
    <3>1. Len(chain[current]) \in Nat
      BY <2>2, IsSeqFacts DEF IsHistory
    <3> QED
      BY <2>1, <2>2, <3>1
  <2> QED
    BY <2>1, <2>2, <2>3 DEF IsHistory
<1>2. CASE ~sound
  <2> DEFINE events == UNION {{chain[o][k] : k \in 1..Len(chain[o])} : o \in Objects}
  <2>1. \A f \in events : IsEvent(f)
    BY DEF IndInv, TypeOK, IsHistory
  <2> HIDE DEF events
  <2>2. \/ e \in events
        \/ e \in ForgedEvents(current, walked)
        \/ \E f \in events : e \in AlteredEvents(f, Objects, Actors, Bodies, Actors \cup Tails)
    BY <1>2 DEF NextEvents, events
  <2>3. CASE e \in ForgedEvents(current, walked)
    BY <2>3, SignedIsEvent DEF ForgedEvents
  <2>4. ASSUME NEW f \in events,
               e \in AlteredEvents(f, Objects, Actors, Bodies, Actors \cup Tails)
        PROVE  IsEvent(e)
    <3>1. f = [phip_id |-> f.phip_id, actor |-> f.actor, body |-> f.body,
               previous_hash |-> f.previous_hash, signature |-> f.signature]
      BY <2>1 DEF IsEvent
    <3>2. \/ \E v : e = [f EXCEPT !.phip_id = v]
          \/ \E v : e = [f EXCEPT !.actor = v]
          \/ \E v : e = [f EXCEPT !.body = v]
          \/ \E v : e = [f EXCEPT !.signature = v]
      BY <2>4 DEF AlteredEvents
    <3> QED
      BY <3>1, <3>2 DEF IsEvent
  <2> QED
    BY <2>1, <2>2, <2>3, <2>4
<1> QED
  BY <1>1, <1>2 DEF IndInv, TypeOK

LEMMA WalkEventKeeps ==
  ASSUME IndInv, NEW e \in NextEvents, WalkEvent(e)
  PROVE  IndInv'
<1>1. /\ pc = "walking"
      /\ UNCHANGED <<chain, counts, sound, trusted, bundle, current, accepted>>
  BY DEF WalkEvent
<1>2. ChainsAreChained' /\ HeadsAreTheProducers'
  <2>1. Reading' => Reading
    BY <1>1 DEF Reading
  <2> QED
    BY <1>1, <2>1 DEF IndInv, ChainsAreChained, HeadsAreTheProducers, Heads, HashEvent, Content
<1>3. CASE EventFault(e) # "none"
  <2>1. pc' = EventFault(e) /\ UNCHANGED walked
    BY <1>3 DEF WalkEvent
  <2>2. pc' \in Errors
    BY <1>3, <2>1 DEF EventFault, Errors
  <2>3. TypeOK'
    BY <1>1, <2>1, <2>2 DEF IndInv, TypeOK
  <2> QED
    BY <1>1, <1>2, <2>1, <2>2, <2>3
    DEF IndInv, Errors, NothingRead, ManifestIsTheProducers, CurrentIsBundled,
        TrustedHistoriesAreTheProducers
<1>4. CASE EventFault(e) = "none"
  <2>1. walked' = Append(walked, e) /\ UNCHANGED pc
    BY <1>4 DEF WalkEvent
  <2>2. e.previous_hash = IF walked = <<>> THEN Genesis ELSE HashEvent(walked[Len(walked)])
    BY <1>4 DEF EventFault, ExpectedPrevious
  <2>3. IsHistory(walked) /\ IsSeq(walked) /\ Chained(walked)
    BY DEF IndInv, TypeOK, IsHistory
  <2>4. IsHistory(Append(walked, e)) /\ Chained(Append(walked, e))
    BY <1>1, <2>2, <2>3, NextIsEvent, AppendHistory, ChainExtends
  <2>5. TypeOK' /\ Chained(walked')
    BY <1>1, <2>1, <2>4 DEF IndInv, TypeOK
  <2> QED
    BY <1>1, <1>2, <2>1, <2>5
    DEF IndInv, NothingRead, ManifestIsTheProducers, CurrentIsBundled,
        TrustedHistoriesAreTheProducers
<1> QED
  BY <1>3, <1>4

\* A chained history whose head is the n-th event of a chain is the chain's
\* first n events.
LEMMA HeadFixesHistory ==
  ASSUME NEW w, NEW h, IsHistory(w), IsHistory(h), Chained(w), Chained(h), w # <<>>,
         NEW n \in 1..Len(h), HashEvent(w[Len(w)]) = HashEvent(h[n])
  PROVE  w = SubSeq(h, 1, n)
<1>1. IsSeq(w) /\ IsSeq(h) /\ Len(w) \in Nat /\ Len(h) \in Nat
  BY IsSeqFacts DEF IsHistory
<1>2. Len(w) \in 1..Len(w)
  BY <1>1, EmptyIffNoLength
<1>3. HashOfFirst(w, Len(w)) = HashOfFirst(h, n)
  BY <1>1, <1>2, HashOfLast
<1>4. n = Len(w)
  <2>1. DOMAIN HashOfFirst(w, Len(w)) = 1..Len(w) /\ DOMAIN HashOfFirst(h, n) = 1..n
    BY DEF HashOfFirst
  <2>2. 1..Len(w) = 1..n
    BY <1>3, <2>1
  <2>3. n \in Nat
    BY <1>1
  <2> QED
    BY <1>1, <2>2, <2>3
<1>5. n <= Len(h) /\ n <= Len(w) /\ n \in Nat
  BY <1>1, <1>4
<1>6. \A m \in 1..n : w[m] = h[m]
  BY <1>3, <1>4, <1>5, HashDetermines
<1> DEFINE W == {w[m] : m \in DOMAIN w}
           H == {h[m] : m \in DOMAIN h}
<1>7. w \in Seq(W) /\ h \in Seq(H)
  BY <1>1 DEF IsSeq
<1> HIDE DEF W, H
<1>8. w \in Seq(W \cup H) /\ h \in Seq(W \cup H)
  BY <1>7
<1> QED
  BY <1>4, <1>5, <1>6, <1>8

LEMMA EndOfHistoryKeeps ==
  ASSUME IndInv, EndOfHistory
  PROVE  IndInv'
<1>1. /\ pc = "walking"
      /\ UNCHANGED <<chain, counts, sound, trusted, bundle, current, walked>>
  BY DEF EndOfHistory
<1>2. ChainsAreChained' /\ HeadsAreTheProducers' /\ Chained(walked)'
  <2>1. Reading' => Reading
    BY <1>1 DEF Reading
  <2> QED
    BY <1>1, <2>1 DEF IndInv, ChainsAreChained, HeadsAreTheProducers, Heads, HashEvent, Content
<1>3. CASE ~(walked # <<>> /\ HeadMatches(current))
  <2>1. pc' = "InvalidEvent" /\ UNCHANGED accepted
    BY <1>3 DEF EndOfHistory
  <2>2. TypeOK'
    BY <1>1, <2>1 DEF IndInv, TypeOK, Errors
  <2> QED
    BY <1>1, <1>2, <2>1, <2>2
    DEF IndInv, NothingRead, ManifestIsTheProducers, CurrentIsBundled,
        TrustedHistoriesAreTheProducers
<1>4. CASE walked # <<>> /\ HeadMatches(current)
  <2>1. /\ pc' = "objects"
        /\ accepted' = [o \in DOMAIN accepted \cup {current} |->
                          IF o = current THEN walked ELSE accepted[o]]
    BY <1>4 DEF EndOfHistory
  <2>2. IsHistory(walked) /\ Chained(walked)
    BY DEF IndInv, TypeOK
  <2>3. TypeOK'
    BY <1>1, <2>1, <2>2 DEF IndInv, TypeOK
  <2>4. ASSUME trusted
        PROVE  current \in DOMAIN counts /\ walked = SubSeq(chain[current], 1, counts[current])
    <3>1. current \in DOMAIN counts /\ bundle.manifest.heads = Heads(counts)
      BY <1>1, <2>4 DEF IndInv, CurrentIsBundled, HeadsAreTheProducers, Reading
    <3> DEFINE h == chain[current]
               n == counts[current]
    <3>2. /\ current \in Objects /\ n \in 1..Len(h) /\ IsHistory(h) /\ Chained(h)
      BY <3>1 DEF IndInv, TypeOK, ChainsAreChained
    <3>3. HashEvent(walked[Len(walked)]) = HashEvent(h[n])
      BY <1>4, <3>1 DEF HeadMatches, Heads
    <3> HIDE DEF h, n
    <3>4. walked = SubSeq(h, 1, n)
      BY <1>4, <2>2, <3>2, <3>3, HeadFixesHistory
    <3> QED
      BY <3>1, <3>4 DEF h, n
  <2>5. TrustedHistoriesAreTheProducers'
    BY <1>1, <2>1, <2>4 DEF IndInv, TrustedHistoriesAreTheProducers
  <2> QED
    BY <1>1, <1>2, <2>1, <2>3, <2>5
    DEF IndInv, NothingRead, ManifestIsTheProducers, CurrentIsBundled
<1> QED
  BY <1>3, <1>4

LEMMA ReturnKeeps ==
  ASSUME IndInv, Return
  PROVE  IndInv'
<1>1. /\ pc = "objects" /\ DOMAIN accepted = DOMAIN bundle.manifest.heads
      /\ pc' = "verified"
      /\ UNCHANGED <<chain, counts, bundle, sound, trusted, current, walked, accepted>>
  BY DEF Return, reader
<1>2. TypeOK'
  BY <1>1 DEF IndInv, TypeOK
<1>3. ChainsAreChained' /\ HeadsAreTheProducers' /\ Chained(walked)'
  BY <1>1 DEF IndInv, ChainsAreChained, HeadsAreTheProducers, Reading, Heads, HashEvent, Content
<1>4. TrustedHistoriesAreTheProducers'
  <2>1. trusted => DOMAIN accepted = DOMAIN counts
    BY <1>1 DEF IndInv, HeadsAreTheProducers, Reading, Heads
  <2> QED
    BY <1>1, <2>1 DEF IndInv, TrustedHistoriesAreTheProducers
<1> QED
  BY <1>1, <1>2, <1>3, <1>4
  DEF IndInv, NothingRead, ManifestIsTheProducers, CurrentIsBundled

LEMMA NextKeeps == IndInv /\ [Next]_vars => IndInv'
<1> SUFFICES ASSUME IndInv, [Next]_vars PROVE IndInv'
  OBVIOUS
<1>1. CASE \E o \in Objects, a \in Actors, b \in Bodies :
             \E key_id \in {a, TailOf[a]} : Extend(o, a, b, key_id)
  BY <1>1, ExtendKeeps
<1>2. CASE \E S \in (SUBSET Objects) \ {{}} : \E n \in [S -> 0..MaxEvents] :
             \E keys \in KeyDicts : (\A o \in S : n[o] <= Len(chain[o])) /\ MakeBundle(n, keys)
  BY <1>2, MakeBundleKeeps
<1>3. CASE \E has_key \in BOOLEAN : pc = "made" /\ CheckManifest(bundle, TRUE, has_key)
  BY <1>3, CheckManifestKeeps
<1>4. CASE \E m \in {bundle.manifest} \cup AlteredManifests(bundle.manifest) :
             \E keys \in {bundle.keys} \cup ForgedKeyDicts : \E has_key \in BOOLEAN :
               CheckManifest([manifest |-> m, keys |-> keys], FALSE, has_key)
  BY <1>4, CheckManifestKeeps
<1>5. CASE \E o \in DOMAIN bundle.manifest.heads : NextObject(o)
  BY <1>5, NextObjectKeeps
<1>6. CASE \E e \in NextEvents : WalkEvent(e)
  BY <1>6, WalkEventKeeps
<1>7. CASE EndOfHistory
  BY <1>7, EndOfHistoryKeeps
<1>8. CASE Return
  BY <1>8, ReturnKeeps
<1>9. CASE UNCHANGED vars
  BY <1>9
  DEF vars, IndInv, TypeOK, ChainsAreChained, NothingRead, ManifestIsTheProducers,
      HeadsAreTheProducers, Reading, Heads, CurrentIsBundled, TrustedHistoriesAreTheProducers
<1> QED
  BY <1>1, <1>2, <1>3, <1>4, <1>5, <1>6, <1>7, <1>8, <1>9 DEF Next

LEMMA IndInvInvariant == Spec => []IndInv
BY InitIndInv, NextKeeps, PTL DEF Spec

\* The state keeps its type.
THEOREM TypeCorrect == Spec => []TypeOK
<1>1. IndInv => TypeOK
  BY DEF IndInv
<1> QED
  BY <1>1, IndInvInvariant, PTL

\* With the producer's key, the histories of a bundle are the producer's, whatever
\* came of the bundle on the way.
THEOREM TrustedHistories == Spec => []TrustedHistoriesAreTheProducers
<1>1. IndInv => TrustedHistoriesAreTheProducers
  BY DEF IndInv
<1> QED
  BY <1>1, IndInvInvariant, PTL

-----------------------------------------------------------------------------
(* What holds also of a bundle that nobody vouches for: signatures and keys. *)

\* An event of the histories is signed by its actor, under one of its names.
SignedByItsActor(e) ==
  /\ e.actor \in Actors
  /\ e.signature.key = e.actor /\ e.signature.key_id \in {e.actor, TailOf[e.actor]}
  /\ e.signature.over = Unsigned(e)

EventsAreSigned == \A o \in Objects : \A k \in 1..Len(chain[o]) : SignedByItsActor(chain[o][k])

KeysAreTyped == pc \in {"made"} \/ Reading => bundle.keys \in KeyDicts \cup ForgedKeyDicts

CarriesEmbeddedKey(e) ==
  e.actor # Producer =>
    \E i \in DOMAIN bundle.keys :
      /\ bundle.keys[i].key = e.signature.key
      /\ e.signature.key_id \in {bundle.keys[i].uri, TailOf[bundle.keys[i].uri]}

WalkedCarryKeys == pc = "walking" => \A k \in DOMAIN walked : CarriesEmbeddedKey(walked[k])

\* What is walked in a sound bundle is the beginning of what was put in.
WalkedIsBundled ==
  sound /\ pc = "walking" =>
    /\ Len(walked) <= counts[current]
    /\ \A k \in 1..Len(walked) : walked[k] = chain[current][k]

KeyInv ==
  /\ EventsAreSigned /\ KeysAreTyped /\ WalkedCarryKeys /\ WalkedIsBundled
  /\ ForeignEventsCarryEmbeddedKeys

\* A dict is not None.
DictsArePresent ==
  \A S \in SUBSET Objects : \A f : f = [o \in S |-> f[o]] => f # Absent

LEMMA LeastNumber ==
  ASSUME NEW S, S \subseteq Nat, S # {}
  PROVE  \E x \in S : \A y \in S : x <= y
<1> DEFINE R == OpToRel(<, Nat)
<1>1. IsWellFoundedOn(R, Nat)
  BY NatLessThanWellFounded
<1>2. \A x, y \in Nat : <<y, x>> \in R <=> y < x
  BY DEF OpToRel
<1> HIDE DEF R
<1>3. PICK x \in S : \A y \in S : ~(<<y, x>> \in R)
  BY <1>1, WFMin
<1>4. ASSUME NEW y \in S PROVE x <= y
  <2>1. x \in Nat /\ y \in Nat /\ ~(<<y, x>> \in R)
    BY <1>3
  <2>2. ~(y < x)
    BY <1>2, <2>1
  <2> QED
    BY <2>1, <2>2
<1> QED
  BY <1>4

LEMMA KeyDictFacts ==
  ASSUME NEW keys \in KeyDicts \cup ForgedKeyDicts
  PROVE  /\ DOMAIN keys \subseteq Nat
         /\ \A k \in DOMAIN keys : keys[k].uri \in Actors
<1> DEFINE X == [uri : Actors, key : Actors \cup {Outsider, NoKey}]
<1>1. keys \in Seq(X)
  BY KeyDictAssumption
<1>2. \A x \in X : x.uri \in Actors
  OBVIOUS
<1> HIDE DEF X
<1>3. DOMAIN keys = 1..Len(keys) /\ Len(keys) \in Nat /\ \A k \in DOMAIN keys : keys[k] \in X
  BY <1>1
<1> QED
  BY <1>2, <1>3

LEMMA EmbeddedKeyFacts ==
  ASSUME NEW keys, NEW id, EmbeddedKey(keys, id) # NoKey
  PROVE  \E k \in DOMAIN keys : keys[k].uri = id /\ keys[k].key = EmbeddedKey(keys, id)
  BY DEF EmbeddedKey

\* The first record that a bare id fits is one that it fits.
LEMMA FirstTailMatch ==
  ASSUME NEW keys \in KeyDicts \cup ForgedKeyDicts, NEW id, TailMatches(keys, id) # {}
  PROVE  (CHOOSE k \in TailMatches(keys, id) : \A m \in TailMatches(keys, id) : k <= m)
           \in TailMatches(keys, id)
<1> DEFINE S == TailMatches(keys, id)
<1>1. S \subseteq Nat
  BY KeyDictFacts DEF TailMatches
<1> HIDE DEF S
<1>2. \E k \in S : \A m \in S : k <= m
  BY <1>1, LeastNumber DEF S
<1>3. (CHOOSE k \in S : \A m \in S : k <= m) \in S
  BY <1>2
<1> QED
  BY <1>3 DEF S

\* For another actor than the producer only embedded keys are found, under the
\* name that is given.
LEMMA ForeignKeysAreEmbedded ==
  ASSUME NEW keys \in KeyDicts \cup ForgedKeyDicts, NEW id, NEW producer_key, NEW actor,
         actor # Producer, ResolveEventKey(keys, id, producer_key, actor) # NoKey
  PROVE  \E i \in DOMAIN keys :
           /\ keys[i].key = ResolveEventKey(keys, id, producer_key, actor)
           /\ id \in {keys[i].uri, TailOf[keys[i].uri]}
<1>1. CASE EmbeddedKey(keys, id) # NoKey
  BY <1>1, EmbeddedKeyFacts DEF ResolveEventKey
<1>2. CASE EmbeddedKey(keys, id) = NoKey
  <2> DEFINE k == CHOOSE k \in TailMatches(keys, id) : \A m \in TailMatches(keys, id) : k <= m
  <2>1. TailMatches(keys, id) # {}
    BY <1>2 DEF ResolveEventKey
  <2>2. ResolveEventKey(keys, id, producer_key, actor) = keys[k].key
    BY <1>2, <2>1 DEF ResolveEventKey
  <2>3. k \in TailMatches(keys, id)
    BY <2>1, FirstTailMatch
  <2> HIDE DEF k
  <2>4. k \in DOMAIN keys /\ TailOf[keys[k].uri] = id
    BY <2>3 DEF TailMatches
  <2> QED
    BY <2>2, <2>4
<1> QED
  BY <1>1, <1>2

\* A resolvable event resolves to the key that signed it.
LEMMA ResolvableResolves ==
  ASSUME NEW e, Resolvable(e), SignedByItsActor(e), ProducerKey = Producer,
         bundle.keys \in KeyDicts \cup ForgedKeyDicts
  PROVE  ResolveEventKey(bundle.keys, e.signature.key_id, ProducerKey, e.actor) = e.signature.key
<1> DEFINE id == e.signature.key_id
           keys == bundle.keys
<1>1. e.signature.key # NoKey
  BY ActorAssumption DEF SignedByItsActor
<1>2. CASE id \in Actors
  <2>1. EmbeddedKey(keys, id) = e.signature.key
    BY <1>2, ActorAssumption DEF Resolvable
  <2> QED
    BY <1>1, <2>1 DEF ResolveEventKey
<1>3. CASE id \notin Actors
  <2>1. id \in Tails /\ EmbeddedKey(keys, id) = NoKey
    <3>1. id \in Tails
      BY <1>3 DEF Resolvable
    <3>2. \A k \in DOMAIN keys : keys[k].uri # id
      BY <1>3, KeyDictFacts
    <3> QED
      BY <3>1, <3>2 DEF EmbeddedKey
  <2>2. CASE TailMatches(keys, id) # {}
    <3> DEFINE k == CHOOSE k \in TailMatches(keys, id) : \A m \in TailMatches(keys, id) : k <= m
    <3>1. k \in TailMatches(keys, id)
      BY <2>2, FirstTailMatch
    <3>2. ResolveEventKey(keys, id, ProducerKey, e.actor) = keys[k].key
      BY <1>3, <2>1, <2>2 DEF ResolveEventKey
    <3> HIDE DEF k
    <3>3. \A i \in TailMatches(keys, id) : keys[i].key = e.signature.key
      BY <1>3, <2>2 DEF Resolvable
    <3> QED
      BY <3>1, <3>2, <3>3
  <2>3. CASE TailMatches(keys, id) = {}
    <3>1. e.actor = Producer /\ e.signature.key = Producer
      BY <1>3, <2>3 DEF Resolvable
    <3> QED
      BY <1>3, <2>1, <2>3, <3>1 DEF ResolveEventKey
  <2> QED
    BY <2>2, <2>3
<1> QED
  BY <1>2, <1>3

-----------------------------------------------------------------------------
(* The steps, for KeyInv and for sound bundles. *)

LEMMA InitKeyInv == Init => KeyInv /\ SoundBundlesVerify
<1> SUFFICES ASSUME Init PROVE KeyInv /\ SoundBundlesVerify
  OBVIOUS
<1>1. \A o \in Objects : 1..Len(chain[o]) = {}
  BY EmptyHistory DEF Init
<1>2. pc = "growing" /\ ~sound
  BY DEF Init
<1>3. DOMAIN accepted = {}
  BY DEF Init
<1> QED
  BY <1>1, <1>2, <1>3
  DEF Init, KeyInv, EventsAreSigned, KeysAreTyped, Reading, WalkedCarryKeys, WalkedIsBundled,
      ForeignEventsCarryEmbeddedKeys, SoundBundlesVerify

LEMMA ExtendKeepsKeys ==
  ASSUME IndInv, KeyInv,
         NEW o \in Objects, NEW a \in Actors, NEW b \in Bodies, NEW key_id \in {a, TailOf[a]},
         Extend(o, a, b, key_id)
  PROVE  KeyInv' /\ (SoundBundlesVerify => SoundBundlesVerify')
<1> DEFINE h == chain[o]
           u == [phip_id |-> o, actor |-> a, body |-> b,
                 previous_hash |-> IF h = <<>> THEN Genesis ELSE HashEvent(h[Len(h)])]
           e == SignEvent(u, a, key_id)
<1>1. /\ pc = "growing" /\ chain' = [chain EXCEPT ![o] = Append(h, e)]
      /\ UNCHANGED <<counts, bundle, pc, sound, trusted, current, walked, accepted>>
  BY DEF Extend, reader
<1>2. SignedByItsActor(e)
  <2>1. u = [phip_id |-> u.phip_id, actor |-> u.actor, body |-> u.body,
             previous_hash |-> u.previous_hash] /\ u.actor = a
    OBVIOUS
  <2> HIDE DEF u
  <2> QED
    BY <2>1 DEF SignEvent, SignedByItsActor, Unsigned
<1>3. IsSeq(h) /\ DOMAIN chain = Objects
  BY DEF IndInv, TypeOK, IsHistory
<1> HIDE DEF e, h
<1>4. /\ Len(h) \in Nat /\ Len(Append(h, e)) = Len(h) + 1
      /\ \A k \in 1..Len(h) : Append(h, e)[k] = h[k]
      /\ Append(h, e)[Len(h) + 1] = e
  BY <1>3, AppendFacts, IsSeqFacts
<1>5. EventsAreSigned'
  <2> SUFFICES ASSUME NEW x \in Objects, NEW k \in 1..Len(chain'[x])
               PROVE  SignedByItsActor(chain'[x][k])
    BY DEF EventsAreSigned, SignedByItsActor, Unsigned
  <2>1. CASE x # o
    BY <1>1, <1>3, <2>1 DEF KeyInv, EventsAreSigned
  <2>2. CASE x = o
    <3>1. chain'[x] = Append(h, e)
      BY <1>1, <1>3, <2>2
    <3>2. k \in 1..Len(h) \/ k = Len(h) + 1
      BY <1>4, <3>1
    <3>3. \A m \in 1..Len(h) : SignedByItsActor(h[m])
      BY DEF KeyInv, EventsAreSigned, h
    <3> QED
      BY <1>2, <1>4, <3>1, <3>2, <3>3
  <2> QED
    BY <2>1, <2>2
<1> QED
  BY <1>1, <1>5
  DEF KeyInv, KeysAreTyped, Reading, WalkedCarryKeys, WalkedIsBundled,
      ForeignEventsCarryEmbeddedKeys, SoundBundlesVerify, Errors

LEMMA MakeBundleKeepsKeys ==
  ASSUME IndInv, KeyInv, NEW n, NEW keys \in KeyDicts, MakeBundle(n, keys)
  PROVE  KeyInv' /\ (SoundBundlesVerify => SoundBundlesVerify')
<1>1. /\ pc = "growing" /\ UNCHANGED <<chain, sound, trusted, current, walked, accepted>>
      /\ pc' \in {"made", "PhipError"}
      /\ pc' = "made" => bundle'.keys = keys
  BY DEF MakeBundle, reader
<1>2. ~sound /\ DOMAIN accepted = {}
  BY <1>1 DEF IndInv, NothingRead
<1> QED
  BY <1>1, <1>2
  DEF KeyInv, EventsAreSigned, SignedByItsActor, Unsigned, KeysAreTyped, Reading,
      WalkedCarryKeys, WalkedIsBundled, ForeignEventsCarryEmbeddedKeys, SoundBundlesVerify

LEMMA CheckManifestKeepsKeys ==
  ASSUME IndInv, KeyInv, NEW b, NEW is_sound \in BOOLEAN, NEW has_key \in BOOLEAN,
         CheckManifest(b, is_sound, has_key), b.keys \in {bundle.keys} \cup ForgedKeyDicts
  PROVE  KeyInv'
<1>1. /\ pc = "made" /\ bundle' = b /\ UNCHANGED <<chain, counts, current, walked, accepted>>
      /\ pc' \in {"objects"} \cup Errors
  BY DEF CheckManifest, ManifestFault, Errors
<1>2. DOMAIN accepted = {}
  BY <1>1 DEF IndInv, NothingRead
<1>3. bundle'.keys \in KeyDicts \cup ForgedKeyDicts
  BY <1>1 DEF KeyInv, KeysAreTyped
<1> QED
  BY <1>1, <1>2, <1>3
  DEF KeyInv, EventsAreSigned, SignedByItsActor, Unsigned, KeysAreTyped, Reading, Errors,
      WalkedCarryKeys, WalkedIsBundled, ForeignEventsCarryEmbeddedKeys

\* The manifest of a bundle that arrives as it was made passes.
LEMMA SoundManifestPasses ==
  ASSUME IndInv, DictsArePresent, NEW is_sound \in BOOLEAN, NEW has_key \in BOOLEAN, NEW b,
         CheckManifest(b, is_sound, has_key), is_sound => b = bundle
  PROVE  SoundBundlesVerify'
<1> DEFINE u == [created_by |-> Producer, heads |-> Heads(counts)]
           m == SignManifest(u, Producer)
<1> SUFFICES ASSUME sound', ProducerKey' = Producer PROVE pc' \notin Errors
  BY DEF SoundBundlesVerify
<1>1. /\ pc = "made" /\ sound' = is_sound /\ bundle' = b
      /\ pc' = IF ManifestFault(b.manifest)' = "none" THEN "objects"
               ELSE ManifestFault(b.manifest)'
      /\ UNCHANGED <<chain, counts>>
  BY DEF CheckManifest
<1>2. b.manifest = m
  BY <1>1 DEF IndInv, ManifestIsTheProducers
<1>3. m = [created_by |-> Producer, heads |-> u.heads,
           signature |-> [key |-> Producer, over |-> u]]
  BY DEF SignManifest
<1>4. Heads(counts) # Absent
  <2>1. DOMAIN counts \in SUBSET Objects
    BY DEF IndInv, TypeOK
  <2>2. Heads(counts) = [o \in DOMAIN counts |-> Heads(counts)[o]]
    BY DEF Heads
  <2> QED
    BY <2>1, <2>2 DEF DictsArePresent
<1>5. Producer # Absent /\ Producer # NoKey
  BY ActorAssumption
<1>6. ManifestSigned(m, Producer)
  BY <1>3 DEF ManifestSigned, UnsignedManifest
<1>7. u.heads = Heads(counts)
  OBVIOUS
<1> HIDE DEF m, u
<1>8. /\ m.created_by = Producer /\ m.signature.key = Producer /\ m.heads = Heads(counts)
  BY <1>3, <1>7
<1>9. ManifestFault(b.manifest)' = "none"
  <2>1. ManifestSigned(b.manifest, Producer)' = ManifestSigned(m, Producer)
    BY <1>1, <1>2 DEF ManifestSigned, UnsignedManifest
  <2> QED
    BY <1>1, <1>2, <1>4, <1>5, <1>6, <1>8, <2>1 DEF ManifestFault
<1> QED
  BY <1>1, <1>9 DEF Errors

LEMMA NextObjectKeepsKeys ==
  ASSUME IndInv, KeyInv, NEW o, NextObject(o)
  PROVE  KeyInv' /\ (SoundBundlesVerify => SoundBundlesVerify')
<1>1. /\ pc = "objects" /\ o \in DOMAIN bundle.manifest.heads
      /\ pc' = "walking" /\ current' = o /\ walked' = <<>>
      /\ UNCHANGED <<chain, counts, sound, trusted, bundle, accepted>>
  BY DEF NextObject
<1>2. 1..Len(walked') = {} /\ DOMAIN walked' = {} /\ Len(walked') = 0
  BY <1>1
<1>3. sound => current' \in DOMAIN counts /\ counts[current'] \in Nat
  <2>1. sound => current' \in DOMAIN counts
    BY <1>1 DEF IndInv, HeadsAreTheProducers, Reading, Heads
  <2>2. \A x \in DOMAIN counts : counts[x] \in Nat
    BY IsSeqFacts DEF IndInv, TypeOK, IsHistory
  <2> QED
    BY <2>1, <2>2
<1> QED
  BY <1>1, <1>2, <1>3
  DEF KeyInv, EventsAreSigned, SignedByItsActor, Unsigned, KeysAreTyped, Reading, Errors,
      WalkedCarryKeys, WalkedIsBundled, ForeignEventsCarryEmbeddedKeys, SoundBundlesVerify

\* In a sound bundle the next event of a history is the next that was put in, and
\* it links.
LEMMA NextOfSound ==
  ASSUME IndInv, KeyInv, sound, pc = "walking", NEW e \in NextEvents
  PROVE  /\ current \in DOMAIN counts /\ Len(walked) + 1 \in 1..counts[current]
         /\ e = chain[current][Len(walked) + 1]
         /\ e \in BundledEvents /\ SignedByItsActor(e)
         /\ e.previous_hash = ExpectedPrevious(walked, e)
<1> DEFINE c == chain[current]
           n == Len(walked)
<1>1. n + 1 \in 1..counts[current] /\ e = c[n + 1]
  BY DEF NextEvents
<1>2. /\ current \in DOMAIN counts /\ current \in Objects /\ counts[current] \in 1..Len(c)
      /\ IsHistory(c) /\ Chained(c) /\ IsSeq(walked) /\ Chained(walked)
  BY DEF IndInv, TypeOK, CurrentIsBundled, ChainsAreChained, IsHistory
<1>3. Len(c) \in Nat /\ n \in Nat
  BY <1>2, IsSeqFacts DEF IsHistory
<1>4. n + 1 \in 1..Len(c) /\ counts[current] \in Nat
  BY <1>1, <1>2, <1>3
<1>5. \A k \in 1..n : walked[k] = c[k]
  BY DEF KeyInv, WalkedIsBundled
<1>6. SignedByItsActor(e) /\ e \in BundledEvents
  BY <1>1, <1>2, <1>4 DEF KeyInv, EventsAreSigned, BundledEvents
<1>7. e.previous_hash = HashOfFirst(c, n)
  <2>1. c[n + 1].previous_hash = HashOfFirst(c, (n + 1) - 1)
    BY <1>2, <1>4 DEF Chained
  <2>2. (n + 1) - 1 = n
    BY <1>3
  <2> QED
    BY <1>1, <2>1, <2>2
<1>8. HashOfFirst(c, n) = HashOfFirst(walked, n)
  BY <1>5 DEF HashOfFirst
<1>9. HashOfFirst(walked, n) = ExpectedPrevious(walked, e)
  <2>1. CASE walked = <<>>
    BY <2>1 DEF HashOfFirst, ExpectedPrevious, Genesis
  <2>2. CASE walked # <<>>
    <3>1. n \in 1..n
      BY <1>2, <1>3, <2>2, EmptyIffNoLength
    <3> QED
      BY <1>2, <2>2, <3>1, HashOfLast DEF ExpectedPrevious
  <2> QED
    BY <2>1, <2>2
<1> QED
  BY <1>1, <1>2, <1>6, <1>7, <1>8, <1>9

LEMMA BundleStays ==
  ASSUME UNCHANGED <<chain, counts, trusted, bundle>>
  PROVE  /\ ProducerKey' = ProducerKey /\ BundledEvents' = BundledEvents
         /\ \A e : Resolvable(e)' <=> Resolvable(e)
<1>1. \A id : EmbeddedKey(bundle.keys, id)' = EmbeddedKey(bundle.keys, id)
  BY DEF EmbeddedKey
<1>2. \A id : TailMatches(bundle.keys, id)' = TailMatches(bundle.keys, id)
  BY DEF TailMatches
<1>3. ProducerKey' = ProducerKey /\ BundledEvents' = BundledEvents
  BY DEF ProducerKey, BundledEvents, EmbeddedKey
<1> QED
  BY <1>1, <1>2, <1>3 DEF Resolvable

LEMMA WalkEventKeepsKeys ==
  ASSUME IndInv, KeyInv, NEW e \in NextEvents, WalkEvent(e)
  PROVE  KeyInv' /\ (SoundBundlesVerify => SoundBundlesVerify')
<1>1. /\ pc = "walking"
      /\ UNCHANGED <<chain, counts, sound, trusted, bundle, current, accepted>>
  BY DEF WalkEvent
<1>2. EventsAreSigned' /\ ForeignEventsCarryEmbeddedKeys'
  BY <1>1 DEF KeyInv, EventsAreSigned, SignedByItsActor, Unsigned, ForeignEventsCarryEmbeddedKeys
<1>3. bundle.keys \in KeyDicts \cup ForgedKeyDicts
  BY <1>1 DEF KeyInv, KeysAreTyped, Reading
<1>4. KeysAreTyped'
  BY <1>1, <1>3 DEF KeysAreTyped
<1>5. IsSeq(walked)
  BY DEF IndInv, TypeOK, IsHistory
<1>6. ASSUME sound, ProducerKey = Producer, \A f \in BundledEvents : Resolvable(f)
      PROVE  EventFault(e) = "none"
  <2>1. /\ SignedByItsActor(e) /\ Resolvable(e)
        /\ e.previous_hash = ExpectedPrevious(walked, e)
    BY <1>1, <1>6, NextOfSound
  <2>2. ResolveEventKey(bundle.keys, e.signature.key_id, ProducerKey, e.actor) = e.signature.key
    BY <1>3, <1>6, <2>1, ResolvableResolves
  <2>3. e.signature.key # NoKey /\ e.signature.key_id # NoSignature
    BY <2>1, ActorAssumption DEF SignedByItsActor
  <2>4. VerifyEvent(e, e.signature.key)
    BY <2>1, <2>3 DEF VerifyEvent, SignedByItsActor
  <2> QED
    BY <2>1, <2>2, <2>3, <2>4 DEF EventFault
<1>7. CASE EventFault(e) # "none"
  <2>1. pc' = EventFault(e) /\ UNCHANGED walked
    BY <1>7 DEF WalkEvent
  <2>2. pc' \in Errors
    BY <1>7, <2>1 DEF EventFault, Errors
  <2>3. KeyInv'
    BY <1>2, <1>4, <2>2 DEF KeyInv, WalkedCarryKeys, WalkedIsBundled, Errors
  <2>4. SoundBundlesVerify => SoundBundlesVerify'
    BY <1>1, <1>6, <1>7, BundleStays DEF SoundBundlesVerify
  <2> QED
    BY <2>3, <2>4
<1>8. CASE EventFault(e) = "none"
  <2>1. walked' = Append(walked, e) /\ UNCHANGED pc
    BY <1>8 DEF WalkEvent
  <2>2. /\ IsSeq(walked') /\ Len(walked) \in Nat /\ Len(walked') = Len(walked) + 1
        /\ \A k \in 1..Len(walked) : walked'[k] = walked[k]
        /\ walked'[Len(walked) + 1] = e
    BY <1>5, <2>1, AppendFacts, IsSeqFacts
  <2>3. DOMAIN walked' = 1..(Len(walked) + 1) /\ DOMAIN walked = 1..Len(walked)
    BY <1>5, <2>2, IsSeqFacts
  <2>4. CarriesEmbeddedKey(e)
    <3> SUFFICES ASSUME e.actor # Producer
                 PROVE  \E i \in DOMAIN bundle.keys :
                          /\ bundle.keys[i].key = e.signature.key
                          /\ e.signature.key_id
                               \in {bundle.keys[i].uri, TailOf[bundle.keys[i].uri]}
      BY DEF CarriesEmbeddedKey
    <3> DEFINE key == ResolveEventKey(bundle.keys, e.signature.key_id, ProducerKey, e.actor)
    <3>1. key # NoKey /\ e.signature.key = key
      BY <1>8 DEF EventFault, VerifyEvent
    <3>2. \E i \in DOMAIN bundle.keys :
            /\ bundle.keys[i].key = key
            /\ e.signature.key_id \in {bundle.keys[i].uri, TailOf[bundle.keys[i].uri]}
      BY <1>3, <3>1, ForeignKeysAreEmbedded
    <3> HIDE DEF key
    <3> QED
      BY <3>1, <3>2
  <2>5. WalkedCarryKeys'
    <3>1. \A k \in DOMAIN walked' : k \in DOMAIN walked \/ k = Len(walked) + 1
      BY <2>2, <2>3
    <3>2. \A k \in DOMAIN walked' : CarriesEmbeddedKey(walked'[k])
      BY <1>1, <2>2, <2>3, <2>4, <3>1 DEF KeyInv, WalkedCarryKeys
    <3> QED
      BY <1>1, <3>2 DEF WalkedCarryKeys, CarriesEmbeddedKey
  <2>6. WalkedIsBundled'
    <3> SUFFICES ASSUME sound
                 PROVE  /\ Len(walked') <= counts[current]
                        /\ \A k \in 1..Len(walked') : walked'[k] = chain[current][k]
      BY <1>1 DEF WalkedIsBundled
    <3>1. Len(walked) + 1 \in 1..counts[current] /\ e = chain[current][Len(walked) + 1]
      BY <1>1, NextOfSound
    <3>2. counts[current] \in Nat
      BY <1>1, NextOfSound, IsSeqFacts DEF IndInv, TypeOK, IsHistory
    <3>3. \A k \in 1..Len(walked) : walked[k] = chain[current][k]
      BY <1>1 DEF KeyInv, WalkedIsBundled
    <3>4. \A k \in 1..Len(walked') : k \in 1..Len(walked) \/ k = Len(walked) + 1
      BY <2>2
    <3> QED
      BY <2>2, <3>1, <3>2, <3>3, <3>4
  <2>7. SoundBundlesVerify => SoundBundlesVerify'
    BY <1>1, <2>1 DEF SoundBundlesVerify, Errors
  <2> QED
    BY <1>2, <1>4, <2>5, <2>6, <2>7 DEF KeyInv
<1> QED
  BY <1>7, <1>8

LEMMA EndOfHistoryKeepsKeys ==
  ASSUME IndInv, KeyInv, EndOfHistory, sound => Len(walked) = counts[current]
  PROVE  KeyInv' /\ (SoundBundlesVerify => SoundBundlesVerify')
<1>1. /\ pc = "walking" /\ pc' \in {"objects", "InvalidEvent"}
      /\ UNCHANGED <<chain, counts, sound, trusted, bundle, current, walked>>
      /\ accepted' = accepted \/ accepted' = [o \in DOMAIN accepted \cup {current} |->
                                                IF o = current THEN walked ELSE accepted[o]]
  BY DEF EndOfHistory
<1>2. EventsAreSigned' /\ KeysAreTyped' /\ WalkedCarryKeys' /\ WalkedIsBundled'
  BY <1>1
  DEF KeyInv, EventsAreSigned, SignedByItsActor, Unsigned, KeysAreTyped, Reading,
      WalkedCarryKeys, WalkedIsBundled
<1>3. ForeignEventsCarryEmbeddedKeys'
  <2>1. \A k \in DOMAIN walked : CarriesEmbeddedKey(walked[k])
    BY <1>1 DEF KeyInv, WalkedCarryKeys
  <2>2. \A o \in DOMAIN accepted : \A k \in DOMAIN accepted[o] : CarriesEmbeddedKey(accepted[o][k])
    BY DEF KeyInv, ForeignEventsCarryEmbeddedKeys, CarriesEmbeddedKey
  <2>3. \A o \in DOMAIN accepted' : \A k \in DOMAIN accepted'[o] :
          CarriesEmbeddedKey(accepted'[o][k])
    BY <1>1, <2>1, <2>2
  <2> QED
    BY <1>1, <2>3 DEF ForeignEventsCarryEmbeddedKeys, CarriesEmbeddedKey
<1>4. SoundBundlesVerify => SoundBundlesVerify'
  <2>1. CASE ~sound
    BY <1>1, <2>1 DEF SoundBundlesVerify
  <2>2. CASE sound
    <3>1. /\ current \in DOMAIN counts /\ counts[current] \in 1..Len(chain[current])
          /\ bundle.manifest.heads = Heads(counts) /\ current \in Objects
      BY <1>1, <2>2 DEF IndInv, TypeOK, CurrentIsBundled, HeadsAreTheProducers, Reading
    <3>2. Len(walked) = counts[current] /\ Len(walked) \in 1..Len(walked) /\ walked # <<>>
      <4>1. Len(chain[current]) \in Nat /\ Len(walked) \in Nat
        BY <3>1, IsSeqFacts DEF IndInv, TypeOK, IsHistory
      <4>2. Len(<<>>) = 0
        OBVIOUS
      <4> QED
        BY <2>2, <3>1, <4>1, <4>2
    <3>3. walked[Len(walked)] = chain[current][counts[current]]
      BY <1>1, <2>2, <3>2 DEF KeyInv, WalkedIsBundled
    <3>4. HeadMatches(current)
      BY <3>1, <3>3 DEF HeadMatches, Heads
    <3>5. pc' = "objects"
      BY <3>2, <3>4 DEF EndOfHistory
    <3> QED
      BY <3>5 DEF SoundBundlesVerify, Errors
  <2> QED
    BY <2>1, <2>2
<1> QED
  BY <1>2, <1>3, <1>4 DEF KeyInv

LEMMA ReturnKeepsKeys ==
  ASSUME KeyInv, Return
  PROVE  KeyInv' /\ (SoundBundlesVerify => SoundBundlesVerify')
<1>1. /\ pc = "objects" /\ pc' = "verified"
      /\ UNCHANGED <<chain, counts, bundle, sound, trusted, current, walked, accepted>>
  BY DEF Return, reader
<1> QED
  BY <1>1
  DEF KeyInv, EventsAreSigned, SignedByItsActor, Unsigned, KeysAreTyped, Reading, Errors,
      WalkedCarryKeys, WalkedIsBundled, ForeignEventsCarryEmbeddedKeys, SoundBundlesVerify

LEMMA NextKeepsKeys ==
  ASSUME IndInv, KeyInv, [Next]_vars
  PROVE  KeyInv' /\ (DictsArePresent /\ SoundBundlesVerify => SoundBundlesVerify')
<1>1. CASE \E o \in Objects, a \in Actors, b \in Bodies :
             \E key_id \in {a, TailOf[a]} : Extend(o, a, b, key_id)
  BY <1>1, ExtendKeepsKeys
<1>2. CASE \E S \in (SUBSET Objects) \ {{}} : \E n \in [S -> 0..MaxEvents] :
             \E keys \in KeyDicts : (\A o \in S : n[o] <= Len(chain[o])) /\ MakeBundle(n, keys)
  BY <1>2, MakeBundleKeepsKeys
<1>3. CASE \E has_key \in BOOLEAN : pc = "made" /\ CheckManifest(bundle, TRUE, has_key)
  BY <1>3, CheckManifestKeepsKeys, SoundManifestPasses
<1>4. CASE \E m \in {bundle.manifest} \cup AlteredManifests(bundle.manifest) :
             \E keys \in {bundle.keys} \cup ForgedKeyDicts : \E has_key \in BOOLEAN :
               CheckManifest([manifest |-> m, keys |-> keys], FALSE, has_key)
  <2>1. PICK m \in {bundle.manifest} \cup AlteredManifests(bundle.manifest),
             keys \in {bundle.keys} \cup ForgedKeyDicts, has_key \in BOOLEAN :
               CheckManifest([manifest |-> m, keys |-> keys], FALSE, has_key)
    BY <1>4
  <2>2. KeyInv'
    BY <2>1, CheckManifestKeepsKeys
  <2>3. sound' = FALSE
    BY <2>1 DEF CheckManifest
  <2> QED
    BY <2>2, <2>3 DEF SoundBundlesVerify
<1>5. CASE \E o \in DOMAIN bundle.manifest.heads : NextObject(o)
  BY <1>5, NextObjectKeepsKeys
<1>6. CASE \E e \in NextEvents : WalkEvent(e)
  BY <1>6, WalkEventKeepsKeys
<1>7. CASE EndOfHistory /\ (sound => Len(walked) = counts[current])
  BY <1>7, EndOfHistoryKeepsKeys
<1>8. CASE Return
  BY <1>8, ReturnKeepsKeys
<1>9. CASE UNCHANGED vars
  <2>1. UNCHANGED <<chain, counts, sound, trusted, bundle, pc, current, walked, accepted>>
    BY <1>9 DEF vars
  <2>2. SoundBundlesVerify => SoundBundlesVerify'
    BY <2>1, BundleStays DEF SoundBundlesVerify
  <2>3. EventsAreSigned' /\ KeysAreTyped'
    BY <2>1 DEF KeyInv, EventsAreSigned, SignedByItsActor, Unsigned, KeysAreTyped, Reading
  <2>4. WalkedCarryKeys' /\ WalkedIsBundled'
    BY <2>1 DEF KeyInv, WalkedCarryKeys, CarriesEmbeddedKey, WalkedIsBundled
  <2>5. ForeignEventsCarryEmbeddedKeys'
    BY <2>1 DEF KeyInv, ForeignEventsCarryEmbeddedKeys
  <2> QED
    BY <2>2, <2>3, <2>4, <2>5 DEF KeyInv
<1> QED
  BY <1>1, <1>2, <1>3, <1>4, <1>5, <1>6, <1>7, <1>8, <1>9 DEF Next

\* An event that passes for another actor than the producer is signed with a key
\* embedded under the name it gives, in any bundle.
THEOREM ForeignKeysAreTheEmbedded == Spec => []ForeignEventsCarryEmbeddedKeys
<1>1. Init => KeyInv
  BY InitKeyInv
<1>2. IndInv /\ KeyInv /\ [Next]_vars => KeyInv'
  BY NextKeepsKeys
<1>3. KeyInv => ForeignEventsCarryEmbeddedKeys
  BY DEF KeyInv
<1> QED
  BY <1>1, <1>2, <1>3, IndInvInvariant, PTL DEF Spec

\* A bundle that arrives as it was made, with keys for all its events, is never
\* refused.
THEOREM SoundBundlesAreAccepted ==
  ASSUME DictsArePresent
  PROVE  Spec => []SoundBundlesVerify
<1>1. Init => KeyInv /\ SoundBundlesVerify
  BY InitKeyInv
<1>2. IndInv /\ (KeyInv /\ SoundBundlesVerify) /\ [Next]_vars => (KeyInv /\ SoundBundlesVerify)'
  BY NextKeepsKeys
<1> QED
  BY <1>1, <1>2, IndInvInvariant, PTL DEF Spec
=============================================================================
