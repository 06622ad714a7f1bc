-------------------------- MODULE ChainWalkProofs --------------------------
(***************************************************************************)
(* Proofs, for histories of any length and any number of actors, of what a *)
(* verified chain of events tells its reader.                              *)
(***************************************************************************)
EXTENDS ChainWalk, TLAPS

-----------------------------------------------------------------------------
(* What a chain of hashes determines, for lists of events of any length and
   content. *)

LEMMA SeqOfItsOwn ==
  ASSUME NEW S, NEW s \in Seq(S)
  PROVE  IsSeq(s) /\ Len(s) \in Nat /\ DOMAIN s = 1..Len(s)
<1>1. \A k \in 1..Len(s) : s[k] \in {s[m] : m \in DOMAIN s}
  OBVIOUS
<1>2. s \in Seq({s[m] : m \in DOMAIN s})
  BY <1>1
<1> QED
  BY <1>2 DEF IsSeq

LEMMA IsSeqFacts ==
  ASSUME NEW s, IsSeq(s)
  PROVE  Len(s) \in Nat /\ DOMAIN s = 1..Len(s)
<1> DEFINE S == {s[m] : m \in DOMAIN s}
<1>1. s \in Seq(S)
  BY DEF IsSeq
<1> HIDE DEF S
<1> QED
  BY <1>1

LEMMA AppendFacts ==
  ASSUME NEW s, IsSeq(s), NEW e
  PROVE  /\ IsSeq(Append(s, e))
         /\ Len(Append(s, e)) = Len(s) + 1
         /\ \A k \in 1..Len(s) : Append(s, e)[k] = s[k]
         /\ Append(s, e)[Len(s) + 1] = e
<1> DEFINE S == {s[m] : m \in DOMAIN s}
           T == S \cup {e}
<1>1. s \in Seq(S)
  BY DEF IsSeq
<1> HIDE DEF S
<1>2. s \in Seq(T) /\ e \in T
  BY <1>1
<1> HIDE DEF T
<1>3. /\ Append(s, e) \in Seq(T)
      /\ Len(Append(s, e)) = Len(s) + 1
      /\ \A k \in 1..Len(s) : Append(s, e)[k] = s[k]
      /\ Append(s, e)[Len(s) + 1] = e
  BY <1>2
<1> QED
  BY <1>3, SeqOfItsOwn

LEMMA AppendHistory ==
  ASSUME NEW s, IsHistory(s), NEW e, IsEvent(e)
  PROVE  IsHistory(Append(s, e))
<1>1. IsSeq(s) /\ Len(s) \in Nat
  BY IsSeqFacts DEF IsHistory
<1>2. ASSUME NEW k \in 1..Len(Append(s, e))
      PROVE  IsEvent(Append(s, e)[k])
  <2>1. k \in 1..Len(s) \/ k = Len(s) + 1
    BY <1>1, AppendFacts
  <2> QED
    BY <1>1, <2>1, AppendFacts DEF IsHistory
<1> QED
  BY <1>1, <1>2, AppendFacts DEF IsHistory

\* The hash of a chain's last event is made of the contents of all its events.
LEMMA HashOfLast ==
  ASSUME NEW s, IsSeq(s), Chained(s), NEW n \in 1..Len(s)
  PROVE  HashEvent(s[n]) = HashOfFirst(s, n)
<1>1. Len(s) \in Nat /\ n \in Nat /\ n - 1 \in Nat
  BY IsSeqFacts
<1>2. s[n].previous_hash = HashOfFirst(s, n - 1)
  BY DEF Chained
<1> DEFINE C == {Content(s[k]) : k \in 1..n}
<1>3. HashOfFirst(s, n - 1) \in Seq(C) /\ Len(HashOfFirst(s, n - 1)) = n - 1
  BY <1>1 DEF HashOfFirst
<1>4. Content(s[n]) \in C
  BY <1>1
<1> HIDE DEF C
<1>5. /\ Append(HashOfFirst(s, n - 1), Content(s[n])) \in Seq(C)
      /\ Len(Append(HashOfFirst(s, n - 1), Content(s[n]))) = n
      /\ \A k \in 1..(n - 1) :
           Append(HashOfFirst(s, n - 1), Content(s[n]))[k] = HashOfFirst(s, n - 1)[k]
      /\ Append(HashOfFirst(s, n - 1), Content(s[n]))[n] = Content(s[n])
  BY <1>1, <1>3, <1>4
<1>6. \A k \in 1..(n - 1) : HashOfFirst(s, n - 1)[k] = Content(s[k])
  BY DEF HashOfFirst
<1>7. \A k \in 1..n :
        Append(HashOfFirst(s, n - 1), Content(s[n]))[k] = Content(s[k])
  BY <1>1, <1>5, <1>6
<1>8. Append(HashOfFirst(s, n - 1), Content(s[n])) = [k \in 1..n |-> Content(s[k])]
  BY <1>1, <1>5, <1>7
<1> QED
  BY <1>2, <1>8 DEF HashEvent, HashOfFirst

\* An event that names the hash of a chain's last event continues the chain.
LEMMA ChainExtends ==
  ASSUME NEW s, IsSeq(s), Chained(s), NEW e,
         e.previous_hash = IF s = <<>> THEN Genesis ELSE HashEvent(s[Len(s)])
  PROVE  /\ Chained(Append(s, e))
         /\ e.previous_hash = HashOfFirst(s, Len(s))
<1>1. Len(s) \in Nat /\ DOMAIN s = 1..Len(s)
  BY IsSeqFacts
<1>2. e.previous_hash = HashOfFirst(s, Len(s))
  <2>1. CASE s = <<>>
    BY <2>1 DEF HashOfFirst, Genesis
  <2>2. CASE s # <<>>
    <3>1. Len(s) # 0
      <4> DEFINE S == {s[m] : m \in DOMAIN s}
      <4>1. s \in Seq(S)
        BY DEF IsSeq
      <4> HIDE DEF S
      <4> QED
        BY <2>2, <4>1
    <3> QED
      BY <1>1, <2>2, <3>1, HashOfLast
  <2> QED
    BY <2>1, <2>2
<1>3. ASSUME NEW k \in 1..Len(Append(s, e))
      PROVE  Append(s, e)[k].previous_hash = HashOfFirst(Append(s, e), k - 1)
  <2>1. HashOfFirst(Append(s, e), k - 1) = HashOfFirst(s, k - 1)
    <3>1. Len(Append(s, e)) = Len(s) + 1
      BY AppendFacts
    <3>2. \A m \in 1..(k - 1) : m \in 1..Len(s)
      BY <1>1, <3>1
    <3>3. \A m \in 1..(k - 1) : Append(s, e)[m] = s[m]
      BY <3>2, AppendFacts
    <3> QED
      BY <3>3 DEF HashOfFirst
  <2>2. k \in 1..Len(s) \/ k = Len(s) + 1
    BY <1>1, AppendFacts
  <2>3. CASE k \in 1..Len(s)
    BY <2>1, <2>3, AppendFacts DEF Chained
  <2>4. CASE k = Len(s) + 1
    <3>1. k - 1 = Len(s)
      BY <1>1, <2>4
    <3> QED
      BY <1>2, <2>1, <2>4, <3>1, AppendFacts
  <2> QED
    BY <2>2, <2>3, <2>4
<1> QED
  BY <1>2, <1>3 DEF Chained

\* A hash determines the events it stands for: two chains with the same hash
\* after n events agree on all n, signatures included.
LEMMA HashDetermines ==
  ASSUME NEW s, NEW t, IsHistory(s), IsHistory(t), Chained(s), Chained(t),
         NEW n \in Nat, n <= Len(s), n <= Len(t), HashOfFirst(s, n) = HashOfFirst(t, n)
  PROVE  \A k \in 1..n : s[k] = t[k]
<1>0. Len(s) \in Nat /\ Len(t) \in Nat
  BY IsSeqFacts DEF IsHistory
<1>1. ASSUME NEW k \in 1..n
      PROVE  Content(s[k]) = Content(t[k])
  <2>1. HashOfFirst(s, n)[k] = Content(s[k]) /\ HashOfFirst(t, n)[k] = Content(t[k])
    BY DEF HashOfFirst
  <2> QED
    BY <2>1
<1>2. ASSUME NEW k \in 1..n
      PROVE  s[k] = t[k]
  <2>1. k \in 1..Len(s) /\ k \in 1..Len(t)
    BY <1>0
  <2>2. \A m \in 1..(k - 1) : m \in 1..n
    OBVIOUS
  <2>3. HashOfFirst(s, k - 1) = HashOfFirst(t, k - 1)
    BY <1>1, <2>2 DEF HashOfFirst
  <2>4. s[k].previous_hash = t[k].previous_hash
    BY <2>1, <2>3 DEF Chained
  <2>5. /\ s[k].phip_id = t[k].phip_id /\ s[k].actor = t[k].actor
        /\ s[k].body = t[k].body /\ s[k].signature = t[k].signature
    BY <1>1 DEF Content
  <2> QED
    BY <2>1, <2>4, <2>5 DEF IsHistory, IsEvent
<1> QED
  BY <1>2

-----------------------------------------------------------------------------

LEMMA InitIndInv == Init => IndInv
<1> SUFFICES ASSUME Init PROVE IndInv
  OBVIOUS
<1>1. IsHistory(<<>>) /\ Chained(<<>>) /\ 1..Len(<<>>) = {}
  <2>1. <<>> \in Seq({}) /\ 1..Len(<<>>) = {}
    OBVIOUS
  <2>2. IsSeq(<<>>)
    BY <2>1, SeqOfItsOwn
  <2> QED
    BY <2>1, <2>2 DEF IsHistory, Chained
<1>2. \A o \in Objects : chain[o] = <<>>
  BY DEF Init
<1>3. TypeOK
  BY <1>1, <1>2 DEF Init, TypeOK
<1>4. PassedIsChained
  BY <1>1 DEF Init, PassedIsChained
<1>5. ChainsAreSigned
  BY <1>1, <1>2 DEF ChainsAreSigned
<1>6. SignedOnHistory
  BY DEF Init, SignedOnHistory
<1>7. PassedIsSigned
  BY <1>1 DEF Init, PassedIsSigned
<1>8. HistoriesVerify
  BY DEF Init, HistoriesVerify
<1> QED
  BY <1>3, <1>4, <1>5, <1>6, <1>7, <1>8 DEF IndInv

-----------------------------------------------------------------------------
(* Writing *)

\* The hash of a chain's n-th event.
LEMMA HeadHashOfChain ==
  ASSUME NEW s, IsSeq(s), Chained(s), NEW n \in 0..Len(s)
  PROVE  HeadHash(s, n) = HashOfFirst(s, n)
<1>1. Len(s) \in Nat
  BY IsSeqFacts
<1>2. CASE n = 0
  BY <1>2 DEF HeadHash, HashOfFirst, Genesis
<1>3. CASE n # 0
  BY <1>1, <1>3, HashOfLast DEF HeadHash
<1> QED
  BY <1>2, <1>3

LEMMA PushKeeps ==
  ASSUME IndInv, NEW a \in Actors, NEW o \in Objects, NEW b \in Bodies,
         NEW n \in 0..Len(chain[o]), Push(a, o, n, b)
  PROVE  IndInv'
<1> DEFINE u == [phip_id |-> o, actor |-> a, body |-> b,
                 previous_hash |-> HeadHash(chain[o], n)]
           e == SignEvent(u, a, a)
<1>1. /\ signed' = signed \cup {e}
      /\ UNCHANGED <<chain, source, require_signatures, pc, walked>>
  BY DEF Push
<1>2. /\ e.phip_id = o /\ e.signature.key = a /\ e.signature.key_id = a
      /\ e.signature.over = u /\ Unsigned(e) = u /\ IsEvent(e)
      /\ e.previous_hash = HeadHash(chain[o], n)
  BY DEF SignEvent, Unsigned, IsEvent
<1> HIDE DEF e, u
<1>3. TypeOK'
  BY <1>1, <1>2 DEF IndInv, TypeOK
<1>4. PassedIsChained' /\ HistoriesVerify'
  BY <1>1 DEF IndInv, PassedIsChained, HistoriesVerify
<1>5. ChainsAreSigned'
  BY <1>1 DEF IndInv, ChainsAreSigned
<1>6. SignedOnHistory'
  <2>1. e.previous_hash = HashOfFirst(chain[o], n)
    BY <1>2, HeadHashOfChain DEF IndInv, TypeOK, IsHistory, ChainsAreSigned
  <2> QED
    BY <1>1, <1>2, <2>1 DEF IndInv, SignedOnHistory
<1>7. PassedIsSigned'
  BY <1>1 DEF IndInv, PassedIsSigned
<1> QED
  BY <1>3, <1>4, <1>5, <1>6, <1>7 DEF IndInv

LEMMA AppendEventKeeps ==
  ASSUME IndInv, NEW e \in signed, AppendEvent(e)
  PROVE  IndInv'
<1> DEFINE o == e.phip_id
           h == chain[o]
<1>1. /\ e.previous_hash = HeadHash(h, Len(h))
      /\ chain' = [chain EXCEPT ![o] = Append(h, e)]
      /\ UNCHANGED <<signed, source, require_signatures, pc, walked>>
  BY DEF AppendEvent
<1>2. IsEvent(e) /\ o \in Objects /\ IsHistory(h) /\ IsSeq(h) /\ Chained(h)
      /\ DOMAIN chain = Objects
  BY DEF IndInv, TypeOK, ChainsAreSigned, IsHistory
<1>3. Len(h) \in Nat
  BY <1>2, IsSeqFacts
<1>4. /\ DOMAIN chain' = Objects /\ chain'[o] = Append(h, e)
      /\ \A x \in Objects : x # o => chain'[x] = chain[x]
  BY <1>1, <1>2
<1>5. /\ IsHistory(Append(h, e)) /\ Len(Append(h, e)) = Len(h) + 1
      /\ \A k \in 1..Len(h) : Append(h, e)[k] = h[k]
      /\ Append(h, e)[Len(h) + 1] = e
  BY <1>2, AppendHistory, AppendFacts
<1>6. Chained(Append(h, e))
  <2>1. e.previous_hash = IF h = <<>> THEN Genesis ELSE HashEvent(h[Len(h)])
    <3>1. h = <<>> <=> Len(h) = 0
      <4> DEFINE S == {h[m] : m \in DOMAIN h}
      <4>1. h \in Seq(S)
        BY <1>2 DEF IsSeq
      <4> HIDE DEF S, h
      <4> QED
        BY <4>1
    <3> QED
      BY <1>1, <3>1 DEF HeadHash
  <2> HIDE DEF h
  <2> QED
    BY <1>2, <2>1, ChainExtends
<1>7. TypeOK'
  BY <1>1, <1>4, <1>5 DEF IndInv, TypeOK
<1>8. PassedIsChained' /\ HistoriesVerify' /\ PassedIsSigned'
  BY <1>1 DEF IndInv, PassedIsChained, HistoriesVerify, PassedIsSigned
<1>9. ChainsAreSigned'
  <2>1. ASSUME NEW k \in 1..Len(Append(h, e))
        PROVE  Append(h, e)[k] \in signed
    <3>1. k \in 1..Len(h) \/ k = Len(h) + 1
      BY <1>3, <1>5
    <3> QED
      BY <1>2, <1>5, <3>1 DEF IndInv, ChainsAreSigned
  <2> QED
    BY <1>1, <1>4, <1>6, <2>1 DEF IndInv, ChainsAreSigned
<1>10. SignedOnHistory'
  <2>1. ASSUME NEW f \in signed
        PROVE  \E n \in 0..Len(chain'[f.phip_id]) :
                 f.previous_hash = HashOfFirst(chain'[f.phip_id], n)
    <3>1. PICK n \in 0..Len(chain[f.phip_id]) :
            f.previous_hash = HashOfFirst(chain[f.phip_id], n)
      BY DEF IndInv, SignedOnHistory
    <3>2. CASE f.phip_id # o
      BY <1>4, <3>1, <3>2 DEF IndInv, TypeOK
    <3>3. CASE f.phip_id = o
      <4>1. n \in 0..Len(Append(h, e)) /\ \A k \in 1..n : k \in 1..Len(h)
        BY <1>3, <1>5, <3>1, <3>3
      <4>2. HashOfFirst(Append(h, e), n) = HashOfFirst(h, n)
        BY <1>5, <4>1 DEF HashOfFirst
      <4> QED
        BY <1>4, <3>1, <3>3, <4>1, <4>2
    <3> QED
      BY <3>2, <3>3
  <2> QED
    BY <1>1, <2>1 DEF IndInv, SignedOnHistory
<1> QED
  BY <1>7, <1>8, <1>9, <1>10 DEF IndInv

-----------------------------------------------------------------------------
(* Walking *)

\* Whatever list the reader is given, a signature in it that is an honest actor's
\* is over something that was signed.
LEMMA HonestSignatures ==
  ASSUME IndInv, NEW e, e \in SoundEvents \cup AnyEvents
  PROVE  /\ IsEvent(e)
         /\ e.signature.key \in Honest =>
              \E f \in signed : f.signature.over = e.signature.over
<1>1. \A f \in signed : IsEvent(f)
  BY DEF IndInv, TypeOK
<1>2. CASE e \in SoundEvents
  <2>1. PICK o \in {x \in Objects : /\ Len(walked) < Len(chain[x])
                                    /\ walked = SubSeq(chain[x], 1, Len(walked))} :
          e = chain[o][Len(walked) + 1]
    BY <1>2 DEF SoundEvents
  <2>2. Len(walked) + 1 \in 1..Len(chain[o])
    <3>1. Len(walked) \in Nat /\ Len(chain[o]) \in Nat
      BY <2>1, IsSeqFacts DEF IndInv, TypeOK, IsHistory
    <3> QED
      BY <2>1, <3>1
  <2>3. e \in signed
    BY <2>1, <2>2 DEF IndInv, ChainsAreSigned
  <2> QED
    BY <1>1, <2>3
<1>3. CASE e \in signed
  BY <1>1, <1>3
<1>4. CASE e \in {Relinked(f) : f \in signed}
  <2>1. PICK f \in signed : e = Relinked(f)
    BY <1>4
  <2>2. IsEvent(e) /\ e.signature = f.signature
    BY <1>1, <2>1 DEF Relinked, IsEvent
  <2> QED
    BY <2>2
<1>5. CASE e \in ForgedEvents
  <2>1. PICK d \in Actors \ Honest : \E u : e = SignEvent(u, d, d)
    BY <1>5 DEF ForgedEvents
  <2>2. IsEvent(e) /\ e.signature.key = d
    BY <2>1 DEF SignEvent, IsEvent
  <2> QED
    BY <2>1, <2>2
<1>6. CASE e \in UNION {AlteredEvents(f, Objects, Actors, Bodies, Actors) : f \in signed}
  <2>1. PICK f \in signed : e \in AlteredEvents(f, Objects, Actors, Bodies, Actors)
    BY <1>6
  <2>2. f = [phip_id |-> f.phip_id, actor |-> f.actor, body |-> f.body,
             previous_hash |-> f.previous_hash, signature |-> f.signature]
    BY <1>1 DEF IsEvent
  <2>3. CASE e \in {[f EXCEPT !.signature = [@ EXCEPT !.key_id = id]] :
                      id \in Actors \cup {NoSignature}}
    <3>1. PICK id : e = [f EXCEPT !.signature = [f.signature EXCEPT !.key_id = id]]
      BY <2>3
    <3> DEFINE g == [f.signature EXCEPT !.key_id = id]
    <3>2. g.key = f.signature.key /\ g.over = f.signature.over
      OBVIOUS
    <3> HIDE DEF g
    <3>3. e = [f EXCEPT !.signature = g]
      BY <3>1 DEF g
    <3>4. IsEvent(e) /\ e.signature = g
      BY <2>2, <3>3 DEF IsEvent
    <3> QED
      BY <3>2, <3>4
  <2>4. CASE \/ e \in {[f EXCEPT !.phip_id = o] : o \in Objects}
             \/ e \in {[f EXCEPT !.actor = a] : a \in Actors}
             \/ e \in {[f EXCEPT !.body = b] : b \in Bodies}
    <3>1. IsEvent(e) /\ e.signature = f.signature
      BY <2>2, <2>4 DEF IsEvent
    <3> QED
      BY <3>1
  <2> QED
    BY <2>1, <2>3, <2>4 DEF AlteredEvents
<1> QED
  BY <1>2, <1>3, <1>4, <1>5, <1>6 DEF AnyEvents

\* The next event of a history that is read in order is in order.
LEMMA SoundEventPasses ==
  ASSUME IndInv, NEW e \in SoundEvents, NEW key \in Resolutions(e.signature.key_id)
  PROVE  Fault(e, key) \in {"none", "KeyNotFound"}
<1> DEFINE n == Len(walked)
<1>1. PICK o \in {x \in Objects : /\ n < Len(chain[x])
                                  /\ walked = SubSeq(chain[x], 1, n)} :
        e = chain[o][n + 1]
  BY DEF SoundEvents
<1>2. /\ IsSeq(chain[o]) /\ Chained(chain[o]) /\ IsSeq(walked) /\ Chained(walked)
      /\ Len(chain[o]) \in Nat /\ n \in Nat /\ n + 1 \in 1..Len(chain[o])
  <2>1. IsSeq(chain[o]) /\ Chained(chain[o]) /\ IsSeq(walked) /\ Chained(walked)
    BY <1>1 DEF IndInv, TypeOK, IsHistory, ChainsAreSigned, PassedIsChained
  <2>2. Len(chain[o]) \in Nat /\ n \in Nat
    BY <2>1, IsSeqFacts
  <2> QED
    BY <1>1, <2>1, <2>2
<1>3. e.previous_hash = HashOfFirst(chain[o], n)
  BY <1>1, <1>2 DEF Chained
<1>4. \A k \in 1..n : walked[k] = chain[o][k]
  BY <1>1, <1>2
<1>5. HashOfFirst(chain[o], n) = HashOfFirst(walked, n)
  BY <1>4 DEF HashOfFirst
<1>6. e.previous_hash = ExpectedPrevious(walked, e)
  <2>1. CASE walked = <<>>
    <3>1. n = 0
      BY <2>1
    <3> QED
      BY <1>3, <2>1, <3>1 DEF ExpectedPrevious, HashOfFirst, Genesis
  <2>2. CASE walked # <<>>
    <3>1. n \in 1..n
      <4> DEFINE S == {walked[m] : m \in DOMAIN walked}
      <4>1. walked \in Seq(S)
        BY <1>2 DEF IsSeq
      <4> HIDE DEF S
      <4> QED
        BY <2>2, <4>1
    <3> QED
      BY <1>2, <1>3, <1>5, <2>2, <3>1, HashOfLast DEF ExpectedPrevious
  <2> QED
    BY <2>1, <2>2
<1>7. e \in signed
  BY <1>1, <1>2 DEF IndInv, ChainsAreSigned
<1>8. e.signature.key \in Actors /\ e.signature.key_id = e.signature.key
      /\ e.signature.over = Unsigned(e)
  BY <1>7 DEF IndInv, SignedOnHistory
<1> QED
  BY <1>6, <1>8, KeyAssumption DEF Fault, Resolutions, VerifyEvent

LEMMA WalkKeeps ==
  ASSUME IndInv, NEW e, e \in IF source = "sound" THEN SoundEvents ELSE AnyEvents,
         NEW key \in Resolutions(e.signature.key_id), Walk(e, key)
  PROVE  IndInv'
<1>1. UNCHANGED <<chain, signed, source, require_signatures>> /\ pc = "walking"
  BY DEF Walk
<1>2. IsEvent(e) /\ (e.signature.key \in Honest =>
                       \E f \in signed : f.signature.over = e.signature.over)
  BY HonestSignatures
<1>3. ChainsAreSigned' /\ SignedOnHistory'
  BY <1>1 DEF IndInv, ChainsAreSigned, SignedOnHistory
<1>4. CASE Fault(e, key) # "none"
  <2>1. pc' = Fault(e, key) /\ UNCHANGED walked /\ pc' \in Errors
    BY <1>4 DEF Walk, Fault, Errors
  <2>2. source = "sound" => Fault(e, key) = "KeyNotFound"
    BY <1>4, SoundEventPasses
  <2>3. TypeOK'
    BY <1>1, <2>1 DEF IndInv, TypeOK
  <2>4. PassedIsChained' /\ PassedIsSigned'
    BY <1>1, <2>1 DEF IndInv, PassedIsChained, PassedIsSigned
  <2>5. HistoriesVerify'
    BY <1>1, <2>1, <2>2 DEF HistoriesVerify
  <2> QED
    BY <1>3, <2>3, <2>4, <2>5 DEF IndInv
<1>5. CASE Fault(e, key) = "none"
  <2>1. walked' = Append(walked, e) /\ UNCHANGED pc
    BY <1>5 DEF Walk
  <2>2. IsHistory(walked) /\ IsSeq(walked) /\ Chained(walked)
    BY DEF IndInv, TypeOK, IsHistory, PassedIsChained
  <2>3. /\ IsHistory(Append(walked, e)) /\ Len(Append(walked, e)) = Len(walked) + 1
        /\ \A k \in 1..Len(walked) : Append(walked, e)[k] = walked[k]
        /\ Append(walked, e)[Len(walked) + 1] = e
        /\ Len(walked) \in Nat
    BY <1>2, <2>2, AppendHistory, AppendFacts, IsSeqFacts
  <2>4. e.previous_hash = IF walked = <<>> THEN Genesis ELSE HashEvent(walked[Len(walked)])
    BY <1>5 DEF Fault, ExpectedPrevious
  <2>5. PassedIsChained'
    BY <2>1, <2>2, <2>4, ChainExtends DEF PassedIsChained
  <2>6. TypeOK'
    BY <1>1, <2>1, <2>3 DEF IndInv, TypeOK
  <2>7. HistoriesVerify'
    BY <1>1, <2>1 DEF IndInv, HistoriesVerify
  <2>8. require_signatures =>
          e.signature.key = e.signature.key_id /\ e.signature.over = Unsigned(e)
    BY <1>5 DEF Fault, VerifyEvent, Resolutions
  <2>9. PassedIsSigned'
    <3>1. ASSUME require_signatures, NEW k \in 1..Len(Append(walked, e))
          PROVE  LET f == Append(walked, e)[k] IN
                   /\ f.signature.key = f.signature.key_id
                   /\ f.signature.over = Unsigned(f)
                   /\ f.signature.key \in Honest =>
                        \E g \in signed : g.signature.over = f.signature.over
      <4>1. k \in 1..Len(walked) \/ k = Len(walked) + 1
        BY <2>3
      <4> QED
        BY <1>2, <2>3, <2>8, <3>1, <4>1 DEF IndInv, PassedIsSigned
    <3> QED
      BY <1>1, <2>1, <3>1 DEF PassedIsSigned
  <2> QED
    BY <1>3, <2>5, <2>6, <2>7, <2>9 DEF IndInv
<1> QED
  BY <1>4, <1>5

LEMMA NextKeeps == IndInv /\ [Next]_vars => IndInv'
<1> SUFFICES ASSUME IndInv, [Next]_vars PROVE IndInv'
  OBVIOUS
<1>1. CASE \E a \in Actors, o \in Objects, b \in Bodies :
             \E n \in 0..Len(chain[o]) : Push(a, o, n, b)
  BY <1>1, PushKeeps
<1>2. CASE \E e \in signed : AppendEvent(e)
  BY <1>2, AppendEventKeeps
<1>3. CASE \E e \in IF source = "sound" THEN SoundEvents ELSE AnyEvents :
             \E key \in Resolutions(e.signature.key_id) : Walk(e, key)
  <2>1. PICK e : /\ e \in IF source = "sound" THEN SoundEvents ELSE AnyEvents
                 /\ \E key \in Resolutions(e.signature.key_id) : Walk(e, key)
    BY <1>3
  <2> QED
    BY <2>1, WalkKeeps
<1>4. CASE Accept
  BY <1>4 DEF Accept, IndInv, TypeOK, PassedIsChained, ChainsAreSigned, SignedOnHistory,
              PassedIsSigned, HistoriesVerify
<1>5. CASE UNCHANGED vars
  BY <1>5 DEF vars, IndInv, TypeOK, PassedIsChained, ChainsAreSigned, SignedOnHistory,
              PassedIsSigned, HistoriesVerify
<1> QED
  BY <1>1, <1>2, <1>3, <1>4, <1>5 DEF Next

-----------------------------------------------------------------------------
(* Theorems *)

\* The inductive invariant, for every instance.
THEOREM IndInvInvariant == Spec => []IndInv
BY InitIndInv, NextKeeps, PTL DEF Spec

\* One honest signature fixes the whole history before it.
THEOREM HonestSignatureFixes == Spec => []HonestSignatureFixesHistory
<1>1. IndInv => HonestSignatureFixesHistory
  <2> SUFFICES ASSUME IndInv, require_signatures, NEW k \in 1..Len(walked),
                      walked[k].signature.key_id \in Honest
               PROVE  LET history == chain[walked[k].phip_id] IN
                        /\ \E f \in signed : Unsigned(f) = Unsigned(walked[k])
                        /\ k - 1 <= Len(history)
                        /\ SubSeq(walked, 1, k - 1) = SubSeq(history, 1, k - 1)
    BY DEF HonestSignatureFixesHistory
  <2>1. /\ walked[k].signature.over = Unsigned(walked[k])
        /\ \E f \in signed : f.signature.over = walked[k].signature.over
    BY DEF IndInv, PassedIsSigned
  <2>2. PICK f \in signed : f.signature.over = Unsigned(walked[k])
    BY <2>1
  <2>3. Unsigned(f) = Unsigned(walked[k])
    BY <2>2 DEF IndInv, SignedOnHistory
  <2>4. f.phip_id = walked[k].phip_id /\ f.previous_hash = walked[k].previous_hash
    BY <2>3 DEF Unsigned
  <2> DEFINE h == chain[f.phip_id]
  <2>5. PICK n \in 0..Len(h) : f.previous_hash = HashOfFirst(h, n)
    BY DEF IndInv, SignedOnHistory
  <2>6. /\ f.phip_id \in Objects /\ IsHistory(h) /\ Chained(h)
        /\ IsHistory(walked) /\ Chained(walked)
    BY DEF IndInv, TypeOK, ChainsAreSigned, PassedIsChained
  <2>7. Len(h) \in Nat /\ Len(walked) \in Nat /\ IsSeq(h) /\ IsSeq(walked)
    BY <2>6, IsSeqFacts DEF IsHistory
  <2>8. walked[k].previous_hash = HashOfFirst(walked, k - 1)
    BY <2>6 DEF Chained
  <2>9. n \in Nat /\ k - 1 \in Nat /\ HashOfFirst(walked, k - 1) = HashOfFirst(h, n)
    <3>1. k \in Nat /\ k >= 1
      BY <2>7
    <3>2. n \in Nat
      BY <2>5, <2>7
    <3>3. k - 1 \in Nat
      BY <3>1
    <3> QED
      BY <2>4, <2>5, <2>8, <3>2, <3>3
  <2>10. n = k - 1
    <3>1. DOMAIN HashOfFirst(walked, k - 1) = 1..(k - 1) /\ DOMAIN HashOfFirst(h, n) = 1..n
      BY DEF HashOfFirst
    <3>2. 1..(k - 1) = 1..n
      BY <2>9, <3>1
    <3> QED
      BY <2>9, <3>2
  <2>11. k - 1 <= Len(h) /\ k - 1 <= Len(walked)
    BY <2>5, <2>7, <2>10
  <2>12. \A m \in 1..(k - 1) : walked[m] = h[m]
    BY <2>6, <2>9, <2>10, <2>11, HashDetermines
  <2>13. SubSeq(walked, 1, k - 1) = SubSeq(h, 1, k - 1)
    <3> DEFINE W == {walked[m] : m \in DOMAIN walked}
               H == {h[m] : m \in DOMAIN h}
    <3>1. walked \in Seq(W) /\ h \in Seq(H)
      BY <2>7 DEF IsSeq
    <3> HIDE DEF W, H, h
    <3>2. walked \in Seq(W \cup H) /\ h \in Seq(W \cup H)
      BY <3>1
    <3> QED
      BY <2>7, <2>9, <2>11, <2>12, <3>2
  <2> QED
    BY <2>3, <2>4, <2>11, <2>13
<1> QED
  BY <1>1, IndInvInvariant, PTL

\* A history read from its first event is refused only for want of a key.
THEOREM HistoriesAreAccepted == Spec => []HistoriesVerify
<1>1. IndInv => HistoriesVerify
  BY DEF IndInv
<1> QED
  BY <1>1, IndInvInvariant, PTL
=============================================================================
