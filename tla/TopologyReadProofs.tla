-------------------------- MODULE TopologyReadProofs --------------------------
(***************************************************************************)
(* Proofs, for all chains and all pages, of what a reader of topology      *)
(* pages may rely on.  Only what is said of the links of entries needs     *)
(* that no authority signs a null event_hash.                              *)
(***************************************************************************)
EXTENDS TopologyRead, TLAPS

EntryType == [previous_hash : Hashes, event_hash : Hashes]

\* The last entry's hash is what the loop remembers.
LastRemembered ==
  /\ pc = "start" => flat = <<>>
  /\ pc \in {"start", "stitching"} =>
       prev_last_hash = IF flat = <<>> THEN NoHash ELSE flat[Len(flat)].event_hash

\* The pages that verify are slices of chains.
SlicesOnly == source = "sound" \/ "null_hash" \notin Defects

IndInv ==
  /\ TypeOK
  /\ SlicesOnly => StitchedIsPrefix
  /\ LastRemembered
  /\ SoundReadsSucceed

-----------------------------------------------------------------------------
(* Entries, slices and pages *)

LEMMA HashOfType == ASSUME NEW o \in Objects, NEW k \in Nat PROVE HashOf(o, k) \in Hashes
BY DEF HashOf, Hashes

\* A hash identifies an event and its chain, or is genesis; it is never None.
LEMMA HashOfInjective ==
  ASSUME NEW o \in Objects, NEW p \in Objects, NEW k \in Nat, NEW m \in Nat
  PROVE  /\ HashOf(o, k) = HashOf(p, m) => k = m /\ (k # 0 => o = p)
         /\ HashOf(o, k) # NoHash
<1>1. <<o, k>> \in Objects \X Nat /\ <<p, m>> \in Objects \X Nat
  OBVIOUS
<1>2. /\ Genesis # <<o, k>> /\ Genesis # <<p, m>>
      /\ NoHash # <<o, k>> /\ NoHash # Genesis
  BY <1>1, HashAssumption
<1>3. <<o, k>> = <<p, m>> => k = m /\ o = p
  OBVIOUS
<1> QED
  BY <1>2, <1>3 DEF HashOf

LEMMA EntryFacts ==
  ASSUME NEW o \in Objects, NEW k \in Nat, k >= 1
  PROVE  /\ Entry(o, k) \in EntryType
         /\ Entry(o, k).previous_hash = HashOf(o, k - 1)
         /\ Entry(o, k).event_hash = HashOf(o, k)
<1>1. k - 1 \in Nat
  OBVIOUS
<1> QED
  BY <1>1, HashOfType DEF Entry, EntryType

LEMMA SliceFacts ==
  ASSUME NEW o \in Objects, NEW i \in Nat, NEW j \in Nat, i <= j
  PROVE  /\ Slice(o, i, j) \in Seq(EntryType)
         /\ Len(Slice(o, i, j)) = j - i
         /\ \A k \in 1..(j - i) : Slice(o, i, j)[k] = Entry(o, i + k)
         /\ Unbroken(Slice(o, i, j))
<1>1. j - i \in Nat
  OBVIOUS
<1>2. \A k \in 1..(j - i) : Slice(o, i, j)[k] = Entry(o, i + k)
  BY DEF Slice
<1>3. \A k \in 1..(j - i) : Entry(o, i + k) \in EntryType
  BY EntryFacts
<1>4. Slice(o, i, j) \in Seq(EntryType) /\ Len(Slice(o, i, j)) = j - i
  BY <1>1, <1>3 DEF Slice
<1>5. ASSUME NEW k \in 2..(j - i)
      PROVE  Slice(o, i, j)[k].previous_hash = Slice(o, i, j)[k - 1].event_hash
  <2>1. k \in 1..(j - i) /\ k - 1 \in 1..(j - i) /\ i + k \in Nat /\ i + (k - 1) \in Nat
        /\ i + k >= 1 /\ i + (k - 1) >= 1 /\ (i + k) - 1 = i + (k - 1)
    OBVIOUS
  <2> QED
    BY <1>2, <2>1, EntryFacts
<1> QED
  BY <1>2, <1>4, <1>5 DEF Unbroken

\* Whatever happens to a page on its way, its signature, if it is still the
\* authority's, covers what the authority signed.
LEMMA SignatureCovers ==
  ASSUME NEW phip_id, NEW topology, NEW p, Signed(p),
         p \in {Envelope(phip_id, topology),
                [Envelope(phip_id, topology) EXCEPT !.five_fields = FALSE]}
               \cup Corrupted(Envelope(phip_id, topology))
  PROVE  p.topology = topology
<1> DEFINE e == Envelope(phip_id, topology)
           fields == {"phip_id", "page_length", "marked", "topology", "five_fields",
                      "signature"}
<1>1. p.signature.key = "authority" /\ p.signature.over.topology = p.topology
  BY DEF Signed, Canonical
<1>2. /\ DOMAIN e = fields
      /\ e.signature = [key |-> "authority", over |-> Canonical(phip_id, topology)]
  BY DEF Envelope
<1>3. e.signature.over.topology = topology
  BY <1>2 DEF Canonical
<1> HIDE DEF e
<1>4. p \in {e, [e EXCEPT !.five_fields = FALSE]} \cup Corrupted(e)
  BY DEF e
<1>5. CASE p.signature = e.signature
  BY <1>1, <1>3, <1>5
<1>6. CASE p.signature # e.signature
  <2>1. p # e /\ p # [e EXCEPT !.five_fields = FALSE] /\ p # [e EXCEPT !.marked = FALSE]
        /\ p # [e EXCEPT !.page_length = @ + 1]
    BY <1>2, <1>6
  <2>2. \A x, t : Altered(e, x, t).signature = e.signature
    BY DEF Altered, Envelope
  <2>3. \A x, t : p # Altered(e, x, t)
    BY <1>6, <2>2
  <2>4. p \in Corrupted(e)
    BY <1>4, <2>1
  <2>5. PICK key \in {"none", "other"} :
          p = [e EXCEPT !.signature = [@ EXCEPT !.key = key]]
    BY <2>1, <2>3, <2>4 DEF Corrupted
  <2>6. p.signature.key = key
    BY <1>2, <2>5
  <2> QED
    BY <1>1, <2>6
<1> QED
  BY <1>5, <1>6

\* The last entry of a slice replaced by one with a null event_hash.
NullSlice(o, i, j) == [Slice(o, i, j) EXCEPT ![j - i] = [@ EXCEPT !.event_hash = NoHash]]

\* A page that verifies, whatever the reader was handed, is a slice of a chain,
\* or one that the authority signed with a null event_hash.
LEMMA VerifiedIsSigned ==
  ASSUME TypeOK, NEW p \in AllPages, Problem(p) = "none"
  PROVE  \E o \in Objects : \E i \in Nat, j \in Nat :
           /\ i <= j /\ j <= length[o]
           /\ \/ p.topology = Slice(o, i, j)
              \/ "null_hash" \in Defects /\ i < j /\ p.topology = NullSlice(o, i, j)
<1> DEFINE pages(o, i, j) ==
      {Page(o, i, j)} \cup DefectivePages(o, i, j) \cup Corrupted(Page(o, i, j))
<1>0. PICK o \in Objects : \E j \in 0..length[o] : \E i \in 0..j : p \in pages(o, i, j)
  <2> HIDE DEF pages
  <2>1. AllPages = UNION {UNION {UNION {pages(o, i, j) : i \in 0..j} :
                                   j \in 0..length[o]} : o \in Objects}
    BY DEF AllPages, pages
  <2> QED
    BY <2>1
<1>1. PICK j \in 0..length[o] : \E i \in 0..j : p \in pages(o, i, j)
  BY <1>0
<1>11. PICK i \in 0..j : p \in pages(o, i, j)
  BY <1>1
<1>2. i \in Nat /\ j \in Nat /\ i <= j /\ j <= length[o] /\ length[o] \in Nat
  BY DEF TypeOK
<1>3. Signed(p) /\ Unbroken(p.topology)
  BY DEF Problem
<1> DEFINE gap == [Slice(o, i, j) EXCEPT ![j - i] = Entry(o, j + 1)]
<1>4. CASE p \in {Page(o, i, j), [Page(o, i, j) EXCEPT !.five_fields = FALSE]}
               \cup Corrupted(Page(o, i, j))
  <2>1. p.topology = Slice(o, i, j)
    BY <1>3, <1>4, SignatureCovers DEF Page
  <2> QED
    BY <1>2, <2>1
<1>5. CASE p = Envelope(o, gap) /\ i < j /\ j < length[o]
  <2>1. p.topology = gap
    BY <1>5 DEF Envelope
  <2> DEFINE n == j - i
  <2>2. n \in Nat /\ n >= 1 /\ i + n = j /\ j + 1 \in Nat /\ j + 1 <= length[o]
    BY <1>2, <1>5
  <2>3. /\ DOMAIN Slice(o, i, j) = 1..n
        /\ \A k \in 1..n : Slice(o, i, j)[k] = Entry(o, i + k)
    BY DEF Slice
  <2>4. /\ DOMAIN gap = 1..n
        /\ gap[n] = Entry(o, j + 1)
        /\ \A k \in 1..n : k # n => gap[k] = Entry(o, i + k)
    BY <2>2, <2>3
  <2>5. CASE n = 1
    <3>1. gap = Slice(o, j, j + 1)
      <4>1. (j + 1) - j = 1 /\ 1..1 = {1}
        BY <1>2
      <4>2. gap = [k \in 1..1 |-> Entry(o, j + k)]
        BY <2>4, <2>5, <4>1
      <4> QED
        BY <4>1, <4>2 DEF Slice
    <3> QED
      BY <2>1, <2>2, <3>1, <1>2
  <2>6. CASE n # 1
    <3>1. n \in 2..n /\ n - 1 \in 1..n /\ n - 1 # n /\ i + (n - 1) = j - 1
          /\ j - 1 \in Nat /\ j - 1 >= 1 /\ j + 1 >= 1 /\ (j + 1) - 1 = j
      BY <1>2, <2>2, <2>6
    <3>2. Len(gap) = n
      BY <2>2, <2>4
    <3>3. gap[n].previous_hash = gap[n - 1].event_hash
      BY <1>3, <2>1, <3>1, <3>2 DEF Unbroken
    <3>4. gap[n].previous_hash = HashOf(o, j)
      BY <2>2, <2>4, <3>1, EntryFacts
    <3>5. gap[n - 1].event_hash = HashOf(o, j - 1)
      BY <2>4, <3>1, EntryFacts
    <3> QED
      BY <1>2, <3>1, <3>3, <3>4, <3>5, HashOfInjective
  <2> QED
    BY <2>5, <2>6
<1>6. p \in DefectivePages(o, i, j) =>
        \/ p = [Page(o, i, j) EXCEPT !.five_fields = FALSE]
        \/ p = Envelope(o, gap) /\ i < j /\ j < length[o]
        \/ "null_hash" \in Defects /\ i < j /\ p = Envelope(o, NullSlice(o, i, j))
  BY DEF DefectivePages, NullSlice
<1>7. CASE "null_hash" \in Defects /\ i < j /\ p = Envelope(o, NullSlice(o, i, j))
  <2>1. p.topology = NullSlice(o, i, j)
    BY <1>7 DEF Envelope
  <2> QED
    BY <1>2, <1>7, <2>1
<1> QED
  BY <1>11, <1>4, <1>5, <1>6, <1>7

\* The entries of a page that verifies have their type.
LEMMA VerifiedIsTyped ==
  ASSUME TypeOK, NEW p \in AllPages, Problem(p) = "none"
  PROVE  p.topology \in Seq(EntryType)
<1>1. PICK o \in Objects : \E i \in Nat, j \in Nat :
        /\ i <= j /\ j <= length[o]
        /\ \/ p.topology = Slice(o, i, j)
           \/ "null_hash" \in Defects /\ i < j /\ p.topology = NullSlice(o, i, j)
  BY VerifiedIsSigned
<1>2. PICK i \in Nat, j \in Nat :
        /\ i <= j /\ j <= length[o]
        /\ \/ p.topology = Slice(o, i, j)
           \/ "null_hash" \in Defects /\ i < j /\ p.topology = NullSlice(o, i, j)
  BY <1>1
<1> DEFINE s == Slice(o, i, j)
           n == j - i
<1>3. s \in Seq(EntryType) /\ Len(s) = n /\ n \in Nat
  BY <1>2, SliceFacts
<1>4. CASE p.topology = s
  BY <1>3, <1>4
<1>5. CASE i < j /\ p.topology = NullSlice(o, i, j)
  <2>1. n \in 1..Len(s)
    BY <1>2, <1>3, <1>5
  <2>2. p.topology = [s EXCEPT ![n] = [s[n] EXCEPT !.event_hash = NoHash]]
    BY <1>5 DEF NullSlice
  <2> HIDE DEF s, n
  <2>3. s[n] \in EntryType
    BY <1>3, <2>1
  <2>4. [s[n] EXCEPT !.event_hash = NoHash] \in EntryType
    BY <2>3 DEF EntryType, Hashes
  <2> QED
    BY <1>3, <2>1, <2>2, <2>4
<1> QED
  BY <1>2, <1>4, <1>5

\* A slice that begins with the chain's first event, appended to nothing, or
\* with the event that follows a prefix, appended to it, gives a prefix.
LEMMA PrefixExtends ==
  ASSUME TypeOK, NEW o \in Objects, NEW n \in Nat, NEW j \in Nat,
         n <= j, j <= length[o], NEW entries \in Seq(EntryType),
         Len(entries) = n, PrefixOf(o, entries)
  PROVE  /\ PrefixOf(o, entries \o Slice(o, n, j))
         /\ entries \o Slice(o, n, j) \in Seq(EntryType)
<1> DEFINE s == Slice(o, n, j)
<1>1. s \in Seq(EntryType) /\ Len(s) = j - n /\ \A k \in 1..(j - n) : s[k] = Entry(o, n + k)
  BY SliceFacts
<1> HIDE DEF s
<1>2. entries \o s \in Seq(EntryType) /\ Len(entries \o s) = j
  BY <1>1
<1>3. ASSUME NEW k \in 1..j
      PROVE  (entries \o s)[k] = Entry(o, k)
  <2>1. CASE k <= n
    <3>1. k \in 1..Len(entries)
      BY <2>1
    <3>2. (entries \o s)[k] = entries[k]
      BY <1>1, <3>1
    <3>3. entries[k] = Entry(o, k)
      BY <3>1 DEF PrefixOf
    <3> QED
      BY <3>2, <3>3
  <2>2. CASE k > n
    <3>1. k - n \in 1..(j - n) /\ n + (k - n) = k
      BY <2>2
    <3>2. (entries \o s)[k] = s[k - n]
      BY <1>1, <2>2, <3>1
    <3> QED
      BY <1>1, <3>1, <3>2
  <2>3. k <= n \/ k > n
    OBVIOUS
  <2> QED
    BY <2>1, <2>2, <2>3
<1>4. PrefixOf(o, entries \o s)
  BY <1>2, <1>3 DEF PrefixOf
<1> QED
  BY <1>2, <1>4 DEF s

\* What the loop remembers of a prefix it has accepted.
LEMMA RememberedHash ==
  ASSUME IndInv, NEW o \in Objects, PrefixOf(o, flat), pc \in {"start", "stitching"}
  PROVE  /\ Len(flat) \in Nat
         /\ Expected = HashOf(o, Len(flat))
<1>1. flat \in Seq(EntryType) /\ Len(flat) \in Nat
  BY DEF IndInv, TypeOK, EntryType
<1>2. CASE flat = <<>>
  BY <1>1, <1>2 DEF IndInv, LastRemembered, Expected, HashOf
<1>3. CASE flat # <<>>
  <2>1. Len(flat) \in 1..Len(flat) /\ Len(flat) >= 1
    BY <1>1, <1>3
  <2>2. flat[Len(flat)] = Entry(o, Len(flat))
    BY <2>1 DEF PrefixOf
  <2>3. prev_last_hash = HashOf(o, Len(flat))
    BY <1>1, <1>3, <2>1, <2>2, EntryFacts DEF IndInv, LastRemembered
  <2> QED
    BY <1>1, <2>3, HashOfInjective DEF Expected
<1> QED
  BY <1>1, <1>2, <1>3

-----------------------------------------------------------------------------
(* What the reader's steps do *)

LEMMA SoundIsAny ==
  ASSUME TypeOK, NEW p \in SoundPages
  PROVE  p \in AllPages
<1>1. PICK o \in {x \in Objects : PrefixOf(x, flat)} :
        p \in {Page(o, Len(flat), j) : j \in Len(flat)..length[o]}
  BY DEF SoundPages
<1>2. PICK j \in Len(flat)..length[o] : p = Page(o, Len(flat), j)
  BY <1>1
<1>3. Len(flat) \in 0..j /\ j \in 0..length[o]
  BY <1>1, <1>2 DEF TypeOK
<1> QED
  BY <1>1, <1>2, <1>3 DEF AllPages

\* A sound page verifies and links to what has been read.
LEMMA SoundPageAccepted ==
  ASSUME IndInv, NEW p \in SoundPages, pc \in {"start", "stitching"}
  PROVE  /\ Problem(p) = "none"
         /\ p.topology # <<>> => p.topology[1].previous_hash = Expected
<1>1. PICK o \in {x \in Objects : PrefixOf(x, flat)} :
        p \in {Page(o, Len(flat), j) : j \in Len(flat)..length[o]}
  BY DEF SoundPages
<1>2. PICK j \in Len(flat)..length[o] : p = Page(o, Len(flat), j)
  BY <1>1
<1> DEFINE n == Len(flat)
<1>3. n \in Nat /\ Expected = HashOf(o, n)
  BY <1>1, RememberedHash
<1>4. j \in Nat /\ n <= j
  BY <1>1, <1>2, <1>3 DEF IndInv, TypeOK
<1>5. p.topology = Slice(o, n, j)
  BY <1>2 DEF Page, Envelope
<1>6. Unbroken(p.topology) /\ Len(p.topology) = j - n
      /\ \A k \in 1..(j - n) : p.topology[k] = Entry(o, n + k)
  <2> DEFINE s == Slice(o, n, j)
  <2>1. /\ Unbroken(s) /\ Len(s) = j - n
        /\ \A k \in 1..(j - n) : s[k] = Entry(o, n + k)
    BY <1>3, <1>4, SliceFacts
  <2>2. p.topology = s
    BY <1>5
  <2> HIDE DEF s
  <2> QED
    BY <2>1, <2>2
<1>7. WellFormed(p) /\ Signed(p)
  BY <1>2 DEF WellFormed, Signed, Page, Envelope, Canonical
<1>8. ASSUME p.topology # <<>>
      PROVE  p.topology[1].previous_hash = HashOf(o, n)
  <2>1. j - n # 0
    BY <1>3, <1>4, <1>5, <1>6, <1>8, SliceFacts
  <2>2. 1 \in 1..(j - n) /\ n + 1 \in Nat /\ n + 1 >= 1 /\ (n + 1) - 1 = n
    BY <1>3, <1>4, <2>1
  <2> QED
    BY <1>1, <1>6, <2>2, EntryFacts
<1> QED
  BY <1>3, <1>6, <1>7, <1>8 DEF Problem

\* Without null hashes, and in any case from a sound source, a page that
\* verifies is a slice of a chain.
LEMMA VerifiedIsSlice ==
  ASSUME TypeOK, SlicesOnly, NEW p,
         p \in IF source = "sound" THEN SoundPages ELSE AllPages,
         Problem(p) = "none"
  PROVE  \E o \in Objects : \E i \in Nat, j \in Nat :
           i <= j /\ j <= length[o] /\ p.topology = Slice(o, i, j)
<1>1. CASE source = "sound"
  <2>1. PICK o \in {x \in Objects : PrefixOf(x, flat)} :
          p \in {Page(o, Len(flat), j) : j \in Len(flat)..length[o]}
    BY <1>1 DEF SoundPages
  <2>2. PICK j \in Len(flat)..length[o] : p = Page(o, Len(flat), j)
    BY <2>1
  <2>3. Len(flat) \in Nat /\ j \in Nat /\ Len(flat) <= j /\ j <= length[o]
    BY <2>1, <2>2 DEF TypeOK
  <2>4. p.topology = Slice(o, Len(flat), j)
    BY <2>2 DEF Page, Envelope
  <2> QED
    BY <2>1, <2>3, <2>4
<1>2. CASE source # "sound"
  BY <1>2, VerifiedIsSigned DEF SlicesOnly
<1> QED
  BY <1>1, <1>2

\* A verified page that links to what has been read continues the same chain.
LEMMA AcceptedContinues ==
  ASSUME IndInv, SlicesOnly, pc \in {"start", "stitching"}, NEW p,
         p \in IF source = "sound" THEN SoundPages ELSE AllPages,
         Problem(p) = "none",
         p.topology # <<>>, p.topology[1].previous_hash = Expected
  PROVE  \E o \in Objects : PrefixOf(o, flat \o p.topology)
<1>1. PICK o \in Objects : \E i \in Nat, j \in Nat :
        i <= j /\ j <= length[o] /\ p.topology = Slice(o, i, j)
  BY VerifiedIsSlice DEF IndInv
<1>2. PICK i \in Nat, j \in Nat :
        i <= j /\ j <= length[o] /\ p.topology = Slice(o, i, j)
  BY <1>1
<1>3. PICK q \in Objects : PrefixOf(q, flat)
  BY DEF IndInv, StitchedIsPrefix
<1> DEFINE n == Len(flat)
<1>4. n \in Nat /\ Expected = HashOf(q, n) /\ flat \in Seq(EntryType)
  BY <1>3, RememberedHash DEF IndInv, TypeOK, EntryType
<1>5. p.topology[1].previous_hash = HashOf(o, i) /\ p.topology \in Seq(EntryType)
  <2> DEFINE s == Slice(o, i, j)
  <2>0. /\ Len(s) = j - i /\ s \in Seq(EntryType)
        /\ \A k \in 1..(j - i) : s[k] = Entry(o, i + k)
    BY <1>2, SliceFacts
  <2> HIDE DEF s
  <2>1. /\ Len(p.topology) = j - i /\ p.topology \in Seq(EntryType)
        /\ \A k \in 1..(j - i) : p.topology[k] = Entry(o, i + k)
    <3>1. p.topology = s
      BY <1>2 DEF s
    <3> QED
      BY <2>0, <3>1
  <2>2. j - i # 0
    BY <2>1
  <2>3. 1 \in 1..(j - i) /\ i + 1 \in Nat /\ i + 1 >= 1 /\ (i + 1) - 1 = i
    BY <1>2, <2>2
  <2> QED
    BY <2>1, <2>3, EntryFacts
<1>6. i = n /\ (i # 0 => o = q)
  BY <1>4, <1>5, HashOfInjective
<1>7. PrefixOf(o, flat)
  <2>1. CASE i = 0
    <3>1. length[o] \in Nat
      BY DEF IndInv, TypeOK
    <3>2. Len(flat) = 0 /\ 1..0 = {}
      BY <1>6, <2>1
    <3> QED
      BY <3>1, <3>2 DEF PrefixOf
  <2>2. CASE i # 0
    BY <1>3, <1>6, <2>2
  <2> QED
    BY <2>1, <2>2
<1>8. PrefixOf(o, flat \o Slice(o, n, j))
  BY <1>2, <1>4, <1>6, <1>7, PrefixExtends DEF IndInv
<1> QED
  BY <1>2, <1>6, <1>8

LEMMA InitIndInv == Init => IndInv
<1> SUFFICES ASSUME Init PROVE IndInv
  OBVIOUS
<1>1. TypeOK
  BY MaxEventsAssumption DEF Init, TypeOK, Hashes
<1>2. ASSUME NEW o \in Objects PROVE PrefixOf(o, flat)
  BY <1>2 DEF Init, PrefixOf
<1> QED
  BY <1>1, <1>2, ObjectsAssumption DEF Init, IndInv, StitchedIsPrefix, LastRemembered, SoundReadsSucceed, Errors

\* Chains only grow, so a prefix remains one.
LEMMA GrowKeeps ==
  ASSUME IndInv, NEW o \in Objects, Grow(o)
  PROVE  IndInv'
<1>1. /\ UNCHANGED <<source, public_key, pc, flat, prev_last_hash>>
      /\ length' = [length EXCEPT ![o] = @ + 1]
      /\ length[o] < MaxEvents
  BY DEF Grow
<1>2. length \in [Objects -> 0..MaxEvents]
  BY DEF IndInv, TypeOK
<1>3. length' \in [Objects -> 0..MaxEvents] /\ \A x \in Objects : length[x] <= length'[x]
  BY <1>1, <1>2, MaxEventsAssumption
<1>4. TypeOK'
  BY <1>1, <1>3 DEF IndInv, TypeOK, Hashes
<1>5. SlicesOnly' => StitchedIsPrefix'
  <2> SUFFICES ASSUME SlicesOnly PROVE StitchedIsPrefix'
    BY <1>1 DEF SlicesOnly
  <2>1. PICK x \in Objects : PrefixOf(x, flat)
    BY DEF IndInv, StitchedIsPrefix
  <2>2. length[x] \in Nat /\ length'[x] \in Nat /\ length[x] <= length'[x]
        /\ Len(flat) \in Nat
    BY <1>2, <1>3 DEF IndInv, TypeOK
  <2>3. PrefixOf(x, flat)'
    BY <1>1, <2>1, <2>2 DEF PrefixOf, Entry, HashOf
  <2> QED
    BY <2>3 DEF StitchedIsPrefix
<1> QED
  BY <1>1, <1>4, <1>5 DEF IndInv, LastRemembered, SoundReadsSucceed

LEMMA ProblemType ==
  ASSUME NEW p, Problem(p) # "none"
  PROVE  Problem(p) \in Errors
BY DEF Problem, Errors

\* A page that does not verify, or does not link, ends the read; a sound one
\* never does.
LEMMA RefusalKeeps ==
  ASSUME IndInv, UNCHANGED <<length, source, public_key, flat, prev_last_hash>>,
         pc' \in Ended, source = "sound" => pc' \notin Errors
  PROVE  IndInv'
<1>1. TypeOK' /\ LastRemembered' /\ SoundReadsSucceed'
  BY DEF IndInv, TypeOK, LastRemembered, SoundReadsSucceed, Ended, Errors, Hashes
<1>2. SlicesOnly' => StitchedIsPrefix'
  BY DEF IndInv, SlicesOnly, StitchedIsPrefix, PrefixOf, Entry, HashOf
<1> QED
  BY <1>1, <1>2 DEF IndInv

LEMMA StitchPageKeeps ==
  ASSUME IndInv, NEW p,
         p \in IF source = "sound" THEN SoundPages ELSE AllPages,
         public_key \/ Problem(p) = "none", StitchPage(p)
  PROVE  IndInv'
<1>1. pc \in {"start", "stitching"} /\ UNCHANGED <<length, source, public_key>>
  BY DEF StitchPage
<1>2. p \in AllPages
  BY SoundIsAny DEF IndInv
<1>3. source = "sound" =>
        Problem(p) = "none" /\ (p.topology # <<>> => p.topology[1].previous_hash = Expected)
  BY <1>1, SoundPageAccepted
<1>4. CASE Problem(p) # "none"
  <2>1. pc' = Problem(p) /\ UNCHANGED <<flat, prev_last_hash>> /\ source # "sound"
    BY <1>3, <1>4 DEF StitchPage
  <2> QED
    BY <1>1, <1>4, <2>1, ProblemType, RefusalKeeps DEF Ended
<1>5. CASE Problem(p) = "none" /\ p.topology = <<>>
  <2>1. pc' = "stitching" /\ UNCHANGED <<flat, prev_last_hash>>
    BY <1>5 DEF StitchPage
  <2>2. TypeOK' /\ LastRemembered' /\ SoundReadsSucceed'
    BY <1>1, <2>1 DEF IndInv, TypeOK, LastRemembered, SoundReadsSucceed, Errors, Hashes
  <2>3. SlicesOnly' => StitchedIsPrefix'
    BY <1>1, <2>1 DEF IndInv, SlicesOnly, StitchedIsPrefix, PrefixOf, Entry, HashOf
  <2> QED
    BY <2>2, <2>3 DEF IndInv
<1>6. CASE /\ Problem(p) = "none" /\ p.topology # <<>>
           /\ p.topology[1].previous_hash # Expected
  <2>1. pc' = "InvalidEvent" /\ UNCHANGED <<flat, prev_last_hash>> /\ source # "sound"
    BY <1>3, <1>6 DEF StitchPage
  <2> QED
    BY <1>1, <2>1, RefusalKeeps DEF Ended, Errors
<1>7. CASE /\ Problem(p) = "none" /\ p.topology # <<>>
           /\ p.topology[1].previous_hash = Expected
  <2>1. /\ pc' = "stitching"
        /\ flat' = flat \o p.topology
        /\ prev_last_hash' = p.topology[Len(p.topology)].event_hash
    BY <1>7 DEF StitchPage
  <2>2. /\ SlicesOnly => \E o \in Objects : PrefixOf(o, flat \o p.topology)
        /\ p.topology \in Seq(EntryType)
    BY <1>1, <1>2, <1>7, AcceptedContinues, VerifiedIsTyped DEF IndInv
  <2> DEFINE t == p.topology
             m == Len(t)
  <2>3. t \in Seq(EntryType) /\ t # <<>> /\ m \in Nat /\ m \in 1..m
    BY <1>7, <2>2
  <2>4. flat \in Seq(EntryType)
    BY DEF IndInv, TypeOK, EntryType
  <2> HIDE DEF t
  <2>5. Len(flat \o t) = Len(flat) + m /\ (flat \o t)[Len(flat) + m] = t[m]
        /\ flat \o t # <<>> /\ flat \o t \in Seq(EntryType)
    BY <2>3, <2>4
  <2>6. t[m].event_hash \in Hashes
    <3>1. t[m] \in EntryType
      BY <2>3
    <3> QED
      BY <3>1 DEF EntryType
  <2>7. TypeOK'
    BY <1>1, <2>1, <2>5, <2>6 DEF IndInv, TypeOK, EntryType, Hashes, t
  <2>8. LastRemembered'
    BY <2>1, <2>5 DEF LastRemembered, t
  <2>9. SlicesOnly' => StitchedIsPrefix'
    <3>1. SlicesOnly => \E o \in Objects : PrefixOf(o, flat')
      BY <2>1, <2>2
    <3> QED
      BY <1>1, <3>1 DEF SlicesOnly, StitchedIsPrefix, PrefixOf, Entry, HashOf
  <2>10. SoundReadsSucceed'
    BY <2>1 DEF SoundReadsSucceed, Errors
  <2> QED
    BY <2>7, <2>8, <2>9, <2>10 DEF IndInv
<1> QED
  BY <1>4, <1>5, <1>6, <1>7

LEMMA VerifyFirstPageKeeps ==
  ASSUME IndInv, NEW p,
         p \in IF source = "sound" THEN SoundPages ELSE AllPages,
         VerifyFirstPage(p)
  PROVE  IndInv'
<1>1. pc = "start" /\ flat = <<>> /\ UNCHANGED <<length, source, public_key, prev_last_hash>>
  BY DEF VerifyFirstPage, IndInv, LastRemembered
<1>2. p \in AllPages
  BY SoundIsAny DEF IndInv
<1>3. Expected = Genesis
  BY <1>1 DEF IndInv, LastRemembered, Expected
<1>4. source = "sound" =>
        Problem(p) = "none" /\ (p.topology # <<>> => p.topology[1].previous_hash = Genesis)
  BY <1>1, <1>3, SoundPageAccepted
<1>5. CASE Problem(p) # "none"
  <2>1. pc' = Problem(p) /\ UNCHANGED flat /\ source # "sound"
    BY <1>4, <1>5 DEF VerifyFirstPage
  <2> QED
    BY <1>1, <1>5, <2>1, ProblemType, RefusalKeeps DEF Ended
<1>6. CASE /\ Problem(p) = "none" /\ p.topology # <<>>
           /\ p.topology[1].previous_hash # Genesis
  <2>1. pc' = "InvalidEvent" /\ UNCHANGED flat /\ source # "sound"
    BY <1>4, <1>6 DEF VerifyFirstPage
  <2> QED
    BY <1>1, <2>1, RefusalKeeps DEF Ended, Errors
<1>7. CASE /\ Problem(p) = "none"
           /\ p.topology # <<>> => p.topology[1].previous_hash = Genesis
  <2>1. pc' = "returned" /\ flat' = p.topology
    BY <1>7 DEF VerifyFirstPage
  <2>2. CASE p.topology = <<>>
    BY <1>1, <2>1, <2>2, RefusalKeeps DEF Ended, Errors
  <2>3. CASE p.topology # <<>>
    <3>1. /\ SlicesOnly => \E o \in Objects : PrefixOf(o, flat \o p.topology)
          /\ p.topology \in Seq(EntryType)
      BY <1>1, <1>2, <1>3, <1>7, <2>3, AcceptedContinues, VerifiedIsTyped DEF IndInv
    <3>2. flat \o p.topology = p.topology
      BY <1>1, <3>1
    <3>3. SlicesOnly' => StitchedIsPrefix'
      <4>1. SlicesOnly => \E o \in Objects : PrefixOf(o, flat')
        BY <2>1, <3>1, <3>2
      <4> QED
        BY <1>1, <4>1 DEF SlicesOnly, StitchedIsPrefix, PrefixOf, Entry, HashOf
    <3>4. TypeOK'
      BY <1>1, <2>1, <3>1 DEF IndInv, TypeOK, EntryType, Hashes, Ended
    <3>5. LastRemembered' /\ SoundReadsSucceed'
      BY <2>1 DEF LastRemembered, SoundReadsSucceed, Errors
    <3> QED
      BY <3>3, <3>4, <3>5 DEF IndInv
  <2> QED
    BY <2>2, <2>3
<1> QED
  BY <1>5, <1>6, <1>7

-----------------------------------------------------------------------------
(* Theorems *)

LEMMA NextKeeps ==
  ASSUME IndInv, [Next]_vars
  PROVE  IndInv'
<1>1. CASE \E o \in Objects : Grow(o)
  BY <1>1, GrowKeeps
<1>2. CASE \E p \in IF source = "sound" THEN SoundPages ELSE AllPages :
             /\ public_key \/ Problem(p) = "none"
             /\ VerifyFirstPage(p) \/ StitchPage(p)
  <2>1. PICK p : /\ p \in IF source = "sound" THEN SoundPages ELSE AllPages
                 /\ public_key \/ Problem(p) = "none"
                 /\ VerifyFirstPage(p) \/ StitchPage(p)
    BY <1>2
  <2> QED
    BY <2>1, StitchPageKeeps, VerifyFirstPageKeeps
<1>3. CASE StitchEnds
  <2>1. /\ UNCHANGED <<length, source, public_key, flat, prev_last_hash>>
        /\ pc' = "returned"
    BY <1>3 DEF StitchEnds
  <2> QED
    BY <2>1, RefusalKeeps DEF Ended, Errors
<1>4. CASE UNCHANGED vars
  <2>1. TypeOK' /\ LastRemembered' /\ SoundReadsSucceed'
    BY <1>4 DEF vars, IndInv, TypeOK, LastRemembered, SoundReadsSucceed, Hashes
  <2>2. SlicesOnly' => StitchedIsPrefix'
    BY <1>4 DEF vars, IndInv, SlicesOnly, StitchedIsPrefix, PrefixOf, Entry, HashOf
  <2> QED
    BY <2>1, <2>2 DEF IndInv
<1> QED
  BY <1>1, <1>2, <1>3, <1>4 DEF Next

LEMMA IndInvInvariant == Spec => []IndInv
<1>1. IndInv /\ [Next]_vars => IndInv'
  BY NextKeeps
<1> QED
  BY <1>1, InitIndInv, PTL DEF Spec

\* What a reader accepts is a prefix of one object's chain, whatever it is handed.
THEOREM AcceptedIsPrefix ==
  ASSUME "null_hash" \notin Defects
  PROVE  Spec => []StitchedIsPrefix
<1>1. IndInv => StitchedIsPrefix
  BY DEF IndInv, SlicesOnly
<1> QED
  BY <1>1, IndInvInvariant, PTL

\* The state of a read keeps its type.
THEOREM TypeCorrect == Spec => []TypeOK
<1>1. IndInv => TypeOK
  BY DEF IndInv
<1> QED
  BY <1>1, IndInvInvariant, PTL

\* What stitch_pages documents of the links between entries and pages.
THEOREM AcceptedIsLinked ==
  ASSUME "null_hash" \notin Defects
  PROVE  Spec => []StitchedIsLinked
<1>1. IndInv => StitchedIsLinked
  <2> SUFFICES ASSUME IndInv PROVE StitchedIsLinked
    OBVIOUS
  <2>1. PICK o \in Objects : PrefixOf(o, flat)
    BY DEF IndInv, SlicesOnly, StitchedIsPrefix
  <2>2. flat \in Seq(EntryType) /\ Len(flat) \in Nat
    BY DEF IndInv, TypeOK, EntryType
  <2>3. ASSUME NEW k \in 1..Len(flat)
        PROVE  /\ flat[k].previous_hash = HashOf(o, k - 1)
               /\ flat[k].event_hash = HashOf(o, k)
    <3>1. k \in Nat /\ k >= 1 /\ flat[k] = Entry(o, k)
      BY <2>1, <2>2 DEF PrefixOf
    <3> QED
      BY <3>1, EntryFacts
  <2>4. flat # <<>> => flat[1].previous_hash = Genesis
    <3> SUFFICES ASSUME flat # <<>> PROVE flat[1].previous_hash = Genesis
      OBVIOUS
    <3>1. 1 \in 1..Len(flat) /\ 1 - 1 = 0
      BY <2>2
    <3> QED
      BY <2>3, <3>1 DEF HashOf
  <2>5. ASSUME NEW k \in 2..Len(flat)
        PROVE  flat[k].previous_hash = flat[k - 1].event_hash
    <3>1. k \in 1..Len(flat) /\ k - 1 \in 1..Len(flat)
      BY <2>2
    <3> QED
      BY <2>3, <3>1
  <2> QED
    BY <2>4, <2>5 DEF StitchedIsLinked, Unbroken
<1> QED
  BY <1>1, IndInvInvariant, PTL

\* A sound authority's pages are never refused.
THEOREM SoundReadsAreAccepted == Spec => []SoundReadsSucceed
<1>1. IndInv => SoundReadsSucceed
  BY DEF IndInv
<1> QED
  BY <1>1, IndInvInvariant, PTL
=============================================================================
