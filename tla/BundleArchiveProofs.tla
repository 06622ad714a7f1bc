------------------------ MODULE BundleArchiveProofs ------------------------
(***************************************************************************)
(* Proofs, for bundles of any size and archives of any members, of what    *)
(* unpack_bundle and bundle_from_dict return.                              *)
(***************************************************************************)
EXTENDS BundleArchive, TLAPS, FiniteSetTheorems, WellFoundedInduction

Values == Documents \cup {Null}
AnyLines == Documents \cup {Null, Blank, Garbage}

-----------------------------------------------------------------------------
(* The lines that are kept *)

LEMMA LeastOf ==
  ASSUME NEW S, S \subseteq Nat, S # {}
  PROVE  \E x \in S : \A y \in S : x <= y
<1> DEFINE R == OpToRel(<, Nat)
<1>1. IsWellFoundedOn(R, Nat)
  BY NatLessThanWellFounded
<1>2. \A x, y \in Nat : <<y, x>> \in R <=> y < x
  BY DEF OpToRel
<1> HIDE DEF R
<1>3. PICK x \in S : \A y \in S : ~(<<y, x>> \in R)
  BY <1>1, WFMin
<1>4. \A y \in S : x \in Nat /\ y \in Nat /\ ~(y < x)
  BY <1>2, <1>3
<1> QED
  BY <1>4

\* A set of numbers from 1 to N has as many of them as there are.
LEMMA SubsetOfInterval ==
  ASSUME NEW N \in Nat, NEW K, K \subseteq 1..N
  PROVE  IsFiniteSet(K) /\ Cardinality(K) \in Nat
<1>1. IsFiniteSet(1..N)
  BY FS_Interval
<1> QED
  BY <1>1, FS_Subset, FS_CardinalityType

\* There is an n-th one of K: the least one with n elements of K up to it.
LEMMA NthElement ==
  ASSUME NEW N \in Nat, NEW K, K \subseteq 1..N, NEW n \in 1..Cardinality(K)
  PROVE  \E k \in K : Cardinality(K \cap 1..k) = n
<1> DEFINE c(k) == Cardinality(K \cap 1..k)
           S == {k \in 0..N : c(k) >= n}
<1>1. \A k \in Nat : IsFiniteSet(K \cap 1..k) /\ c(k) \in Nat
  BY SubsetOfInterval
<1>2. c(0) = 0
  <2>1. K \cap 1..0 = {}
    OBVIOUS
  <2> QED
    BY <2>1, FS_EmptySet
<1>3. c(N) = Cardinality(K)
  <2>1. K \cap 1..N = K
    OBVIOUS
  <2> QED
    BY <2>1
<1>4. \A k \in 1..N : c(k) = IF k \in K THEN c(k - 1) + 1 ELSE c(k - 1)
  <2> SUFFICES ASSUME NEW k \in 1..N
               PROVE  c(k) = IF k \in K THEN c(k - 1) + 1 ELSE c(k - 1)
    OBVIOUS
  <2>1. CASE k \in K
    <3>1. K \cap 1..k = (K \cap 1..(k - 1)) \cup {k} /\ k \notin K \cap 1..(k - 1)
      BY <2>1
    <3> QED
      BY <1>1, <2>1, <3>1, FS_AddElement
  <2>2. CASE k \notin K
    <3>1. K \cap 1..k = K \cap 1..(k - 1)
      BY <2>2
    <3> QED
      BY <2>2, <3>1
  <2> QED
    BY <2>1, <2>2
<1>5. n \in Nat /\ n >= 1 /\ n <= c(N)
  BY <1>3, SubsetOfInterval
<1>6. \A j \in Nat : c(j) \in Nat
  BY <1>1
<1>7. \A j : j \in S <=> j \in 0..N /\ c(j) >= n
  OBVIOUS
<1> HIDE DEF c, S
<1>8. S \subseteq Nat /\ N \in S
  BY <1>5, <1>7
<1>9. PICK k \in S : \A j \in S : k <= j
  BY <1>8, LeastOf
<1>10. k \in 1..N /\ k - 1 \in 0..N /\ k - 1 \notin S
  BY <1>2, <1>5, <1>7, <1>9
<1>11. c(k - 1) < n /\ c(k) >= n /\ c(k - 1) \in Nat /\ c(k) \in Nat
  BY <1>5, <1>6, <1>7, <1>10
<1>12. k \in K /\ c(k) = n
  BY <1>4, <1>5, <1>10, <1>11
<1> QED
  BY <1>12 DEF c

\* The number of the n-th line that is kept.
Nth(m, n) == CHOOSE k \in Kept(m) : Cardinality(Kept(m) \cap 1..k) = n

LEMMA LinesByNumber == 
  ASSUME NEW m
  PROVE  Lines(m) = [n \in 1..Cardinality(Kept(m)) |-> m.lines[Nth(m, n)]]
BY DEF Lines, Nth

LEMMA LinesType ==
  ASSUME NEW S, NEW m, m.lines \in Seq(S)
  PROVE  Lines(m) \in Seq(S \ {Blank})
<1>1. Kept(m) \subseteq 1..Len(m.lines) /\ Len(m.lines) \in Nat
  BY DEF Kept
<1>2. Cardinality(Kept(m)) \in Nat
  BY <1>1, SubsetOfInterval
<1>3. ASSUME NEW n \in 1..Cardinality(Kept(m)) PROVE m.lines[Nth(m, n)] \in S \ {Blank}
  <2>1. Nth(m, n) \in Kept(m)
    BY <1>1, NthElement DEF Nth
  <2> QED
    BY <2>1 DEF Kept
<1> QED
  BY <1>2, <1>3, LinesByNumber

\* Where no line is blank, all are kept.
LEMMA NoBlankLines ==
  ASSUME NEW S, NEW m, m.lines \in Seq(S), Blank \notin S
  PROVE  Lines(m) = m.lines
<1>1. Len(m.lines) \in Nat /\ Kept(m) = 1..Len(m.lines)
  BY DEF Kept
<1>2. \A k \in Nat : Cardinality(1..k) = k
  BY FS_Interval
<1>3. ASSUME NEW n \in 1..Len(m.lines)
      PROVE  Nth(m, n) = n
  <2>1. \A k \in Kept(m) : k \in Nat /\ Kept(m) \cap 1..k = 1..k
    BY <1>1
  <2>2. ASSUME NEW k \in Kept(m) PROVE Cardinality(Kept(m) \cap 1..k) = k
    BY <1>2, <2>1
  <2> QED
    BY <1>1, <2>2 DEF Nth
<1>4. Cardinality(Kept(m)) = Len(m.lines)
  BY <1>1, <1>2
<1>5. Lines(m) = [n \in 1..Len(m.lines) |-> m.lines[n]]
  BY <1>3, <1>4, LinesByNumber
<1> QED
  BY <1>1, <1>5

\* A blank line is not kept.
LEMMA BlankLine ==
  ASSUME NEW m, m.lines = <<Blank>>
  PROVE  Lines(m) = <<>>
<1>1. Kept(m) = {}
  BY DEF Kept
<1>2. Cardinality(Kept(m)) = 0
  BY <1>1, FS_EmptySet
<1> QED
  BY <1>2 DEF Lines

-----------------------------------------------------------------------------
(* Members and dicts *)

LEMMA OneLine ==
  ASSUME NEW m, NEW v \in Values, m.lines = <<v>>
  PROVE  Lines(m) = <<v>> /\ Len(Lines(m)) = 1 /\ Lines(m)[1] = v
<1>1. Blank \notin Values
  BY LineAssumption DEF Values
<1>2. <<v>> \in Seq(Values)
  OBVIOUS
<1>3. Lines(m) = <<v>>
  BY <1>1, <1>2, NoBlankLines
<1> QED
  BY <1>3

\* The lines that pack_bundle writes for a history are its events.
LEMMA HistoryLines ==
  ASSUME NEW m, NEW h \in Seq(Values), m.lines = JsonLines(h)
  PROVE  Lines(m) = h
<1>1. Blank \notin Values
  BY LineAssumption DEF Values
<1>2. CASE h = <<>>
  BY <1>2, BlankLine DEF JsonLines
<1>3. CASE h # <<>>
  BY <1>1, <1>3, NoBlankLines DEF JsonLines
<1> QED
  BY <1>2, <1>3

\* Every member that is read and can be parsed holds JSON values.
LEMMA ParsedValues ==
  ASSUME NEW m, m.lines \in Seq(AnyLines), WellFormed(m)
  PROVE  /\ Lines(m) \in Seq(Values)
         /\ m.folder # "history" => Lines(m)[1] \in Values
<1>1. Lines(m) \in Seq(AnyLines \ {Blank})
  BY LinesType
<1>2. \A k \in DOMAIN Lines(m) : Lines(m)[k] \in Values
  BY <1>1 DEF WellFormed, AnyLines, Values
<1>3. Lines(m) \in Seq(Values)
  BY <1>1, <1>2
<1>4. m.folder # "history" => 1 \in DOMAIN Lines(m)
  BY <1>1 DEF WellFormed
<1> QED
  BY <1>2, <1>3, <1>4

LEMMA BundleFacts ==
  ASSUME NEW b, NEW manifests, IsBundle(b, manifests)
  PROVE  /\ b.manifest \in manifests
         /\ \A f \in Dicts : DOMAIN b[f] \subseteq Ids
         /\ \A f \in Dicts \ {"history"} : \A i \in DOMAIN b[f] : b[f][i] \in Values
         /\ \A i \in DOMAIN b.history : b.history[i] \in Seq(Values)
  BY DEF IsBundle, IsDict, Dicts, Values

\* What is packed comes back from its members.
LEMMA PackedMember ==
  ASSUME NEW b \in Bundles, NEW m \in Members(b)
  PROVE  /\ IsRead(m) /\ WellFormed(m) /\ m.lines \in Seq(AnyLines)
         /\ m.folder \in {"manifest"} \cup Dicts
         /\ m.folder = "manifest" => Lines(m)[1] = b.manifest
         /\ \A f \in Dicts :
              m.folder = f => \E i \in DOMAIN b[f] : m.name = Quote[i] /\ Value(m) = b[f][i]
<1>0. /\ IsBundle(b, Documents) /\ Garbage \notin Values
      /\ Values \subseteq AnyLines /\ Blank \in AnyLines
  BY BundleAssumption, LineAssumption DEF Values, AnyLines
<1>1. CASE m = Member("manifest", Absent, <<b.manifest>>)
  <2>1. b.manifest \in Values
    BY <1>0, BundleFacts DEF Values
  <2>2. m.folder = "manifest" /\ m.file /\ m.lines = <<b.manifest>>
    BY <1>1 DEF Member
  <2>3. Lines(m) = <<b.manifest>> /\ Len(Lines(m)) = 1 /\ Lines(m)[1] = b.manifest
    BY <2>1, <2>2, OneLine
  <2> QED
    BY <1>0, <2>1, <2>2, <2>3 DEF IsRead, WellFormed, Dicts
<1>2. ASSUME NEW i \in DOMAIN b.history,
             m = Member("history", Quote[i], JsonLines(b.history[i]))
      PROVE  /\ IsRead(m) /\ WellFormed(m) /\ m.lines \in Seq(AnyLines) /\ m.folder = "history"
             /\ m.name = Quote[i] /\ Value(m) = b.history[i]
  <2>1. b.history[i] \in Seq(Values)
    BY <1>0, BundleFacts
  <2>2. /\ m.folder = "history" /\ m.file /\ m.name = Quote[i]
        /\ m.lines = JsonLines(b.history[i])
    BY <1>2 DEF Member
  <2>3. Lines(m) = b.history[i]
    BY <2>1, <2>2, HistoryLines
  <2>4. \A k \in DOMAIN b.history[i] : b.history[i][k] # Garbage
    BY <1>0, <2>1
  <2> QED
    BY <1>0, <2>1, <2>2, <2>3, <2>4 DEF IsRead, WellFormed, Value, JsonLines
<1>3. ASSUME NEW f \in Dicts \ {"history"}, NEW i \in DOMAIN b[f],
             m = Member(f, Quote[i], <<b[f][i]>>)
      PROVE  /\ IsRead(m) /\ WellFormed(m) /\ m.lines \in Seq(AnyLines) /\ m.folder = f
             /\ m.name = Quote[i] /\ Value(m) = b[f][i]
  <2>1. b[f][i] \in Values
    BY <1>0, BundleFacts
  <2>2. m.folder = f /\ m.file /\ m.name = Quote[i] /\ m.lines = <<b[f][i]>>
    BY <1>3 DEF Member
  <2>3. Lines(m) = <<b[f][i]>> /\ Len(Lines(m)) = 1 /\ Lines(m)[1] = b[f][i]
    BY <2>1, <2>2, OneLine
  <2> QED
    BY <1>0, <2>1, <2>2, <2>3 DEF IsRead, WellFormed, Value, Dicts
<1>4. \/ m = Member("manifest", Absent, <<b.manifest>>)
      \/ \E i \in DOMAIN b.history : m = Member("history", Quote[i], JsonLines(b.history[i]))
      \/ \E f \in Dicts \ {"history"} : \E i \in DOMAIN b[f] :
           m = Member(f, Quote[i], <<b[f][i]>>)
  BY DEF Members
<1>5. CASE \E i \in DOMAIN b.history :
             m = Member("history", Quote[i], JsonLines(b.history[i]))
  <2>1. PICK i \in DOMAIN b.history : m = Member("history", Quote[i], JsonLines(b.history[i]))
    BY <1>5
  <2> QED
    BY <1>2, <2>1 DEF Dicts
<1>6. CASE \E f \in Dicts \ {"history"} : \E i \in DOMAIN b[f] :
             m = Member(f, Quote[i], <<b[f][i]>>)
  <2>1. PICK f \in Dicts \ {"history"} : \E i \in DOMAIN b[f] :
          m = Member(f, Quote[i], <<b[f][i]>>)
    BY <1>6
  <2>2. PICK i \in DOMAIN b[f] : m = Member(f, Quote[i], <<b[f][i]>>)
    BY <2>1
  <2> QED
    BY <1>3, <2>2 DEF Dicts
<1> QED
  BY <1>1, <1>4, <1>5, <1>6

\* And it has a member for each of its items.
LEMMA MemberOfItem ==
  ASSUME NEW b \in Bundles
  PROVE  /\ \E m \in Members(b) : m.folder = "manifest"
         /\ \A f \in Dicts : \A i \in DOMAIN b[f] :
              \E m \in Members(b) : m.folder = f /\ m.name = Quote[i]
<1>1. \A folder, name, lines :
        Member(folder, name, lines).folder = folder /\ Member(folder, name, lines).name = name
  BY DEF Member
<1>2. Member("manifest", Absent, <<b.manifest>>) \in Members(b)
  BY DEF Members
<1>3. \A i \in DOMAIN b.history :
        Member("history", Quote[i], JsonLines(b.history[i])) \in Members(b)
  BY DEF Members
<1>4. \A f \in Dicts \ {"history"} : \A i \in DOMAIN b[f] :
        Member(f, Quote[i], <<b[f][i]>>) \in Members(b)
  BY DEF Members
<1>5. ASSUME NEW f \in Dicts, NEW i \in DOMAIN b[f]
      PROVE  \E m \in Members(b) : m.folder = f /\ m.name = Quote[i]
  <2>1. CASE f = "history"
    <3>1. i \in DOMAIN b.history
      BY <2>1
    <3>2. Member("history", Quote[i], JsonLines(b.history[i])) \in Members(b)
      BY <1>3, <3>1
    <3> QED
      BY <1>1, <2>1, <3>2
  <2>2. CASE f # "history"
    <3>1. Member(f, Quote[i], <<b[f][i]>>) \in Members(b)
      BY <1>4, <2>2
    <3> QED
      BY <1>1, <3>1
  <2> QED
    BY <2>1, <2>2
<1> QED
  BY <1>1, <1>2, <1>5

\* A member of whatever archive.
LEMMA MemberType ==
  ASSUME packed \in Bundles, NEW m \in Members(packed) \cup AlienMembers, IsRead(m)
  PROVE  /\ m.folder \in {"manifest"} \cup Dicts
         /\ m.folder \in Dicts => m.name \in Names /\ Unquote[m.name] \in Ids
         /\ WellFormed(m) =>
              /\ Lines(m) \in Seq(Values)
              /\ m.folder # "history" => Lines(m)[1] \in Values
<1>1. CASE m \in Members(packed)
  <2>1. /\ m.folder \in {"manifest"} \cup Dicts
        /\ \A f \in Dicts : m.folder = f =>
             \E i \in DOMAIN packed[f] : m.name = Quote[i] /\ Value(m) = packed[f][i]
    BY <1>1, PackedMember
  <2>2. IsBundle(packed, Documents)
    BY BundleAssumption
  <2>3. m.folder \in Dicts => m.name \in Names
    BY <2>1, <2>2, BundleFacts, NameAssumption
  <2>4. m.lines \in Seq(AnyLines)
    BY <1>1, PackedMember
  <2> QED
    BY <2>1, <2>3, <2>4, ParsedValues, NameAssumption
<1>2. CASE m \in AlienMembers
  <2>1. /\ m.folder \in {"manifest"} \cup Dicts /\ m.lines \in Contents
        /\ m.folder \in Dicts => m.name \in Names
    BY <1>2 DEF AlienMembers, Member, IsRead, Dicts
  <2>2. m.lines \in Seq(AnyLines)
    BY <2>1, LineAssumption DEF AnyLines
  <2> QED
    BY <2>1, <2>2, ParsedValues, NameAssumption
<1> QED
  BY <1>1, <1>2

LEMMA AssignDict ==
  ASSUME NEW V, NEW f, IsDict(f, V), NEW item \in Ids, NEW v \in V
  PROVE  /\ IsDict(Assign(f, item, v), V)
         /\ DOMAIN Assign(f, item, v) = DOMAIN f \cup {item}
         /\ Assign(f, item, v)[item] = v
         /\ \A i \in DOMAIN f \ {item} : Assign(f, item, v)[i] = f[i]
  BY DEF IsDict, Assign

-----------------------------------------------------------------------------
(* The inductive invariant *)

LEMMA NothingFacts == Nothing \notin Bundles /\ IsBundle(Nothing, Values)
<1>1. Nothing.manifest = Null /\ Null \notin Documents
  BY LineAssumption DEF Nothing
<1>2. \A b \in Bundles : b.manifest \in Documents
  BY BundleAssumption DEF IsBundle
<1>3. \A V : IsDict(<<>>, V)
  BY DEF IsDict
<1> QED
  BY <1>1, <1>2, <1>3 DEF Nothing, IsBundle, Values

LEMMA NoFiles ==
  ASSUME archive = <<>>
  PROVE  /\ Files = {} /\ Aliens = {} /\ Cardinality(Aliens) = 0
         /\ \A f, i : Given(f, i) = {}
<1>1. DOMAIN archive = {}
  OBVIOUS
<1>2. Files = {} /\ Aliens = {} /\ \A f, i : Given(f, i) = {}
  BY <1>1 DEF Files, Aliens, Given
<1> QED
  BY <1>2, FS_EmptySet

LEMMA InitIndInv == Init => IndInv
<1> SUFFICES ASSUME Init PROVE IndInv
  OBVIOUS
<1> USE DEF Init
<1>1. TypeOK
  <2>1. Len(archive) = 0 /\ Cardinality(Aliens) = 0
    BY NoFiles
  <2> QED
    BY <2>1, NothingFacts, BoundsAssumption DEF TypeOK, Values
<1>2. Progress
  BY DEF Progress
<1>3. FilesParse
  BY NoFiles DEF FilesParse
<1>4. ManifestIsRead /\ LastMemberIsStored
  BY DEF ManifestIsRead, LastMemberIsStored
<1> QED
  BY <1>1, <1>2, <1>3, <1>4 DEF IndInv

LEMMA PackBundleKeeps ==
  ASSUME IndInv, NEW b \in Bundles, PackBundle(b)
  PROVE  IndInv'
<1> USE DEF PackBundle
<1>1. archive = <<>> /\ unpacked = Nothing /\ archive' = archive /\ unpacked' = unpacked
  BY DEF IndInv, Progress
<1>2. TypeOK'
  <2>1. Aliens' = {} /\ Cardinality(Aliens') = 0
    BY <1>1, FS_EmptySet DEF Aliens
  <2> QED
    BY <1>1, <2>1, BoundsAssumption DEF IndInv, TypeOK
<1>3. Progress'
  BY <1>1, NothingFacts DEF Progress
<1>4. FilesParse'
  BY <1>1 DEF FilesParse, Files
<1>5. ManifestIsRead' /\ LastMemberIsStored'
  BY DEF ManifestIsRead, LastMemberIsStored
<1> QED
  BY <1>2, <1>3, <1>4, <1>5 DEF IndInv

LEMMA OpenKeeps ==
  ASSUME IndInv, Open
  PROVE  IndInv'
<1> USE DEF Open
<1>1. /\ archive = <<>> /\ unpacked = Nothing
      /\ packed' = packed /\ archive' = archive /\ unpacked' = unpacked
  BY DEF IndInv, Progress
<1>2. TypeOK'
  <2>1. Aliens' = Aliens
    BY <1>1 DEF Aliens
  <2> QED
    BY <1>1, <2>1 DEF IndInv, TypeOK, Errors
<1>3. Progress'
  BY <1>1 DEF IndInv, Progress, AlienMembers, Members
<1>4. FilesParse'
  BY <1>1 DEF FilesParse, Files
<1>5. ManifestIsRead'
  BY <1>1, NoFiles DEF ManifestIsRead, Files, Nothing
<1>6. LastMemberIsStored'
  BY <1>1, NoFiles DEF LastMemberIsStored, Given, Nothing, Dicts
<1> QED
  BY <1>2, <1>3, <1>4, <1>5, <1>6 DEF IndInv

LEMMA EndOfArchiveKeeps ==
  ASSUME IndInv, EndOfArchive
  PROVE  IndInv'
<1> USE DEF EndOfArchive
<1>1. packed' = packed /\ archive' = archive /\ unpacked' = unpacked
  OBVIOUS
<1>2. TypeOK'
  <2>1. Aliens' = Aliens
    BY <1>1 DEF Aliens
  <2> QED
    BY <1>1, <2>1 DEF IndInv, TypeOK, Errors
<1>3. Progress'
  BY <1>1 DEF IndInv, Progress, AlienMembers, Members
<1>4. FilesParse'
  BY <1>1 DEF IndInv, FilesParse, Files
<1>5. ManifestIsRead'
  BY <1>1 DEF IndInv, ManifestIsRead, Files
<1>6. LastMemberIsStored'
  BY <1>1 DEF IndInv, LastMemberIsStored, Given, Value
<1> QED
  BY <1>2, <1>3, <1>4, <1>5, <1>6 DEF IndInv

LEMMA BundleFromDictKeeps ==
  ASSUME IndInv, pc = "packed", NEW d \in AsDicts(packed), BundleFromDict(d)
  PROVE  IndInv'
<1> USE DEF BundleFromDict
<1>1. /\ archive = <<>> /\ packed \in Bundles /\ unpacked = Nothing
      /\ packed' = packed /\ archive' = archive
  BY DEF IndInv, Progress, TypeOK
<1>2. d.manifest # Absent => unpacked' = packed
  <2>1. \A f \in Dicts : Part(d[f]) = packed[f]
    BY DEF AsDicts, Part, Dicts
  <2>2. d.manifest \in {packed.manifest, Absent}
    BY DEF AsDicts
  <2>3. IsBundle(packed, Documents)
    BY <1>1, BundleAssumption
  <2> QED
    BY <2>1, <2>2, <2>3 DEF IsBundle, Dicts
<1>3. TypeOK'
  <2>1. Aliens' = Aliens
    BY <1>1 DEF Aliens
  <2>2. IsBundle(packed, Documents \cup {Null})
    BY <1>1, BundleAssumption DEF IsBundle
  <2> QED
    BY <1>1, <1>2, <2>1, <2>2 DEF IndInv, TypeOK, Errors
<1>4. Progress'
  BY <1>1, <1>2 DEF IndInv, Progress, AlienMembers, Members
<1>5. FilesParse'
  BY <1>1 DEF FilesParse, Files
<1>6. ManifestIsRead' /\ LastMemberIsStored'
  BY DEF ManifestIsRead, LastMemberIsStored
<1> QED
  BY <1>3, <1>4, <1>5, <1>6 DEF IndInv

-----------------------------------------------------------------------------
(* One more member *)

\* The archive after one more member, the files, and those of each name.
LEMMA OneMoreMember ==
  ASSUME NEW X, archive \in Seq(X), NEW m, archive' = Append(archive, m)
  PROVE  /\ Len(archive) \in Nat /\ DOMAIN archive = 1..Len(archive)
         /\ DOMAIN archive' = DOMAIN archive \cup {Len(archive) + 1}
         /\ archive'[Len(archive) + 1] = m /\ \A k \in DOMAIN archive : archive'[k] = archive[k]
         /\ Files' = IF IsRead(m) THEN Files \cup {m} ELSE Files
         /\ \A f, i :
              Given(f, i)' = IF IsRead(m) /\ m.folder = f /\ Unquote[m.name] = i
                             THEN Given(f, i) \cup {Len(archive) + 1} ELSE Given(f, i)
<1> DEFINE n == Len(archive) + 1
<1>1. /\ Len(archive) \in Nat /\ DOMAIN archive = 1..Len(archive)
      /\ DOMAIN archive' = DOMAIN archive \cup {n}
      /\ archive'[n] = m /\ n \notin DOMAIN archive
      /\ \A k \in DOMAIN archive : archive'[k] = archive[k]
  <2>1. archive \in Seq(X \cup {m}) /\ m \in X \cup {m}
    OBVIOUS
  <2> QED
    BY <2>1
<1> HIDE DEF n
<1>2. Files' = IF IsRead(m) THEN Files \cup {m} ELSE Files
  BY <1>1 DEF Files, IsRead
<1>3. ASSUME NEW f, NEW i
      PROVE  Given(f, i)' = IF IsRead(m) /\ m.folder = f /\ Unquote[m.name] = i
                            THEN Given(f, i) \cup {n} ELSE Given(f, i)
  BY <1>1 DEF Given, IsRead
<1> QED
  BY <1>1, <1>2, <1>3 DEF n

LEMMA StoredFacts ==
  ASSUME packed \in Bundles, IsBundle(unpacked, Values),
         NEW m \in Members(packed) \cup AlienMembers, IsRead(m), WellFormed(m)
  PROVE  /\ IsBundle(Stored(m), Values)
         /\ m.folder = "manifest" =>
              /\ Stored(m).manifest = Lines(m)[1]
              /\ \A f \in Dicts : Stored(m)[f] = unpacked[f]
         /\ \A f \in Dicts : m.folder = f =>
              /\ Stored(m).manifest = unpacked.manifest
              /\ Stored(m)[f] = Assign(unpacked[f], Unquote[m.name], Value(m))
              /\ \A g \in Dicts \ {f} : Stored(m)[g] = unpacked[g]
<1>1. /\ m.folder \in {"manifest"} \cup Dicts
      /\ m.folder \in Dicts => Unquote[m.name] \in Ids
      /\ Lines(m) \in Seq(Values) /\ (m.folder # "history" => Lines(m)[1] \in Values)
  BY MemberType
<1>2. unpacked = [manifest |-> unpacked.manifest, objects |-> unpacked.objects,
                  history |-> unpacked.history, keys |-> unpacked.keys]
  BY DEF IsBundle
<1>3. CASE m.folder = "manifest"
  <2>1. Stored(m) = [unpacked EXCEPT !.manifest = Lines(m)[1]]
    BY <1>3 DEF Stored, Value
  <2>2. Stored(m) = [manifest |-> Lines(m)[1], objects |-> unpacked.objects,
                     history |-> unpacked.history, keys |-> unpacked.keys]
    BY <1>2, <2>1
  <2> QED
    BY <1>1, <1>3, <2>2 DEF IsBundle, Dicts
<1>4. ASSUME NEW f \in Dicts, m.folder = f
      PROVE  /\ Stored(m).manifest = unpacked.manifest
             /\ Stored(m)[f] = Assign(unpacked[f], Unquote[m.name], Value(m))
             /\ \A g \in Dicts \ {f} : Stored(m)[g] = unpacked[g]
             /\ IsBundle(Stored(m), Values)
  <2> DEFINE new == Assign(unpacked[f], Unquote[m.name], Value(m))
             V == IF f = "history" THEN Seq(Values) ELSE Values
  <2>1. Stored(m) = [unpacked EXCEPT ![f] = new]
    BY <1>4 DEF Stored, Dicts
  <2>2. IsDict(unpacked[f], V)
    BY DEF IsBundle, Dicts, Values
  <2>3. Value(m) \in V
    BY <1>1, <1>4 DEF Value
  <2>4. IsDict(new, V)
    BY <1>1, <1>4, <2>2, <2>3, AssignDict
  <2> HIDE DEF new
  <2>5. CASE f = "objects"
    <3>1. Stored(m) = [manifest |-> unpacked.manifest, objects |-> new,
                       history |-> unpacked.history, keys |-> unpacked.keys]
      BY <1>2, <2>1, <2>5
    <3> QED
      BY <2>4, <2>5, <3>1 DEF IsBundle, Dicts, Values, new
  <2>6. CASE f = "history"
    <3>1. Stored(m) = [manifest |-> unpacked.manifest, objects |-> unpacked.objects,
                       history |-> new, keys |-> unpacked.keys]
      BY <1>2, <2>1, <2>6
    <3> QED
      BY <2>4, <2>6, <3>1 DEF IsBundle, Dicts, Values, new
  <2>7. CASE f = "keys"
    <3>1. Stored(m) = [manifest |-> unpacked.manifest, objects |-> unpacked.objects,
                       history |-> unpacked.history, keys |-> new]
      BY <1>2, <2>1, <2>7
    <3> QED
      BY <2>4, <2>7, <3>1 DEF IsBundle, Dicts, Values, new
  <2> QED
    BY <2>5, <2>6, <2>7 DEF Dicts
<1>5. IsBundle(Stored(m), Values)
  BY <1>1, <1>3, <1>4 DEF Dicts
<1> QED
  BY <1>3, <1>4, <1>5 DEF Dicts

\* The aliens after one more member.
LEMMA OneMoreAlien ==
  ASSUME archive \in Seq(Members(packed) \cup AlienMembers), packed' = packed,
         Cardinality(Aliens) \in Nat, Cardinality(Aliens) <= MaxAlien,
         NEW m, archive' = Append(archive, m),
         m \in Members(packed) \/ Cardinality(Aliens) < MaxAlien
  PROVE  Cardinality(Aliens') <= MaxAlien
<1> DEFINE n == Len(archive) + 1
<1>1. /\ Len(archive) \in Nat /\ DOMAIN archive = 1..Len(archive)
      /\ DOMAIN archive' = DOMAIN archive \cup {n} /\ archive'[n] = m
      /\ \A k \in DOMAIN archive : archive'[k] = archive[k]
  BY OneMoreMember
<1>2. IsFiniteSet(Aliens) /\ n \notin Aliens
  <2>1. Aliens \subseteq 1..Len(archive)
    BY <1>1 DEF Aliens
  <2> QED
    BY <1>1, <2>1, SubsetOfInterval
<1> HIDE DEF n
<1>3. Members(packed)' = Members(packed)
  BY DEF Members
<1>4. CASE m \in Members(packed)
  <2>1. Aliens' = Aliens
    BY <1>1, <1>3, <1>4 DEF Aliens
  <2> QED
    BY <2>1
<1>5. CASE m \notin Members(packed)
  <2>1. Aliens' = Aliens \cup {n}
    BY <1>1, <1>3, <1>5 DEF Aliens
  <2>2. Cardinality(Aliens') = Cardinality(Aliens) + 1
    BY <1>2, <2>1, FS_AddElement
  <2> QED
    BY <1>5, <2>2, BoundsAssumption
<1> QED
  BY <1>4, <1>5

LEMMA ReadMemberKeeps ==
  ASSUME IndInv, NEW m \in Members(packed) \cup AlienMembers, ReadMember(m),
         m \in Members(packed) \/ Cardinality(Aliens) < MaxAlien
  PROVE  IndInv'
<1>1. /\ packed \in Bundles /\ packed' = packed /\ pc = "reading" /\ pc' \in {pc, "ValueError"}
      /\ archive' = Append(archive, m) /\ Len(archive) < MaxMembers
      /\ archive \in Seq(Members(packed) \cup AlienMembers)
      /\ IsBundle(unpacked, Values)
  BY DEF IndInv, TypeOK, Progress, ReadMember, Values
<1>2. /\ Len(archive) \in Nat /\ DOMAIN archive = 1..Len(archive)
      /\ DOMAIN archive' = DOMAIN archive \cup {Len(archive) + 1}
      /\ archive'[Len(archive) + 1] = m /\ \A k \in DOMAIN archive : archive'[k] = archive[k]
      /\ Files' = IF IsRead(m) THEN Files \cup {m} ELSE Files
      /\ \A f, i :
           Given(f, i)' = IF IsRead(m) /\ m.folder = f /\ Unquote[m.name] = i
                          THEN Given(f, i) \cup {Len(archive) + 1} ELSE Given(f, i)
  BY <1>1, OneMoreMember
<1>3. IsRead(m) /\ WellFormed(m) =>
        /\ IsBundle(Stored(m), Values)
        /\ m.folder = "manifest" =>
             /\ Stored(m).manifest = Lines(m)[1]
             /\ \A f \in Dicts : Stored(m)[f] = unpacked[f]
        /\ \A f \in Dicts : m.folder = f =>
             /\ Stored(m).manifest = unpacked.manifest
             /\ Stored(m)[f] = Assign(unpacked[f], Unquote[m.name], Value(m))
             /\ \A g \in Dicts \ {f} : Stored(m)[g] = unpacked[g]
  BY <1>1, StoredFacts
<1>4. IsRead(m) => m.folder \in {"manifest"} \cup Dicts
                   /\ (m.folder \in Dicts => Unquote[m.name] \in Ids)
  BY <1>1, MemberType
<1>5. \/ ~IsRead(m) /\ unpacked' = unpacked /\ pc' = pc
      \/ IsRead(m) /\ WellFormed(m) /\ unpacked' = Stored(m) /\ pc' = pc
      \/ IsRead(m) /\ ~WellFormed(m) /\ unpacked' = unpacked /\ pc' = "ValueError"
  BY DEF ReadMember
<1>6. TypeOK'
  <2>1. Cardinality(Aliens) \in Nat /\ Cardinality(Aliens) <= MaxAlien
    <3>1. Aliens \subseteq 1..Len(archive)
      BY <1>2 DEF Aliens
    <3> QED
      BY <1>2, <3>1, SubsetOfInterval DEF IndInv, TypeOK
  <2>2. Cardinality(Aliens') <= MaxAlien
    BY <1>1, <2>1, OneMoreAlien
  <2>3. Len(archive') <= MaxMembers
    BY <1>1, <1>2, BoundsAssumption
  <2>4. IsBundle(unpacked', Values)
    BY <1>1, <1>3, <1>5
  <2> QED
    BY <1>1, <2>2, <2>3, <2>4 DEF IndInv, TypeOK, Errors, Values
<1>7. Progress'
  <2>1. archive' \in Seq(Members(packed) \cup AlienMembers)
    BY <1>1
  <2>2. Members(packed)' = Members(packed) /\ AlienMembers' = AlienMembers
    BY <1>1 DEF Members, AlienMembers
  <2> QED
    BY <1>1, <2>1, <2>2 DEF IndInv, Progress
<1>8. FilesParse'
  <2>1. pc' = "ValueError" <=> IsRead(m) /\ ~WellFormed(m)
    BY <1>1, <1>5
  <2>2. \A a \in Files : WellFormed(a)
    BY <1>1 DEF IndInv, FilesParse
  <2>3. pc' = "ValueError" <=> \E a \in Files' : ~WellFormed(a)
    BY <1>2, <2>1, <2>2
  <2> QED
    BY <2>3 DEF FilesParse
<1>9. ManifestIsRead'
  <2> SUFFICES ASSUME pc' = "reading" PROVE ManifestIsRead'
    BY <1>1 DEF ManifestIsRead
  <2>1. \/ \E a \in Files : a.folder = "manifest" /\ unpacked.manifest = Lines(a)[1]
        \/ unpacked.manifest = Null /\ \A a \in Files : a.folder # "manifest"
    BY <1>1 DEF IndInv, ManifestIsRead
  <2>2. \/ \E a \in Files' : a.folder = "manifest" /\ unpacked'.manifest = Lines(a)[1]
        \/ unpacked'.manifest = Null /\ \A a \in Files' : a.folder # "manifest"
    <3>1. CASE ~IsRead(m)
      BY <1>2, <1>5, <2>1, <3>1
    <3>2. CASE IsRead(m) /\ m.folder = "manifest"
      BY <1>2, <1>3, <1>5, <3>2
    <3>3. CASE IsRead(m) /\ m.folder # "manifest"
      BY <1>2, <1>3, <1>4, <1>5, <2>1, <3>3
    <3> QED
      BY <3>1, <3>2, <3>3
  <2> QED
    BY <2>2 DEF ManifestIsRead, Lines, Kept
<1>10. LastMemberIsStored'
  <2> SUFFICES ASSUME pc' = "reading", NEW f \in Dicts
               PROVE  /\ \A i \in Ids : Given(f, i)' # {} => i \in DOMAIN unpacked'[f]
                      /\ \A i \in DOMAIN unpacked'[f] :
                           \E k \in Given(f, i)' :
                             /\ \A j \in Given(f, i)' : j <= k
                             /\ unpacked'[f][i] = Value(archive'[k])
    BY <1>1 DEF LastMemberIsStored, Value, Lines, Kept
  <2>1. /\ \A i \in Ids : Given(f, i) # {} => i \in DOMAIN unpacked[f]
        /\ \A i \in DOMAIN unpacked[f] :
             \E k \in Given(f, i) :
               (\A j \in Given(f, i) : j <= k) /\ unpacked[f][i] = Value(archive[k])
    BY <1>1 DEF IndInv, LastMemberIsStored
  <2>2. \A i : Given(f, i) \subseteq DOMAIN archive
    BY DEF Given
  <2>3. CASE ~(IsRead(m) /\ m.folder = f)
    <3>1. unpacked'[f] = unpacked[f]
      BY <1>3, <1>4, <1>5, <2>3
    <3>2. \A i : Given(f, i)' = Given(f, i)
      BY <1>2, <2>3
    <3> QED
      BY <1>2, <2>1, <2>2, <3>1, <3>2
  <2>4. CASE IsRead(m) /\ m.folder = f
    <3> DEFINE item == Unquote[m.name]
               n == Len(archive) + 1
    <3>1. item \in Ids /\ unpacked'[f] = Assign(unpacked[f], item, Value(m))
      BY <1>1, <1>3, <1>4, <1>5, <2>4
    <3>2. Given(f, item)' = Given(f, item) \cup {n} /\ \A i : i # item => Given(f, i)' = Given(f, i)
      BY <1>2, <2>4
    <3>3. \A j \in Given(f, item) \cup {n} : j <= n
      BY <1>2, <2>2
    <3>4. archive'[n] = m /\ \A k \in DOMAIN archive : archive'[k] = archive[k]
      BY <1>2
    <3> HIDE DEF item, n
    <3>5. /\ DOMAIN unpacked'[f] = DOMAIN unpacked[f] \cup {item}
          /\ unpacked'[f][item] = Value(m)
          /\ \A i \in DOMAIN unpacked[f] : i # item => unpacked'[f][i] = unpacked[f][i]
      BY <3>1 DEF Assign
    <3>6. \A i \in Ids : Given(f, i)' # {} => i \in DOMAIN unpacked'[f]
      BY <2>1, <3>2, <3>5
    <3>7. ASSUME NEW i \in DOMAIN unpacked'[f]
          PROVE  \E k \in Given(f, i)' :
                   /\ \A j \in Given(f, i)' : j <= k
                   /\ unpacked'[f][i] = Value(archive'[k])
      <4>1. CASE i = item
        BY <3>2, <3>3, <3>4, <3>5, <4>1
      <4>2. CASE i # item
        BY <2>1, <2>2, <3>2, <3>4, <3>5, <4>2
      <4> QED
        BY <4>1, <4>2
    <3> QED
      BY <3>6, <3>7
  <2> QED
    BY <2>3, <2>4
<1> QED
  BY <1>6, <1>7, <1>8, <1>9, <1>10 DEF IndInv

LEMMA NextKeeps == IndInv /\ [Next]_vars => IndInv'
<1> SUFFICES ASSUME IndInv, [Next]_vars PROVE IndInv'
  OBVIOUS
<1>1. ASSUME NEW b \in Bundles, PackBundle(b) PROVE IndInv'
  BY <1>1, PackBundleKeeps
<1>2. CASE Open
  BY <1>2, OpenKeeps
<1>3. ASSUME NEW m \in Members(packed), ReadMember(m) PROVE IndInv'
  BY <1>3, ReadMemberKeeps
<1>4. ASSUME Cardinality(Aliens) < MaxAlien, NEW m \in AlienMembers, ReadMember(m) PROVE IndInv'
  BY <1>4, ReadMemberKeeps
<1>5. CASE EndOfArchive
  BY <1>5, EndOfArchiveKeeps
<1>6. ASSUME pc = "packed", NEW d \in AsDicts(packed), BundleFromDict(d) PROVE IndInv'
  BY <1>6, BundleFromDictKeeps
<1>7. CASE UNCHANGED vars
  <2>1. packed' = packed /\ archive' = archive /\ unpacked' = unpacked /\ pc' = pc
    BY <1>7 DEF vars
  <2>2. Aliens' = Aliens
    BY <2>1 DEF Aliens
  <2>3. TypeOK' /\ Progress'
    BY <2>1, <2>2 DEF IndInv, TypeOK, Progress
  <2>4. FilesParse' /\ ManifestIsRead'
    BY <2>1 DEF IndInv, FilesParse, ManifestIsRead, Files
  <2>5. LastMemberIsStored'
    BY <2>1 DEF IndInv, LastMemberIsStored, Given, Value
  <2> QED
    BY <2>3, <2>4, <2>5 DEF IndInv
<1> QED
  BY <1>1, <1>2, <1>3, <1>4, <1>5, <1>6, <1>7 DEF Next

\* The inductive invariant of BundleArchive: how far the call has come, that what
\* was read could be parsed, and that manifest and dicts are those of the last
\* files read.
THEOREM IndInvInvariant == Spec => []IndInv
<1> QED
  BY InitIndInv, NextKeeps, PTL DEF Spec

\* Whatever an archive holds, what is unpacked of it is a bundle, and the call ends
\* in one of the errors of unpack_bundle or in none.
THEOREM TypeCorrect == Spec => []TypeOK
<1>1. IndInv => TypeOK
  BY DEF IndInv
<1> QED
  BY <1>1, IndInvInvariant, PTL

-----------------------------------------------------------------------------
(* What is returned *)

LEMMA LastOfName ==
  ASSUME archive \in Seq(Members(packed) \cup AlienMembers), NEW f, NEW i,
         NEW k \in Given(f, i), \A j \in Given(f, i) : j <= k
  PROVE  LastFile(f, i) = archive[k]
<1>1. Given(f, i) \subseteq Nat
  BY DEF Given
<1>2. \A j \in Given(f, i) : (\A l \in Given(f, i) : l <= j) => j = k
  BY <1>1
<1> QED
  BY <1>2 DEF LastFile

LEMMA LastMembers == IndInv => LastMemberCounts
<1> SUFFICES ASSUME IndInv, pc = "returned", NEW f \in Dicts
             PROVE  /\ DOMAIN unpacked[f] = {Unquote[m.name] : m \in {n \in Files : n.folder = f}}
                    /\ \A i \in DOMAIN unpacked[f] :
                         unpacked[f][i] = IF f = "history" THEN Lines(LastFile(f, i))
                                          ELSE Lines(LastFile(f, i))[1]
  BY DEF LastMemberCounts
<1>1. /\ \A i \in Ids : Given(f, i) # {} => i \in DOMAIN unpacked[f]
      /\ \A i \in DOMAIN unpacked[f] :
           \E k \in Given(f, i) :
             (\A j \in Given(f, i) : j <= k) /\ unpacked[f][i] = Value(archive[k])
  BY DEF IndInv, LastMemberIsStored
<1>2. archive \in Seq(Members(packed) \cup AlienMembers) /\ packed \in Bundles
  BY DEF IndInv, Progress, TypeOK
<1>3. \A m \in Files : m.folder = f => Unquote[m.name] \in DOMAIN unpacked[f]
  <2> SUFFICES ASSUME NEW m \in Files, m.folder = f PROVE Unquote[m.name] \in DOMAIN unpacked[f]
    OBVIOUS
  <2>1. PICK k \in DOMAIN archive : IsRead(archive[k]) /\ m = archive[k]
    BY DEF Files
  <2>2. k \in Given(f, Unquote[m.name])
    BY <2>1 DEF Given
  <2>3. m \in Members(packed) \cup AlienMembers
    BY <1>2, <2>1
  <2>4. Unquote[m.name] \in Ids
    BY <1>2, <2>1, <2>3, MemberType
  <2> QED
    BY <1>1, <2>2, <2>4
<1>4. \A i \in DOMAIN unpacked[f] : \E m \in Files : m.folder = f /\ Unquote[m.name] = i
  BY <1>1 DEF Given, Files
<1>5. ASSUME NEW i \in DOMAIN unpacked[f]
      PROVE  unpacked[f][i] = Value(LastFile(f, i)) /\ LastFile(f, i).folder = f
  <2>1. PICK k \in Given(f, i) :
          (\A j \in Given(f, i) : j <= k) /\ unpacked[f][i] = Value(archive[k])
    BY <1>1
  <2>2. LastFile(f, i) = archive[k]
    BY <1>2, <2>1, LastOfName
  <2> QED
    BY <2>1, <2>2 DEF Given
<1>6. DOMAIN unpacked[f] = {Unquote[m.name] : m \in {n \in Files : n.folder = f}}
  BY <1>3, <1>4
<1> QED
  BY <1>5, <1>6 DEF Value

\* Of an archive with no files but those of the bundle: the manifest is the
\* bundle's, and each item too.
LEMMA OnlyPackedFiles ==
  ASSUME IndInv, packed \in Bundles, Files \subseteq Members(packed)
  PROVE  /\ pc # "ValueError"
         /\ pc \in {"reading", "returned", "PhipError"} =>
              /\ (\E m \in Files : m.folder = "manifest") => unpacked.manifest = packed.manifest
              /\ unpacked.manifest # Null => unpacked.manifest = packed.manifest
         /\ pc = "returned" => \A f \in Dicts : PartOf(unpacked[f], packed[f])
<1>1. \A m \in Files : /\ IsRead(m) /\ WellFormed(m)
                       /\ m.folder = "manifest" => Lines(m)[1] = packed.manifest
                       /\ \A f \in Dicts : m.folder = f =>
                            \E i \in DOMAIN packed[f] :
                              m.name = Quote[i] /\ Value(m) = packed[f][i]
  BY PackedMember
<1>2. pc # "ValueError"
  BY <1>1 DEF IndInv, FilesParse
<1>3. pc \in {"reading", "returned", "PhipError"} =>
        /\ (\E m \in Files : m.folder = "manifest") => unpacked.manifest = packed.manifest
        /\ unpacked.manifest # Null => unpacked.manifest = packed.manifest
  BY <1>1 DEF IndInv, ManifestIsRead
<1>4. ASSUME pc = "returned", NEW f \in Dicts
      PROVE  PartOf(unpacked[f], packed[f])
  <2>1. ASSUME NEW i \in DOMAIN unpacked[f]
        PROVE  i \in DOMAIN packed[f] /\ unpacked[f][i] = packed[f][i]
    <3>1. PICK k \in Given(f, i) : unpacked[f][i] = Value(archive[k])
      BY <1>4 DEF IndInv, LastMemberIsStored
    <3>2. archive[k] \in Files /\ archive[k].folder = f /\ Unquote[archive[k].name] = i
      BY DEF Given, Files
    <3>3. PICK j \in DOMAIN packed[f] :
            archive[k].name = Quote[j] /\ Value(archive[k]) = packed[f][j]
      BY <1>1, <3>2
    <3>4. j \in Ids
      BY BundleAssumption, BundleFacts
    <3> QED
      BY <3>1, <3>2, <3>3, <3>4, NameAssumption
  <2> QED
    BY <2>1 DEF PartOf
<1> QED
  BY <1>2, <1>3, <1>4
LEMMA PackedIsBundle ==
  ASSUME IndInv, pc # "start"
  PROVE  packed \in Bundles
BY DEF IndInv, TypeOK, Progress

LEMMA Losses == IndInv => LossOnlyRemoves
<1> SUFFICES ASSUME IndInv, Files \subseteq Members(packed), pc = "returned"
             PROVE  /\ unpacked.manifest = packed.manifest
                    /\ \A f \in Dicts : PartOf(unpacked[f], packed[f])
  BY DEF LossOnlyRemoves
<1>1. packed \in Bundles /\ unpacked.manifest # Null
  BY PackedIsBundle DEF IndInv, ManifestIsRead
<1> QED
  BY <1>1, OnlyPackedFiles

LEMMA WholeArchives == IndInv => RoundTrip
<1> SUFFICES ASSUME IndInv PROVE RoundTrip
  OBVIOUS
<1>1. pc = "converted" => unpacked = packed
  BY DEF IndInv, Progress
<1>2. ASSUME Files = Members(packed), pc # "start"
      PROVE  /\ pc # "ReadError" => pc \notin Errors
             /\ pc = "returned" => unpacked = packed
  <2>1. packed \in Bundles
    BY <1>2, PackedIsBundle
  <2>2. \E m \in Files : m.folder = "manifest"
    BY <1>2, <2>1, MemberOfItem
  <2>3. pc # "KeyError"
    BY <2>2, NoFiles DEF IndInv, Progress
  <2>4. pc # "ValueError" /\ pc # "PhipError"
    <3>1. packed.manifest # Null
      BY <2>1, BundleAssumption, LineAssumption DEF IsBundle
    <3>2. pc = "PhipError" => unpacked.manifest = packed.manifest
      BY <1>2, <2>1, <2>2, OnlyPackedFiles
    <3>3. pc = "PhipError" => unpacked.manifest = Null
      BY DEF IndInv, ManifestIsRead
    <3> QED
      BY <1>2, <2>1, <3>1, <3>2, <3>3, OnlyPackedFiles
  <2>5. ASSUME pc = "returned" PROVE unpacked = packed
    <3>1. /\ unpacked.manifest = packed.manifest
          /\ \A f \in Dicts : PartOf(unpacked[f], packed[f])
      BY <1>2, <2>1, <2>2, <2>5, OnlyPackedFiles
    <3>2. ASSUME NEW f \in Dicts, NEW i \in DOMAIN packed[f] PROVE i \in DOMAIN unpacked[f]
      <4>1. PICK m \in Files : m.folder = f /\ m.name = Quote[i]
        BY <1>2, <2>1, MemberOfItem
      <4>2. i \in Ids /\ Unquote[m.name] = i
        BY <2>1, <4>1, BundleAssumption, BundleFacts, NameAssumption
      <4>3. \A m2 \in Files : m2.folder = f => Unquote[m2.name] \in DOMAIN unpacked[f]
        BY <2>5, LastMembers DEF LastMemberCounts
      <4> QED
        BY <4>1, <4>2, <4>3
    <3>3. \A f \in Dicts : /\ DOMAIN unpacked[f] = DOMAIN packed[f]
                           /\ \A i \in DOMAIN packed[f] : unpacked[f][i] = packed[f][i]
      BY <3>1, <3>2 DEF PartOf
    <3>4. IsBundle(packed, Documents) /\ IsBundle(unpacked, Values)
      BY <2>1, BundleAssumption DEF IndInv, TypeOK, Values
    <3>5. unpacked.objects = packed.objects
      BY <3>3, <3>4 DEF IsBundle, IsDict, Dicts
    <3>6. unpacked.history = packed.history
      BY <3>3, <3>4 DEF IsBundle, IsDict, Dicts
    <3>7. unpacked.keys = packed.keys
      BY <3>3, <3>4 DEF IsBundle, IsDict, Dicts
    <3> QED
      BY <3>1, <3>4, <3>5, <3>6, <3>7 DEF IsBundle
  <2> QED
    BY <2>3, <2>4, <2>5 DEF Errors
<1>3. pc = "start" => pc \notin Errors /\ pc # "returned"
  BY DEF Errors
<1> QED
  BY <1>1, <1>2, <1>3 DEF RoundTrip

\* An archive whose files are the members of the bundle, in any order and number,
\* is unpacked to the bundle and without an error, unless the archive itself
\* cannot be read; and a dict is converted to it.
THEOREM WholeArchivesRoundTrip == Spec => []RoundTrip
<1> QED
  BY WholeArchives, IndInvInvariant, PTL

\* From an archive that has only lost members comes a part of the bundle: no
\* history is shortened and none is mixed with another.
THEOREM LossesOnlyRemove == Spec => []LossOnlyRemoves
<1> QED
  BY Losses, IndInvInvariant, PTL

\* Of several files for one id or URI, under any spellings, the last is the one
\* that is returned, and nothing is returned that no file gave.
THEOREM LastMembersCount == Spec => []LastMemberCounts
<1> QED
  BY LastMembers, IndInvInvariant, PTL
=============================================================================
