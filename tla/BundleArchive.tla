--------------------------- MODULE BundleArchive ---------------------------
(***************************************************************************)
(* Bundles as files (phip.bundle): pack_bundle writes the parts of a       *)
(* bundle to a tar archive, one member each, and unpack_bundle reads them  *)
(* back, one step per member.  What the archive holds is revealed as it is *)
(* read: members in another order, twice, of other tools, altered or lost. *)
(* bundle_from_dict reads the form that is one JSON document.              *)
(*                                                                         *)
(* A member is its folder, its name there, whether it is a file, and its   *)
(* lines.  A line is a JSON value, blank, or neither.                      *)
(***************************************************************************)
EXTENDS Naturals, Sequences, FiniteSets

CONSTANTS Ids,              \* PhIP ids and URIs of keys
          Names,            \* what may stand for them in the name of a member
          Quote, Unquote,   \* urllib.parse, from Ids to Names and back
          Documents,        \* JSON objects
          Null,             \* JSON null, None
          Blank, Garbage,   \* lines that are no JSON value
          Absent,           \* a key that a dict does not have
          Bundles,          \* what is packed
          Contents,         \* the lines of a member that was not packed
          MaxMembers,       \* bound: members of an archive
          MaxAlien          \* bound: those of them that were not packed

Dicts == {"objects", "history", "keys"}

IsDict(f, values) == DOMAIN f \subseteq Ids /\ f \in [DOMAIN f -> values]

IsBundle(b, manifests) ==
  /\ b = [manifest |-> b.manifest, objects |-> b.objects, history |-> b.history, keys |-> b.keys]
  /\ b.manifest \in manifests
  /\ IsDict(b.objects, Documents \cup {Null}) /\ IsDict(b.keys, Documents \cup {Null})
  /\ IsDict(b.history, Seq(Documents \cup {Null}))

ASSUME NameAssumption ==
  /\ Quote \in [Ids -> Names] /\ Unquote \in [Names -> Ids]
  /\ \A i \in Ids : Unquote[Quote[i]] = i
ASSUME LineAssumption ==
  /\ {Null, Blank, Garbage} \cap Documents = {}
  /\ Null # Blank /\ Blank # Garbage /\ Garbage # Null
  /\ Contents \subseteq Seq(Documents \cup {Null, Blank, Garbage})
ASSUME BundleAssumption == \A b \in Bundles : IsBundle(b, Documents)
ASSUME BoundsAssumption == MaxMembers \in Nat /\ MaxAlien \in Nat

VARIABLES packed,           \* the bundle that is packed
          archive,          \* the members read so far
          unpacked,         \* the local variables of unpack_bundle
          pc

vars == <<packed, archive, unpacked, pc>>

Errors == {"PhipError", "ReadError", "ValueError", "KeyError"}
Nothing == [manifest |-> Null, objects |-> <<>>, history |-> <<>>, keys |-> <<>>]

Member(folder, name, lines) == [folder |-> folder, name |-> name, file |-> TRUE, lines |-> lines]

-----------------------------------------------------------------------------
(* pack_bundle *)

\* The lines of a history: "\n".join(events) + "\n".
JsonLines(events) == IF events = <<>> THEN <<Blank>> ELSE events

\* One member for the manifest and each item of the dicts.
Members(b) ==
  {Member("manifest", Absent, <<b.manifest>>)}
  \cup {Member("history", Quote[i], JsonLines(b.history[i])) : i \in DOMAIN b.history}
  \cup UNION {{Member(f, Quote[i], <<b[f][i]>>) : i \in DOMAIN b[f]} : f \in Dicts \ {"history"}}

PackBundle(b) ==
  /\ pc = "start"
  /\ packed' = b /\ pc' = "packed"
  /\ UNCHANGED <<archive, unpacked>>

-----------------------------------------------------------------------------
(* unpack_bundle *)

\* Mutant of Lines: blank lines are not skipped.
LinesAll(m) == m.lines

\* The lines that are not skipped, in their order: the n-th is the one up to which
\* n are kept.
Kept(m) == {k \in DOMAIN m.lines : m.lines[k] # Blank}

Lines(m) ==
  [n \in 1..Cardinality(Kept(m)) |->
     m.lines[CHOOSE k \in Kept(m) : Cardinality(Kept(m) \cap 1..k) = n]]

\* Mutant of WellFormed: a line that cannot be parsed is passed on.
WellFormedAnyLine(m) == m.folder = "history" \/ Len(Lines(m)) = 1

\* Each line of a history is a JSON value; any other member is one.
WellFormed(m) ==
  /\ \A k \in DOMAIN Lines(m) : Lines(m)[k] # Garbage
  /\ m.folder # "history" => Len(Lines(m)) = 1

\* A member that is read and not passed over.
IsRead(m) == m.file /\ m.folder # "other"

\* f[item] = value.
Assign(f, item, value) ==
  [i \in DOMAIN f \cup {item} |-> IF i = item THEN value ELSE f[i]]

\* Mutant of Value: `events` is not emptied for the next history.
ValueTogether(m) ==
  LET h == unpacked.history
      so_far == IF DOMAIN h = {} THEN <<>>
                ELSE h[CHOOSE i \in DOMAIN h : \A j \in DOMAIN h : Len(h[j]) <= Len(h[i])] IN
    IF m.folder = "history" THEN so_far \o Lines(m) ELSE Lines(m)[1]

\* What a member of a folder holds.
Value(m) == IF m.folder = "history" THEN Lines(m) ELSE Lines(m)[1]

\* Mutant of Stored: the first member of a name stays.
StoredIfNew(m) ==
  IF m.folder = "manifest" THEN [unpacked EXCEPT !.manifest = Lines(m)[1]]
  ELSE IF Unquote[m.name] \in DOMAIN unpacked[m.folder] THEN unpacked
  ELSE [unpacked EXCEPT ![m.folder] = Assign(@, Unquote[m.name], Value(m))]

\* What unpacked becomes by m.
Stored(m) ==
  IF m.folder = "manifest" THEN [unpacked EXCEPT !.manifest = Value(m)]
  ELSE [unpacked EXCEPT ![m.folder] = Assign(@, Unquote[m.name], Value(m))]

\* tarfile.open and getmembers: what is no archive, or ends inside of a member, is
\* not read at all.  One that ends between two members, or has a damaged header
\* there, just ends.
Open ==
  /\ pc = "packed"
  /\ pc' \in {"reading", "ReadError"}
  /\ UNCHANGED <<packed, archive, unpacked>>

ReadMember(m) ==
  /\ pc = "reading" /\ Len(archive) < MaxMembers
  /\ archive' = Append(archive, m)
  /\ \/ ~IsRead(m) /\ UNCHANGED <<unpacked, pc>>
     \/ IsRead(m) /\ WellFormed(m) /\ unpacked' = Stored(m) /\ UNCHANGED pc
     \/ IsRead(m) /\ ~WellFormed(m) /\ pc' = "ValueError" /\ UNCHANGED unpacked
  /\ UNCHANGED packed

EndOfArchive ==
  /\ pc = "reading"
  /\ pc' = IF unpacked.manifest = Null THEN "PhipError" ELSE "returned"
  /\ UNCHANGED <<packed, archive, unpacked>>

-----------------------------------------------------------------------------
(* bundle_from_dict *)

\* The bundle as a dict: an empty part may be missing or null.
AsDicts(b) ==
  {d \in [manifest : {b.manifest, Absent}, objects : {b.objects, Null, Absent},
          history : {b.history, Null, Absent}, keys : {b.keys, Null, Absent}] :
     \A f \in Dicts : d[f] \in {Null, Absent} => b[f] = <<>>}

Part(p) == IF p \in {Null, Absent} THEN <<>> ELSE p

BundleFromDict(d) ==
  /\ pc = "packed"
  /\ IF d.manifest = Absent
     THEN pc' = "KeyError" /\ UNCHANGED unpacked
     ELSE /\ pc' = "converted"
          /\ unpacked' = [manifest |-> d.manifest, objects |-> Part(d.objects),
                          history |-> Part(d.history), keys |-> Part(d.keys)]
  /\ UNCHANGED <<packed, archive>>

-----------------------------------------------------------------------------
\* What a mirror, an archiver or a forger may add: also directories and members
\* of other names.
AlienMembers ==
  {Member(f, n, c) : f \in Dicts, n \in Names, c \in Contents}
  \cup {Member("manifest", Absent, c) : c \in Contents}
  \cup {Member("other", Absent, <<Garbage>>),
        [Member("manifest", Absent, <<>>) EXCEPT !.file = FALSE]}

Aliens == {k \in DOMAIN archive : archive[k] \notin Members(packed)}

Init == packed = Nothing /\ archive = <<>> /\ unpacked = Nothing /\ pc = "start"

Next ==
  \/ \E b \in Bundles : PackBundle(b)
  \/ Open
  \/ pc = "reading" /\ \E m \in Members(packed) : ReadMember(m)
  \/ pc = "reading" /\ Cardinality(Aliens) < MaxAlien /\ \E m \in AlienMembers : ReadMember(m)
  \/ EndOfArchive
  \/ pc = "packed" /\ \E d \in AsDicts(packed) : BundleFromDict(d)

Spec == Init /\ [][Next]_vars

-----------------------------------------------------------------------------
(* Properties *)

TypeOK ==
  /\ packed \in Bundles \cup {Nothing}
  /\ Len(archive) <= MaxMembers /\ Cardinality(Aliens) <= MaxAlien
  /\ IsBundle(unpacked, Documents \cup {Null})
  /\ pc \in {"start", "packed", "reading", "returned", "converted"} \cup Errors

\* The members that count.
Files == {archive[k] : k \in {j \in DOMAIN archive : IsRead(archive[j])}}

\* An archive that holds each member of the bundle, and nothing else that counts,
\* is unpacked to the bundle, whatever their order and number; so is a dict.
RoundTrip ==
  /\ Files = Members(packed) /\ pc # "ReadError" => pc \notin Errors
  /\ Files = Members(packed) /\ pc = "returned" => unpacked = packed
  /\ pc = "converted" => unpacked = packed

\* f is a part of g.
PartOf(f, g) == DOMAIN f \subseteq DOMAIN g /\ \A i \in DOMAIN f : f[i] = g[i]

\* Of an archive that has lost members, and only lost some, what is returned is
\* the manifest with a part of the bundle: no history is shorter, none is mixed
\* with another, so that verify_bundle can tell.
LossOnlyRemoves ==
  Files \subseteq Members(packed) /\ pc = "returned" =>
    /\ unpacked.manifest = packed.manifest
    /\ \A f \in Dicts : PartOf(unpacked[f], packed[f])

\* The files in a folder whose names stand for i, under any spelling; the last.
Given(folder, i) ==
  {k \in DOMAIN archive : /\ IsRead(archive[k]) /\ archive[k].folder = folder
                          /\ Unquote[archive[k].name] = i}
LastFile(folder, i) ==
  archive[CHOOSE k \in Given(folder, i) : \A j \in Given(folder, i) : j <= k]

\* Two members of one name, or of two spellings of it: the bundle has the last of
\* them, as an archive that was appended to needs; and it has nothing that no
\* member gave it.
LastMemberCounts ==
  pc = "returned" =>
    \A f \in Dicts :
      /\ DOMAIN unpacked[f] = {Unquote[m.name] : m \in {n \in Files : n.folder = f}}
      /\ \A i \in DOMAIN unpacked[f] :
           unpacked[f][i] = IF f = "history" THEN Lines(LastFile(f, i))
                            ELSE Lines(LastFile(f, i))[1]

\* The parts of the inductive invariant.  How far the call has come.
Progress ==
  /\ packed = Nothing <=> pc = "start"
  /\ archive \in Seq(Members(packed) \cup AlienMembers)
  /\ pc \in {"start", "packed", "converted", "KeyError", "ReadError"} => archive = <<>>
  /\ pc \in {"start", "packed", "KeyError", "ReadError"} => unpacked = Nothing
  /\ pc = "converted" => unpacked = packed

\* A file that cannot be parsed ends the loop, and nothing else does.
FilesParse == pc = "ValueError" <=> \E m \in Files : ~WellFormed(m)

\* The manifest is one that was read, or there is none.
ManifestIsRead ==
  pc \in {"reading", "returned", "PhipError"} =>
    /\ pc = "returned" => unpacked.manifest # Null
    /\ pc = "PhipError" => unpacked.manifest = Null
    /\ \/ \E m \in Files : m.folder = "manifest" /\ unpacked.manifest = Lines(m)[1]
       \/ unpacked.manifest = Null /\ \A m \in Files : m.folder # "manifest"

\* At each member the dicts have what the last file of each name holds.
LastMemberIsStored ==
  pc \in {"reading", "returned"} =>
    \A f \in Dicts :
      /\ \A i \in Ids : Given(f, i) # {} => i \in DOMAIN unpacked[f]
      /\ \A i \in DOMAIN unpacked[f] :
           \E k \in Given(f, i) :
             (\A j \in Given(f, i) : j <= k) /\ unpacked[f][i] = Value(archive[k])

IndInv ==
  /\ TypeOK
  /\ Progress
  /\ FilesParse
  /\ ManifestIsRead
  /\ LastMemberIsStored
=============================================================================
