---------------------------- MODULE TopologyRead ----------------------------
(***************************************************************************)
(* Reading an object's history in topology mode (phip.topology): an        *)
(* authority projects and signs slices of chains that keep growing         *)
(* (topology_entry_for, build_topology_envelope), and a reader checks the  *)
(* pages it is handed: one with verify_first_page, or an iterable of them  *)
(* with stitch_pages, whose loop is one step per page.  The iterable may   *)
(* be lazy, so the chain can grow between two pages.                       *)
(*                                                                         *)
(* Hashes and signatures are symbolic: the hash of an event is the event's *)
(* place in its chain, and a signature names its key and what it covers.   *)
(***************************************************************************)
EXTENDS Integers, Sequences

CONSTANTS Objects,
          Genesis,          \* the previous_hash "genesis"
          NoHash,           \* None
          Defects,          \* malformed pages that the authority itself signs
          MaxEvents         \* bound: events per chain

ASSUME HashAssumption ==
  /\ Genesis # NoHash
  /\ Genesis \notin Objects \X Nat
  /\ NoHash \notin Objects \X Nat
ASSUME ObjectsAssumption == Objects # {}
ASSUME DefectAssumption == Defects \subseteq {"gap", "extra_field", "null_hash"}
ASSUME MaxEventsAssumption == MaxEvents \in Nat

VARIABLES length,           \* length[o]: events in o's chain
          source,           \* where the reader's pages come from
          public_key,       \* whether stitch_pages is given the key
          pc,               \* the reader: "start", "stitching" or an end
          flat,             \* the entries accepted so far
          prev_last_hash    \* event_hash of the last of them, or None

vars == <<length, source, public_key, pc, flat, prev_last_hash>>

Errors == {"InvalidEvent", "InvalidSignature"}
Ended == {"returned"} \cup Errors

-----------------------------------------------------------------------------
(* Pages *)

\* hash_event of the k-th event of o, and what precedes the first.
HashOf(o, k) == IF k = 0 THEN Genesis ELSE <<o, k>>

\* topology_entry_for; event_id, type and timestamp stay out of the model.
Entry(o, k) == [previous_hash |-> HashOf(o, k - 1), event_hash |-> HashOf(o, k)]

\* The topology of a page of o: the events after the first i, up to the j-th.
Slice(o, i, j) == [k \in 1..(j - i) |-> Entry(o, i + k)]

\* _canonical_signed_object; page_length and disclosure are functions of it.
Canonical(phip_id, topology) == [phip_id |-> phip_id, topology |-> topology]

\* build_topology_envelope.
Envelope(phip_id, topology) ==
  [phip_id |-> phip_id, page_length |-> Len(topology), marked |-> TRUE,
   topology |-> topology, five_fields |-> TRUE,
   signature |-> [key |-> "authority", over |-> Canonical(phip_id, topology)]]

Page(o, i, j) == Envelope(o, Slice(o, i, j))

\* Pages that an authority in error signs: one that skips an event, one whose
\* entries have more than the five fields, one that ends in a null event_hash.
DefectivePages(o, i, j) ==
  (IF "gap" \in Defects /\ i < j /\ j < length[o]
   THEN {Envelope(o, [Slice(o, i, j) EXCEPT ![j - i] = Entry(o, j + 1)])} ELSE {})
  \cup
  (IF "extra_field" \in Defects
   THEN {[Page(o, i, j) EXCEPT !.five_fields = FALSE]} ELSE {})
  \cup
  (IF "null_hash" \in Defects /\ i < j
   THEN {Envelope(o, [Slice(o, i, j) EXCEPT ![j - i] = [@ EXCEPT !.event_hash = NoHash]])}
   ELSE {})

\* p's signature on another name or other entries.
Altered(p, phip_id, topology) ==
  [Envelope(phip_id, topology) EXCEPT !.signature = p.signature]

\* Another object's name, a foreign entry, an entry lost.
Alterations(p) ==
  ((Objects \ {p.phip_id}) \X {p.topology})
  \cup
  ({p.phip_id} \X
     ({[p.topology EXCEPT ![k] = Entry(o, k)] :
         o \in Objects \ {p.phip_id}, k \in DOMAIN p.topology}
      \cup {SubSeq(p.topology, 1, n) : n \in 0..(Len(p.topology) - 1)}))

\* What becomes of a page on its way: a signature lost or made with another key,
\* a wrong marker or length, or an alteration.
Corrupted(p) ==
  {[p EXCEPT !.signature = [@ EXCEPT !.key = key]] : key \in {"none", "other"}}
  \cup {[p EXCEPT !.marked = FALSE], [p EXCEPT !.page_length = @ + 1]}
  \cup {Altered(p, a[1], a[2]) : a \in Alterations(p)}

-----------------------------------------------------------------------------
(* Checking a page *)

\* Mutant of Unbroken: the last link of a page is not looked at.
UnbrokenButLast(topology) ==
  \A k \in 2..(Len(topology) - 1) : topology[k].previous_hash = topology[k - 1].event_hash

\* walk_topology_chain finds no break.
Unbroken(topology) ==
  \A k \in 2..Len(topology) : topology[k].previous_hash = topology[k - 1].event_hash

\* The checks of verify_topology_response before the signature.
WellFormed(p) ==
  /\ p.signature.key # "none"
  /\ p.marked
  /\ p.page_length = Len(p.topology)
  /\ p.five_fields

\* Mutant of Signed: the canonical object misses the topology.
SignedAnyTopology(p) ==
  p.signature.key = "authority" /\ p.signature.over.phip_id = p.phip_id

Signed(p) ==
  /\ p.signature.key = "authority"
  /\ p.signature.over = Canonical(p.phip_id, p.topology)

\* Mutant of Problem: a missing signature is not looked for.
ProblemUnlessSigned(p) ==
  IF p.signature.key = "none" THEN "TypeError"
  ELSE IF ~WellFormed(p) THEN "InvalidEvent"
  ELSE IF ~Signed(p) THEN "InvalidSignature"
  ELSE IF ~Unbroken(p.topology) THEN "InvalidEvent"
  ELSE "none"

\* What verify_topology_response raises, or "none".
Problem(p) ==
  IF ~WellFormed(p) THEN "InvalidEvent"
  ELSE IF ~Signed(p) THEN "InvalidSignature"
  ELSE IF ~Unbroken(p.topology) THEN "InvalidEvent"
  ELSE "none"

-----------------------------------------------------------------------------
(* The reader *)

\* The entries are the beginning of o's chain.
PrefixOf(o, entries) ==
  /\ Len(entries) <= length[o]
  /\ \A k \in 1..Len(entries) : entries[k] = Entry(o, k)

\* A sound source gives the pages of an object in order, of any length.
SoundPages ==
  UNION {{Page(o, Len(flat), j) : j \in Len(flat)..length[o]} :
           o \in {x \in Objects : PrefixOf(x, flat)}}

\* Any other source gives any page, in any order, again or never, as signed at
\* any time, sound, defective or corrupted.
AllPages ==
  UNION {UNION {UNION {{Page(o, i, j)} \cup DefectivePages(o, i, j)
                          \cup Corrupted(Page(o, i, j)) :
                        i \in 0..j} : j \in 0..length[o]} : o \in Objects}

Init ==
  /\ length = [o \in Objects |-> 0]
  /\ source \in {"sound", "any"}
  /\ public_key \in BOOLEAN
  /\ pc = "start"
  /\ flat = <<>>
  /\ prev_last_hash = NoHash

\* An event is appended to o's chain.
Grow(o) ==
  /\ length[o] < MaxEvents
  /\ length' = [length EXCEPT ![o] = @ + 1]
  /\ UNCHANGED <<source, public_key, pc, flat, prev_last_hash>>

\* verify_first_page, which always has the key, and whose entries are then used.
VerifyFirstPage(p) ==
  /\ pc = "start" /\ public_key
  /\ IF Problem(p) # "none" THEN pc' = Problem(p) /\ UNCHANGED flat
     ELSE IF p.topology # <<>> /\ p.topology[1].previous_hash # Genesis
     THEN pc' = "InvalidEvent" /\ UNCHANGED flat
     ELSE pc' = "returned" /\ flat' = p.topology
  /\ UNCHANGED <<length, source, public_key, prev_last_hash>>

\* Mutant of Expected: genesis is expected of the first page only, not of the
\* first page with entries.
ExpectedByIndex == IF pc = "start" THEN Genesis ELSE prev_last_hash

\* What the first entry of the next page with entries has to link to.
Expected == IF prev_last_hash = NoHash THEN Genesis ELSE prev_last_hash

\* One round of the loop of stitch_pages.
StitchPage(p) ==
  /\ pc \in {"start", "stitching"}
  /\ IF public_key /\ Problem(p) # "none"
     THEN pc' = Problem(p) /\ UNCHANGED <<flat, prev_last_hash>>
     ELSE IF p.topology = <<>>
     THEN pc' = "stitching" /\ UNCHANGED <<flat, prev_last_hash>>
     ELSE IF p.topology[1].previous_hash # Expected
     THEN pc' = "InvalidEvent" /\ UNCHANGED <<flat, prev_last_hash>>
     ELSE /\ pc' = "stitching"
          /\ flat' = flat \o p.topology
          /\ prev_last_hash' = p.topology[Len(p.topology)].event_hash
  /\ UNCHANGED <<length, source, public_key>>

\* The iterable ends.  Nothing tells the reader that it ends too early.
StitchEnds ==
  /\ pc \in {"start", "stitching"}
  /\ pc' = "returned"
  /\ UNCHANGED <<length, source, public_key, flat, prev_last_hash>>

Next ==
  \/ \E o \in Objects : Grow(o)
  \/ \E p \in IF source = "sound" THEN SoundPages ELSE AllPages :
       /\ public_key \/ Problem(p) = "none"   \* else the caller has verified p
       /\ VerifyFirstPage(p) \/ StitchPage(p)
  \/ StitchEnds

Spec == Init /\ [][Next]_vars

-----------------------------------------------------------------------------
(* Properties *)

Hashes == (Objects \X Nat) \cup {Genesis, NoHash}

TypeOK ==
  /\ length \in [Objects -> 0..MaxEvents]
  /\ source \in {"sound", "any"} /\ public_key \in BOOLEAN
  /\ pc \in {"start", "stitching"} \cup Ended
  /\ flat \in Seq([previous_hash : Hashes, event_hash : Hashes])
  /\ prev_last_hash \in Hashes

\* What a reader has accepted is the beginning of one object's
\* chain, as it is or was: whatever pages of whatever objects it is handed, in
\* whatever order, no entry is missing, repeated, foreign or out of place.
StitchedIsPrefix == \E o \in Objects : PrefixOf(o, flat)

\* The documented condition of stitch_pages: the first page with entries begins
\* at genesis, each later one links to the last event_hash seen, and each page
\* is linked within.
StitchedIsLinked ==
  /\ flat # <<>> => flat[1].previous_hash = Genesis
  /\ Unbroken(flat)

\* A reader is never refused what a sound authority serves it in order, with
\* empty pages and growth of the chain in between, with or without the key.
SoundReadsSucceed == source = "sound" => pc \notin Errors
=============================================================================
