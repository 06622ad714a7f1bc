------------------------------- MODULE Events -------------------------------
(***************************************************************************)
(* Events, their hashes and their signatures (phip.events), symbolically.  *)
(*                                                                         *)
(* SHA-256 over the canonical form of an event is taken to be injective:   *)
(* the hash of an event is everything it is computed from, which is what   *)
(* the event says itself (Content) after what its previous_hash stands     *)
(* for.  A hash is thus the sequence of the contents of a chain up to and  *)
(* including the event, and "genesis" stands for none.  A signature names  *)
(* its key and carries what it is a signature of.                          *)
(***************************************************************************)
EXTENDS Integers, Sequences

CONSTANTS NoKey,            \* the None of a resolver
          NoSignature       \* the key_id of an event whose signature is missing

Genesis == <<>>

\* The event with its signature stripped.  body stands for event_id, type,
\* timestamp and payload.
Unsigned(e) ==
  [phip_id |-> e.phip_id, actor |-> e.actor, body |-> e.body,
   previous_hash |-> e.previous_hash]

\* What e adds to its previous_hash; the signature is part of it.
Content(e) ==
  [phip_id |-> e.phip_id, actor |-> e.actor, body |-> e.body, signature |-> e.signature]

\* Mutant of HashEvent: the signature is stripped before hashing, too.
HashEventUnsigned(e) ==
  Append(e.previous_hash, [Content(e) EXCEPT !.signature = NoSignature])

\* hash_event.
HashEvent(e) == Append(e.previous_hash, Content(e))

\* sign_event with the private half of key.  key_id is not signed: it is a field
\* of the signature, which is stripped.
SignEvent(unsigned, key, key_id) ==
  [phip_id |-> unsigned.phip_id, actor |-> unsigned.actor, body |-> unsigned.body,
   previous_hash |-> unsigned.previous_hash,
   signature |-> [key_id |-> key_id, key |-> key, over |-> unsigned]]

\* verify_event; a malformed signature value is one over something else.
VerifyEvent(e, key) ==
  /\ e.signature.key_id # NoSignature
  /\ e.signature.key = key
  /\ e.signature.over = Unsigned(e)

\* Mutant of ExpectedPrevious: the first event may link to anything.
ExpectedPreviousUnlessFirst(walked, e) ==
  IF walked = <<>> THEN e.previous_hash ELSE HashEvent(walked[Len(walked)])

\* Mutant of ExpectedPrevious: what is hashed has its signature stripped.
ExpectedPreviousUnsigned(walked, e) ==
  IF walked = <<>> THEN Genesis ELSE HashEventUnsigned(walked[Len(walked)])

\* What event e, the next after those walked, has to name as previous_hash: the
\* loops of verify_chain and verify_bundle compute it alike.
ExpectedPrevious(walked, e) ==
  IF walked = <<>> THEN Genesis ELSE HashEvent(walked[Len(walked)])

\* Lists of events, of whatever values.
IsSeq(s) == s \in Seq({s[k] : k \in DOMAIN s})

IsEvent(e) ==
  e = [phip_id |-> e.phip_id, actor |-> e.actor, body |-> e.body,
       previous_hash |-> e.previous_hash, signature |-> e.signature]

IsHistory(events) ==
  IsSeq(events) /\ \A k \in 1..Len(events) : IsEvent(events[k])

\* The hash of the last of the first n events, if they are chained.
HashOfFirst(events, n) == [k \in 1..n |-> Content(events[k])]

\* Each event names all that precedes it.
Chained(events) ==
  \A k \in 1..Len(events) : events[k].previous_hash = HashOfFirst(events, k - 1)

\* Signatures that are lost, renamed, or no longer fit what they were made for.
AlteredEvents(e, objects, actors, bodies, key_ids) ==
  {[e EXCEPT !.phip_id = o] : o \in objects}
  \cup {[e EXCEPT !.actor = a] : a \in actors}
  \cup {[e EXCEPT !.body = b] : b \in bodies}
  \cup {[e EXCEPT !.signature = [@ EXCEPT !.key_id = id]] :
           id \in key_ids \cup {NoSignature}}
=============================================================================
