----------------------------- MODULE ChainWalk -----------------------------
(***************************************************************************)
(* Writing a history and checking it (phip.events).  Actors read the head  *)
(* of a chain, sign an event on it and push it; the authority appends one  *)
(* that still fits.  A reader walks a list of events with verify_chain,    *)
(* one step per round of the loop; the list is anything that can be put    *)
(* together from what was signed, altered or not, and from what the keys   *)
(* of dishonest actors can sign, and is revealed as it is walked.          *)
(***************************************************************************)
EXTENDS Events, FiniteSets

CONSTANTS Objects, Actors, Bodies,
          Honest,           \* actors that sign as the protocol has it
          MaxSigned,        \* bound: events signed
          MaxWalked         \* bound: events in the reader's list

ASSUME HonestAssumption == Honest \subseteq Actors
ASSUME KeyAssumption == NoKey \notin Actors /\ NoSignature \notin Actors
ASSUME BoundsAssumption == MaxSigned \in Nat /\ MaxWalked \in Nat

VARIABLES chain,            \* chain[o]: the authority's history of o
          signed,           \* every event signed and pushed, appended or not
          source,           \* where the reader's list comes from
          require_signatures,
          pc,               \* the reader: "walking" or an end
          walked            \* the events that have passed

vars == <<chain, signed, source, require_signatures, pc, walked>>

Errors == {"InvalidEvent", "KeyNotFound", "InvalidSignature"}

-----------------------------------------------------------------------------
(* Writing *)

\* The previous_hash of an event that is to follow the first n.
HeadHash(events, n) == IF n = 0 THEN Genesis ELSE HashEvent(events[n])

\* Actor a has read the first n events of o, perhaps a while ago, and pushes.
Push(a, o, n, b) ==
  /\ Cardinality(signed) < MaxSigned
  /\ signed' = signed \cup
       {SignEvent([phip_id |-> o, actor |-> a, body |-> b,
                   previous_hash |-> HeadHash(chain[o], n)], a, a)}
  /\ UNCHANGED <<chain, source, require_signatures, pc, walked>>

\* The authority appends an event that names its present head; any other is a
\* conflict and changes nothing.
AppendEvent(e) ==
  /\ e.previous_hash = HeadHash(chain[e.phip_id], Len(chain[e.phip_id]))
  /\ chain' = [chain EXCEPT ![e.phip_id] = Append(@, e)]
  /\ UNCHANGED <<signed, source, require_signatures, pc, walked>>

-----------------------------------------------------------------------------
(* Walking *)

\* The next event of a sound source, if what has passed is a history's beginning.
SoundEvents ==
  {chain[o][Len(walked) + 1] :
     o \in {x \in Objects : /\ Len(walked) < Len(chain[x])
                            /\ walked = SubSeq(chain[x], 1, Len(walked))}}

\* What a dishonest actor can sign to follow the events that have passed.
ForgedEvents ==
  {SignEvent(u, d, d) :
     u \in [phip_id : Objects, actor : Actors, body : Bodies,
            previous_hash : {HeadHash(walked, Len(walked))}],
     d \in Actors \ Honest}

\* An event that is made to follow, its signature as it was.
Relinked(e) == [e EXCEPT !.previous_hash = HeadHash(walked, Len(walked))]

AnyEvents ==
  signed \cup {Relinked(e) : e \in signed} \cup ForgedEvents
  \cup UNION {AlteredEvents(e, Objects, Actors, Bodies, Actors) : e \in signed}

\* What a resolver may answer: the key, or None when it cannot get it.
Resolutions(key_id) == {NoKey} \cup ({key_id} \cap Actors)

\* What verify_chain raises at e, or "none".
Fault(e, key) ==
  IF e.previous_hash # ExpectedPrevious(walked, e) THEN "InvalidEvent"
  ELSE IF ~require_signatures THEN "none"
  ELSE IF e.signature.key_id = NoSignature THEN "InvalidEvent"
  ELSE IF key = NoKey THEN "KeyNotFound"
  ELSE IF ~VerifyEvent(e, key) THEN "InvalidSignature"
  ELSE "none"

\* One round of the loop of verify_chain.
Walk(e, key) ==
  /\ pc = "walking"
  /\ Len(walked) < MaxWalked
  /\ IF Fault(e, key) = "none"
     THEN walked' = Append(walked, e) /\ UNCHANGED pc
     ELSE pc' = Fault(e, key) /\ UNCHANGED walked
  /\ UNCHANGED <<chain, signed, source, require_signatures>>

\* The list ends; an empty one is valid.
Accept ==
  /\ pc = "walking"
  /\ pc' = "accepted"
  /\ UNCHANGED <<chain, signed, source, require_signatures, walked>>

Init ==
  /\ chain = [o \in Objects |-> <<>>]
  /\ signed = {}
  /\ source \in {"sound", "any"}
  /\ require_signatures \in BOOLEAN
  /\ pc = "walking"
  /\ walked = <<>>

Next ==
  \/ \E a \in Actors, o \in Objects, b \in Bodies :
       \E n \in 0..Len(chain[o]) : Push(a, o, n, b)
  \/ \E e \in signed : AppendEvent(e)
  \/ \E e \in IF source = "sound" THEN SoundEvents ELSE AnyEvents :
       \E key \in Resolutions(e.signature.key_id) : Walk(e, key)
  \/ Accept

Spec == Init /\ [][Next]_vars

-----------------------------------------------------------------------------
(* Properties *)

TypeOK ==
  /\ DOMAIN chain = Objects /\ \A o \in Objects : IsHistory(chain[o])
  /\ \A e \in signed : IsEvent(e) /\ e.phip_id \in Objects
  /\ source \in {"sound", "any"} /\ require_signatures \in BOOLEAN
  /\ pc \in {"walking", "accepted"} \cup Errors
  /\ IsHistory(walked)

\* One good signature vouches for everything before it.  If an event that has
\* passed carries the key of an honest actor, that actor signed
\* it, and the events before it are, one by one and signatures included, the
\* history its signer had read, whoever signed those.
HonestSignatureFixesHistory ==
  require_signatures =>
    \A k \in 1..Len(walked) :
      walked[k].signature.key_id \in Honest =>
        LET history == chain[walked[k].phip_id] IN
          /\ \E f \in signed : Unsigned(f) = Unsigned(walked[k])
          /\ k - 1 <= Len(history)
          /\ SubSeq(walked, 1, k - 1) = SubSeq(history, 1, k - 1)

\* A history that the authority keeps, read from its first event, is never
\* refused, unless a key cannot be resolved.
HistoriesVerify ==
  source = "sound" => pc \notin {"InvalidEvent", "InvalidSignature"}

\* With or without signatures, what passes is chained from genesis.
PassedIsChained == Chained(walked)

\* The parts of the inductive invariant.  Chains are chained, of signed events.
ChainsAreSigned ==
  \A o \in Objects :
    Chained(chain[o]) /\ \A k \in 1..Len(chain[o]) : chain[o][k] \in signed

\* What an actor signs follows some first events of the history it extends.
SignedOnHistory ==
  \A e \in signed :
    /\ e.signature.key \in Actors /\ e.signature.key_id = e.signature.key
    /\ e.signature.over = Unsigned(e)
    /\ \E n \in 0..Len(chain[e.phip_id]) :
         e.previous_hash = HashOfFirst(chain[e.phip_id], n)

\* What has passed carries good signatures, and those of honest actors are over
\* what they signed.
PassedIsSigned ==
  require_signatures =>
    \A k \in 1..Len(walked) :
      /\ walked[k].signature.key = walked[k].signature.key_id
      /\ walked[k].signature.over = Unsigned(walked[k])
      /\ walked[k].signature.key \in Honest =>
           \E f \in signed : f.signature.over = walked[k].signature.over

IndInv ==
  /\ TypeOK
  /\ PassedIsChained
  /\ ChainsAreSigned
  /\ SignedOnHistory
  /\ PassedIsSigned
  /\ HistoriesVerify
=============================================================================
