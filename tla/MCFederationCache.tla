------------------------- MODULE MCFederationCache -------------------------
(* Small instances of FederationCache. *)
EXTENDS FederationCache

Document(actor, active, attributes, window) ==
  [actor |-> actor, active |-> active, attributes |-> attributes, window |-> window]

\* A rotation: the old key is usable at 0 and not at 2, the new one conversely.
OldKey == Document(TRUE, TRUE, "keys", [not_before |-> 0, not_after |-> 1])
NewKey == Document(TRUE, TRUE, "keys", [not_before |-> 1, not_after |-> 2])

OneDocument == {OldKey}

KeyDocuments ==
  {OldKey, NewKey,
   Document(TRUE, TRUE, "keys", NoWindow),
   Document(TRUE, TRUE, "keys", Overflow),
   Document(TRUE, TRUE, "no_keys", NoWindow),
   Document(TRUE, TRUE, "not_a_mapping", NoWindow),
   Document(TRUE, FALSE, "keys", [not_before |-> 0, not_after |-> 2]),
   Document(FALSE, FALSE, "no_keys", NoWindow)}

\* The shortest and the longest lifetime.
RaceMaxAges == {NoMaxAge, 5}
NoHeader == {NoMaxAge}

NoAnchors == {}
TwoAnchors == {0, 2}
=============================================================================
