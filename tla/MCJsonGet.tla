----------------------------- MODULE MCJsonGet -----------------------------
(* Small instances of JsonGet: names that resolve to nothing, to an address   *)
(* next to a boundary of the special ranges, or to it and a public one;       *)
(* bodies of up to three bytes in pieces of one or two; a timeout of two      *)
(* seconds; up to three reads counted, and any number made.                   *)
EXTENDS JsonGet

V4(a, b) == [family |-> 4, a |-> a, b |-> b, first |-> 0, rest |-> "other"]
V6(first, rest) == [family |-> 6, a |-> 0, b |-> 0, first |-> first, rest |-> rest]
Mapped(a, b) == [family |-> 6, a |-> a, b |-> b, first |-> 0, rest |-> "mapped"]

Boundaries ==
  {V4(p[1], p[2]) : p \in {<<9, 255>>, <<10, 0>>, <<100, 63>>, <<100, 64>>, <<100, 127>>, <<100, 128>>,
                           <<172, 15>>, <<172, 16>>, <<172, 31>>, <<172, 32>>, <<223, 255>>, <<224, 0>>}}
  \cup {V6(h, "other") : h \in {65151, 65152, 65215, 65216, 64511, 64512, 65023, 65024, 65279, 65280}}
  \cup {V6(0, "zero"), V6(0, "one"), V6(8193, "one"), Mapped(127, 0), Mapped(8, 8)}

MCAnswers == {{}} \cup {{addr} : addr \in Boundaries} \cup {{addr, V4(8, 8)} : addr \in Boundaries}

\* Above timeout_seconds * (2 + 1 + MaxReads) + timeout_seconds.
ElapsedBound == 2 * (2 + 1 + 3) + 2 + 1
=============================================================================
