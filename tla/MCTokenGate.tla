----------------------------- MODULE MCTokenGate -----------------------------
(***************************************************************************)
(* A small instance of TokenGate: one verifier, a key of the grantor's own *)
(* and one that somebody else can sign with, and grants that differ in     *)
(* who, what, where and when.                                              *)
(***************************************************************************)
EXTENDS TokenGate

CONSTANTS alice, bob, o1, o2, own, leaked

Grant(granted_to, scope, object_filter, not_before, expires) ==
  [granted_to |-> granted_to, scope |-> scope, object_filter |-> object_filter,
   not_before |-> not_before, expires |-> expires]

\* The last two are refused by mint_token, the other ones are not.
SomeGrants ==
  {Grant(alice, "read_history", {o1}, 0, 1),
   Grant(alice, "push_events", {o1, o2}, 1, NoTime),
   Grant(alice, "read_state", {o1}, NoTime, 2),
   Grant(alice, "read_state", {o2}, 1, Overflow),
   Grant(Anyone, "read_topology", {o1}, 0, 2),
   Grant(Anyone, "read_history", {o1}, 0, 2),
   Grant(Nobody, "read_state", {EmptyName}, Overflow, 2)}

Request(actor, object, scope) == [actor |-> actor, object |-> object, scope |-> scope]

SomeRequests ==
  {NoRequest, Request(alice, o2, "push_events"), Request(alice, o2, "read_history")}
  \cup {Request(actor, o1, scope) :
          actor \in {alice, bob},
          scope \in {"read_state", "read_history", "read_topology"}}

\* A key that is valid from the start and then another from 1, the compromised one,
\* and what is no usable key: of an actor that is not active or has no attributes,
\* without a window, or with one that cannot be converted.
SomeDocuments ==
  LET Document(fault, key, window) == [fault |-> fault, key |-> key, window |-> window]
      early == [not_before |-> 0, not_after |-> 1]
      late  == [not_before |-> 1, not_after |-> 2]
  IN {Document("none", own, window) : window \in {early, late, NoWindow, Overflow}}
     \cup {Document("none", leaked, early)}
     \cup {Document(fault, own, early) : fault \in {"ValueError", "AttributeError"}}
=============================================================================
