---------------------------- MODULE KeyDirectory ----------------------------
(***************************************************************************)
(* What a verifier may rely on when it reads a foreign authority's         *)
(* documents (actor objects, /meta): every read ends in a failure or in a  *)
(* document that the authority was still publishing less than MaxStaleness *)
(* seconds before the read began.  Nothing is promised about two reads     *)
(* relative to each other: a later read may return an older document.      *)
(***************************************************************************)
EXTENDS Integers, Sequences

CONSTANTS Tasks, Urls, Documents, MaxAges,
          MaxStaleness    \* a document superseded this long ago is never read

VARIABLES clock,          \* seconds
          published,      \* published[u]: every publication at u, oldest first
          reads           \* reads[t]: the latest read of task t

vars == <<clock, published, reads>>

NoVersion == 0            \* the version of a read that is open or failed

Current(u, v) == v = Len(published[u])

\* Version v of u was still published less than MaxStaleness before `since`.
Acceptable(u, v, since) ==
  /\ v \in 1..Len(published[u])
  /\ ~Current(u, v) => since < published[u][v + 1].from + MaxStaleness

Init ==
  /\ clock = 0
  /\ published = [u \in Urls |-> <<>>]
  /\ \E u \in Urls :
       reads = [t \in Tasks |->
                  [status |-> "closed", url |-> u, since |-> 0, version |-> NoVersion]]

Begin(t, u) ==
  /\ reads[t].status = "closed"
  /\ reads' = [reads EXCEPT ![t] =
                 [status |-> "open", url |-> u, since |-> clock, version |-> NoVersion]]
  /\ UNCHANGED <<clock, published>>

Answer(t, v) ==
  /\ reads[t].status = "open"
  /\ Acceptable(reads[t].url, v, reads[t].since)
  /\ reads' = [reads EXCEPT ![t] =
                 [status |-> "closed", url |-> @.url, since |-> @.since, version |-> v]]
  /\ UNCHANGED <<clock, published>>

Fail(t) ==
  /\ reads[t].status = "open"
  /\ reads' = [reads EXCEPT ![t] = [@ EXCEPT !.status = "closed"]]
  /\ UNCHANGED <<clock, published>>

AnswerAtOnce(t, u, v) ==
  /\ reads[t].status = "closed"
  /\ Acceptable(u, v, clock)
  /\ reads' = [reads EXCEPT ![t] =
                 [status |-> "closed", url |-> u, since |-> clock, version |-> v]]
  /\ UNCHANGED <<clock, published>>

Publish(u, d, m) ==
  /\ published' = [published EXCEPT ![u] =
                     Append(@, [doc |-> d, max_age |-> m, from |-> clock])]
  /\ UNCHANGED <<clock, reads>>

Tick ==
  /\ clock' = clock + 1
  /\ UNCHANGED <<published, reads>>

Next ==
  \/ \E t \in Tasks, u \in Urls : Begin(t, u)
  \/ \E t \in Tasks : Fail(t)
  \/ \E t \in Tasks : \E v \in 1..Len(published[reads[t].url]) : Answer(t, v)
  \/ \E t \in Tasks, u \in Urls :
       \E v \in 1..Len(published[u]) : AnswerAtOnce(t, u, v)
  \/ \E u \in Urls, d \in Documents, m \in MaxAges : Publish(u, d, m)
  \/ Tick

Spec == Init /\ [][Next]_vars
=============================================================================
