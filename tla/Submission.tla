----------------------------- MODULE Submission -----------------------------
(***************************************************************************)
(* What the author of events may conclude from a call of a client that     *)
(* submits them: a call that returns tells which events it has appended;   *)
(* one that is refused has appended nothing and never will; one that ends  *)
(* unclear may have appended any of its events, or may still do so.        *)
(***************************************************************************)
EXTENDS Sequences

CONSTANTS Tasks,
          Objects,
          Batches       \* sets of events that may be submitted together

VARIABLES chain,        \* chain[o]: the names of the events appended to o
          submissions,  \* submissions[t]: the latest submission of task t
          late          \* events of unclear submissions, still to be processed

vars == <<chain, submissions, late>>

\* e.on is the chain that e was signed on, which its previous_hash fixes.
Fits(e) == chain[e.object] = e.on

Extended(e) == [chain EXCEPT ![e.object] = Append(@, e.name)]

Init ==
  /\ chain = [o \in Objects |-> <<>>]
  /\ submissions = [t \in Tasks |->
                      [status |-> "none", events |-> {}, appended |-> {}, told |-> {}]]
  /\ late = {}

Replace(t, submission) == submissions' = [submissions EXCEPT ![t] = submission]

Continue(t, status, appended, told) ==
  Replace(t, [status |-> status, events |-> submissions[t].events,
              appended |-> appended, told |-> told])

Submit(t, events) ==
  /\ submissions[t].status # "open"
  /\ Replace(t, [status |-> "open", events |-> events, appended |-> {}, told |-> {}])
  /\ UNCHANGED <<chain, late>>

AppendEvent(t, e) ==
  /\ submissions[t].status = "open"
  /\ e \in submissions[t].events \ submissions[t].appended
  /\ Fits(e)
  /\ chain' = Extended(e)
  /\ Continue(t, "open", submissions[t].appended \cup {e}, {})
  /\ UNCHANGED late

\* An event that a submission left behind is appended, or is not.
ProcessLate(e) ==
  /\ e \in late
  /\ late' = late \ {e}
  /\ \/ Fits(e) /\ chain' = Extended(e)
     \/ UNCHANGED chain
  /\ UNCHANGED submissions

Tell(t) ==
  /\ submissions[t].status = "open"
  /\ Continue(t, "told", submissions[t].appended, submissions[t].appended)
  /\ UNCHANGED <<chain, late>>

Refuse(t) ==
  /\ submissions[t].status = "open" /\ submissions[t].appended = {}
  /\ Continue(t, "refused", {}, {})
  /\ UNCHANGED <<chain, late>>

GiveUp(t, left) ==
  /\ submissions[t].status = "open" /\ left \subseteq submissions[t].events
  /\ Continue(t, "unclear", submissions[t].appended, {})
  /\ late' = late \cup left
  /\ UNCHANGED chain

\* Refused before anything was sent.
RefuseAtOnce(t) ==
  /\ submissions[t].status # "open"
  /\ Replace(t, [status |-> "refused", events |-> {}, appended |-> {}, told |-> {}])
  /\ UNCHANGED <<chain, late>>

Next ==
  \/ \E t \in Tasks : Tell(t) \/ Refuse(t) \/ RefuseAtOnce(t)
  \/ \E t \in Tasks, events \in Batches : Submit(t, events)
  \/ \E t \in Tasks : \E e \in submissions[t].events : AppendEvent(t, e)
  \/ \E t \in Tasks : \E left \in SUBSET submissions[t].events : GiveUp(t, left)
  \/ \E e \in late : ProcessLate(e)

Spec == Init /\ [][Next]_vars
=============================================================================
