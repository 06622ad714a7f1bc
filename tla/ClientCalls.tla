----------------------------- MODULE ClientCalls -----------------------------
(***************************************************************************)
(* phip.client.Client and phip.async_client.AsyncClient: calls of several  *)
(* tasks, from the arguments to the value or the exception, over a network *)
(* that loses, delays, redirects and mangles, to a resolver that appends   *)
(* events to the objects' chains.  The two classes have the same control;  *)
(* AsyncClient's tasks interleave at the one await of _request.            *)
(*                                                                         *)
(* Resolver, gateways and httpx are external.  The resolver is honest: it  *)
(* appends what fits the chain, unless it refuses, and says what it did.   *)
(***************************************************************************)
EXTENDS Integers, Sequences, FiniteSets

CONSTANTS Tasks, Objects,
          Operations,           \* Operations[t]: what task t calls
          Names,                \* event_ids
          Refusals,             \* codes that the resolver uses
          GatewayStatuses,      \* statuses of answers that are not the resolver's
          Mangled,              \* bodies that gateways put in place of the right one
          RedirectTargets,      \* where a POST that becomes a GET is sent
          MaxLength,            \* bound: length of a chain
          MaxLate               \* bound: events of abandoned requests

\* The subclasses of PhipError by code, with their statuses.  A class is named by
\* its code, and PhipError itself by "PHIP_ERROR".
Registry ==
  [INVALID_SIGNATURE |-> 401, KEY_NOT_FOUND |-> 401, KEY_EXPIRED |-> 401,
   MISSING_CAPABILITY |-> 403, INVALID_CAPABILITY |-> 403, ACCESS_DENIED |-> 403,
   FOREIGN_NAMESPACE |-> 403, OBJECT_NOT_FOUND |-> 404, OPERATION_NOT_SUPPORTED |-> 405,
   OBJECT_EXISTS |-> 409, CHAIN_CONFLICT |-> 409, DUPLICATE_EVENT |-> 409,
   TERMINAL_STATE |-> 409, INVALID_OBJECT |-> 422, INVALID_EVENT |-> 422,
   INVALID_TRANSITION |-> 422, INVALID_TRACK |-> 422, INVALID_RELATION |-> 422,
   DANGLING_RELATION |-> 422, INVALID_QUERY |-> 422]

DefaultStatus == 500            \* PhipError.status
PhipErrors == {"PHIP_ERROR"} \cup DOMAIN Registry

Singles == {"create", "push"}
BatchOps == {"batch_create", "batch_push"}
Reads == {"get", "query", "meta"}      \* "get" stands for all the reads by GET

ASSUME OperationAssumption == Operations \in [Tasks -> SUBSET (Singles \cup BatchOps \cup Reads)]

\* e.on is the chain that e was signed on, which its previous_hash fixes.
Events == [object : Objects, name : Names,
           on : UNION {[1..n -> Names] : n \in 0..(MaxLength - 1)}]
Batches == {events \in SUBSET Events : \A d, e \in events : d # e => d.object # e.object}

ASSUME RefusalAssumption == Refusals \subseteq DOMAIN Registry
ASSUME StatusAssumption == GatewayStatuses \subseteq 300..599
ASSUME MangledAssumption == Mangled \subseteq {"empty", "not_json", "undecodable"}
ASSUME TargetAssumption == RedirectTargets \subseteq {"endpoint", "object"}
ASSUME BoundAssumption == MaxLength \in Nat \ {0} /\ MaxLate \in Nat

VARIABLES chain,       \* chain[o]: the names of the events appended to o
          late,        \* events of requests that nobody waits for any more
          calls        \* calls[t]: the latest call of task t

vars == <<chain, late, calls>>

NoResponse == [status |-> 0, body |-> "none", code |-> "none"]
NoOutcome == [kind |-> "none", value |-> "none", status |-> 0]

\* at is where the request, as it has been redirected, is: "operation" where it was
\* meant to go, otherwise a GET there.  todo is what the resolver has yet to process.
Idle == [pc |-> "done", op |-> "get", at |-> "operation", events |-> {}, todo |-> {},
         appended |-> {}, response |-> NoResponse, outcome |-> NoOutcome]

Init ==
  /\ chain = [o \in Objects |-> <<>>]
  /\ late = {}
  /\ calls = [t \in Tasks |-> Idle]

-----------------------------------------------------------------------------
(* The client *)

Returned(value) == [kind |-> "returned", value |-> value, status |-> 0]
Raised(class, status) == [kind |-> "raised", value |-> class, status |-> status]

\* Mutant of FromEnvelope: an error's class is named by any code, registered or not.
FromEnvelopeUnregistered(code, status) == Raised(code, status)

\* from_envelope, for the status of the response.  A code that is a list or an
\* object cannot be looked up.
FromEnvelope(code, status) ==
  IF code = "unhashable" THEN Raised("TypeError", 0)
  ELSE Raised(IF code \in DOMAIN Registry THEN code ELSE "PHIP_ERROR", status)

\* Mutant of OkStatuses: redirects pass for successes.
OkStatusesWithRedirects(op) == IF op \in BatchOps THEN 200..399 \cup {422} ELSE 200..399

\* Mutant of OkStatuses: the batch operations do not pass allowed_status on.
OkStatusesOfSingles(op) == {200, 201}

\* allowed_status, 200 and 201 by default.
OkStatuses(op) == IF op \in BatchOps THEN {200, 207, 422} ELSE {200, 201}

\* Mutant of Unreadable: the error is given the status of the answer.
UnreadableWithStatus(status) == Raised("PHIP_ERROR", status)

\* The body of an allowed status is not JSON: the error's status is not set.
Unreadable(status) == Raised("PHIP_ERROR", DefaultStatus)

\* _handle_response.  The decoder of a body that is not in a JSON encoding raises
\* what no clause catches.
HandleResponse(op, response) ==
  LET ok == response.status \in OkStatuses(op) IN
  CASE response.body = "undecodable" -> Raised("UnicodeDecodeError", 0)
    [] ok /\ response.body = "empty" -> Returned("None")
    [] ok /\ response.body = "not_json" -> Unreadable(response.status)
    [] ~ok /\ response.body = "envelope" -> FromEnvelope(response.code, response.status)
    [] ~ok /\ response.body \notin {"undecodable", "envelope"} ->
         Raised("PHIP_ERROR", response.status)
    [] OTHER -> Returned(response.body)

\* Mutant of TransportError: a timeout is reported as what the protocol calls it.
TransportErrorAsTimeout == Raised("PHIP_ERROR", 408)

\* httpx.RequestError, of any kind.
TransportError == Raised("PHIP_ERROR", DefaultStatus)

\* meta turns a 404 into an empty document.
OutcomeFor(op, outcome) ==
  IF op = "meta" /\ outcome.value \in PhipErrors /\ outcome.status = 404
  THEN Returned("{}") ELSE outcome

\* Events signed on any beginning of a chain, which their author has read at some time.
SignedOn(events) ==
  \A e \in events : Len(e.on) <= Len(chain[e.object]) /\ e.on = SubSeq(chain[e.object], 1, Len(e.on))

Arguments(op) ==
  {events \in Batches :
     /\ op \in Reads <=> events = {}
     /\ op \in Singles => Cardinality(events) = 1
     /\ SignedOn(events)}

\* The request is on its way.
Begin(t, op, events) ==
  /\ calls[t].pc = "done"
  /\ calls' = [calls EXCEPT ![t] =
       [Idle EXCEPT !.pc = "sent", !.op = op, !.events = events, !.todo = events]]
  /\ UNCHANGED <<chain, late>>

\* _split_local and _namespace_of refuse a phip_id before anything is sent.
BeginRefused(t, op) ==
  /\ calls[t].pc = "done" /\ op \in Singles \cup {"get"}
  /\ calls' = [calls EXCEPT ![t] = [Idle EXCEPT !.op = op, !.outcome = Raised("ValueError", 0)]]
  /\ UNCHANGED <<chain, late>>

\* The call ends; what the resolver has not processed yet may still be.
End(t, outcome) ==
  /\ Cardinality(late \cup calls[t].todo) <= MaxLate
  /\ calls' = [calls EXCEPT ![t] =
       [@ EXCEPT !.pc = "done", !.at = "operation", !.todo = {}, !.response = NoResponse,
                 !.outcome = OutcomeFor(calls[t].op, outcome)]]
  /\ late' = late \cup calls[t].todo
  /\ UNCHANGED chain

Receive(t) ==
  /\ calls[t].pc = "answered"
  /\ End(t, HandleResponse(calls[t].op, calls[t].response))

\* Unreachable, timed out, redirected too often, broken off before the whole answer is there.
TransportFails(t) ==
  /\ calls[t].pc \in {"sent", "answered"}
  /\ End(t, TransportError)

-----------------------------------------------------------------------------
(* httpx, the resolver and the gateways *)

Answer(t, todo, status, body, code) ==
  /\ calls[t].pc = "sent"
  /\ calls' = [calls EXCEPT ![t] =
       [@ EXCEPT !.pc = "answered", !.todo = todo,
                 !.response = [status |-> status, body |-> body, code |-> code]]]
  /\ UNCHANGED <<chain, late>>

Untouched(t) == calls[t].todo = calls[t].events /\ calls[t].appended = {}

\* With follow_redirects, httpx sends a POST on as the same POST after a 307 or 308,
\* which changes nothing here, and after any other redirect as a GET without a body.
Redirect(t, target) ==
  /\ calls[t].pc = "sent" /\ calls[t].at = "operation" /\ Untouched(t)
  /\ calls[t].op \notin {"get", "meta"}
  /\ calls' = [calls EXCEPT ![t] = [@ EXCEPT !.at = target, !.todo = {}]]
  /\ UNCHANGED <<chain, late>>

\* The resolver goes on although the answer has already been given by a gateway.
AppendEvent(t, e) ==
  /\ calls[t].pc \in {"sent", "answered"}
  /\ e \in calls[t].todo
  /\ e.on = chain[e.object]
  /\ chain' = [chain EXCEPT ![e.object] = Append(@, e.name)]
  /\ calls' = [calls EXCEPT ![t] =
       [@ EXCEPT !.todo = calls[t].todo \ {e}, !.appended = calls[t].appended \cup {e}]]
  /\ UNCHANGED late

\* One event of a batch is refused, and the others are not.
RejectOfBatch(t, e) ==
  /\ calls[t].pc = "sent" /\ calls[t].op \in BatchOps
  /\ e \in calls[t].todo
  /\ calls' = [calls EXCEPT ![t] = [@ EXCEPT !.todo = calls[t].todo \ {e}]]
  /\ UNCHANGED <<chain, late>>

\* A whole request is refused; what is sent to an endpoint by GET always is.
ResolverRefuses(t, code, mangled) ==
  /\ \/ calls[t].at = "operation" /\ Untouched(t)
     \/ calls[t].at = "endpoint" /\ code = "OPERATION_NOT_SUPPORTED"
  /\ Answer(t, {}, Registry[code], IF mangled = "none" THEN "envelope" ELSE mangled, code)

\* What the resolver says of a request that it has processed.
ProperAnswer(call) ==
  CASE call.at = "object" -> [status |-> 200, body |-> "object"]
    [] call.at # "object" /\ call.op \in Reads -> [status |-> 200, body |-> "value"]
    [] call.at # "object" /\ call.op \in Singles -> [status |-> 201, body |-> "value"]
    [] OTHER -> [status |-> CASE call.appended = call.events -> 200
                              [] call.appended = {} -> 422
                              [] OTHER -> 207,
                 body |-> "results"]

ResolverAnswers(t, mangled) ==
  /\ calls[t].at \in {"operation", "object"}
  /\ calls[t].todo = {}
  /\ LET proper == ProperAnswer(calls[t])
     IN Answer(t, {}, proper.status, IF mangled = "none" THEN proper.body ELSE mangled, "none")

\* A gateway answers for itself.  It does not forward what it refuses, but when it
\* reports a failure the resolver may have the request.  A redirect is an answer
\* when follow_redirects is off or it does not say where to.
GatewayAnswers(t, status, body, code) ==
  /\ status < 500 => Untouched(t)
  /\ Answer(t, IF status < 500 THEN {} ELSE calls[t].todo, status, body, code)

\* An event of an abandoned request is appended, or is not.
ProcessLate(e) ==
  /\ e \in late
  /\ late' = late \ {e}
  /\ \/ e.on = chain[e.object] /\ chain' = [chain EXCEPT ![e.object] = Append(@, e.name)]
     \/ UNCHANGED chain
  /\ UNCHANGED calls

EnvelopeCodes == {"UNKNOWN", "unhashable"}   \* of envelopes that no PhIP resolver sends

Next ==
  \/ \E t \in Tasks : \E op \in Operations[t] : \E events \in Arguments(op) : Begin(t, op, events)
  \/ \E t \in Tasks : \E op \in Operations[t] : BeginRefused(t, op)
  \/ \E t \in Tasks : Receive(t) \/ TransportFails(t)
  \/ \E t \in Tasks, target \in RedirectTargets : Redirect(t, target)
  \/ \E t \in Tasks : \E e \in calls[t].todo : AppendEvent(t, e) \/ RejectOfBatch(t, e)
  \/ \E t \in Tasks, code \in Refusals, mangled \in Mangled \cup {"none"} :
       ResolverRefuses(t, code, mangled)
  \/ \E t \in Tasks, mangled \in Mangled \cup {"none"} : ResolverAnswers(t, mangled)
  \/ \E t \in Tasks, status \in GatewayStatuses, body \in Mangled :
       GatewayAnswers(t, status, body, "none")
  \/ \E t \in Tasks, status \in GatewayStatuses, code \in EnvelopeCodes :
       GatewayAnswers(t, status, "envelope", code)
  \/ \E e \in late : ProcessLate(e)

Spec == Init /\ [][Next]_vars

-----------------------------------------------------------------------------
(* Properties *)

Statuses == {0} \cup 200..599

Classes == PhipErrors \cup {"ValueError", "UnicodeDecodeError", "TypeError"}
Values == {"none", "None", "value", "object", "results", "envelope", "{}"}

Outcomes == [kind : {"none", "returned", "raised"}, value : Classes \cup Values, status : Statuses]

Responses ==
  [status : Statuses, body : Mangled \cup {"none", "envelope", "value", "object", "results"},
   code : {"none"} \cup EnvelopeCodes \cup DOMAIN Registry]

CallRecords ==
  [pc : {"sent", "answered", "done"}, op : Singles \cup BatchOps \cup Reads,
   at : {"operation", "endpoint", "object"},
   events : SUBSET Events, todo : SUBSET Events, appended : SUBSET Events,
   response : Responses, outcome : Outcomes]

\* What a call has appended and what it has left to do are events of its own.
TypeOK ==
  /\ chain \in [Objects -> Seq(Names)]
  /\ late \subseteq Events
  /\ calls \in [Tasks -> CallRecords]
  /\ \A t \in Tasks : calls[t].todo \cup calls[t].appended \subseteq calls[t].events

\* A create or push that returns has appended its event in this very call: no
\* refusal, failure or answer to another request passes for a success.
ReturnedIsAppended ==
  \A t \in Tasks : LET call == calls[t] IN
    call.op \in Singles /\ call.outcome.kind = "returned" => call.appended = call.events

\* An error with a status below 500 is a refusal, whatever was lost, redirected or
\* mangled: nothing was appended by the call, so sending the events again is safe.
\* The errors whose status is 500 or more include all those that leave it open.
ErrorBelow500IsRefusal ==
  \A t \in Tasks : LET outcome == calls[t].outcome IN
    outcome.kind = "raised" /\ outcome.value \in PhipErrors /\ outcome.status < 500
      => calls[t].appended = {}

\* "All 4xx/5xx responses are converted to typed PhipError subclasses" (client.py:14),
\* but for the 422 that batches return and the 404 that meta takes for an empty document.
ErrorResponsesBecomePhipErrors ==
  [][\A t \in Tasks :
       /\ Receive(t)
       /\ calls[t].response.status >= 400
       /\ calls[t].response.status \notin OkStatuses(calls[t].op)
       => calls'[t].outcome \in {Returned("{}")} \cup {Raised(class, calls[t].response.status) : class \in PhipErrors}]_vars

(* What a call tells its caller about the events, as the abstract submission. *)

Refuses(outcome) ==
  /\ outcome.kind = "raised"
  /\ \/ outcome.value = "ValueError"
     \/ outcome.value \in PhipErrors /\ outcome.status < 500

Tells(op, outcome) ==
  outcome.kind = "returned" /\ ~(op \in BatchOps /\ outcome.value = "None")

Status(call) ==
  CASE call.pc # "done" -> "open"
    [] call.pc = "done" /\ call.outcome.kind = "none" -> "none"
    [] call.pc = "done" /\ Tells(call.op, call.outcome) -> "told"
    [] call.pc = "done" /\ Refuses(call.outcome) -> "refused"
    [] OTHER -> "unclear"

\* A create or push that returned has appended its event; the results of a batch
\* name those that were appended; the error envelope of a batch says that none were.
Told(call) ==
  CASE Status(call) # "told" -> {}
    [] Status(call) = "told" /\ call.op \in Singles -> call.events
    [] OTHER -> IF call.outcome.value = "results" THEN call.appended ELSE {}

SubmissionOf(call) == [status |-> Status(call), events |-> call.events,
                       appended |-> call.appended, told |-> Told(call)]

submissions == [t \in Tasks |-> SubmissionOf(calls[t])]

Abstract == INSTANCE Submission

\* The calls implement submissions: told, refused or unclear.
ImplementsSubmission == Abstract!Spec
=============================================================================
