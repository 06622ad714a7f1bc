-------------------------- MODULE ClientCallsProofs --------------------------
(***************************************************************************)
(* Proofs about ClientCalls, for any tasks, objects, names and bounds: the *)
(* type invariant, what a return and what an error mean to the caller, and *)
(* that the calls implement the abstract submissions.                      *)
(***************************************************************************)
EXTENDS ClientCalls, TLAPS

\* No redirect leads a POST to an object: the one assumption about the network
\* without which a create or push can return although nothing was appended.
RedirectsStay == "object" \notin RedirectTargets

\* A request that was redirected to a GET has nothing to do and has done nothing; a
\* create or push where it was meant to go has appended what it does not have to do.
SentInv(call) ==
  call.pc = "sent" =>
    /\ RedirectsStay => call.at # "object"
    /\ call.at # "operation" => call.todo = {} /\ call.appended = {}
    /\ call.at = "operation" /\ call.op \in Singles => call.events \subseteq call.todo \cup call.appended

\* What the answer says of the events, below the statuses that say nothing.
AnsweredInv(call) ==
  call.pc = "answered" =>
    /\ call.response.status < 500 => call.todo = {}
    /\ call.response.status < 500 /\ call.response.body = "envelope" => call.appended = {}
    /\ call.response.status < 500 /\ call.response.status \notin OkStatuses(call.op) => call.appended = {}
    /\ RedirectsStay /\ call.op \in Singles /\ call.response.status \in {200, 201}
         => call.appended = call.events
    /\ call.response.status < 500 /\ call.op \in BatchOps
       /\ call.response.body \notin Mangled \cup {"results", "envelope"}
         => call.appended = {}

\* What an ended call tells its caller.
DoneInv(call) ==
  call.pc = "done" => call.todo = {}

CallInv(call) ==
  /\ call.todo \cup call.appended \subseteq call.events
  /\ call.todo \cap call.appended = {}
  /\ call.op \in Reads => call.events = {}
  /\ SentInv(call)
  /\ AnsweredInv(call)
  /\ DoneInv(call)
  /\ RedirectsStay /\ call.op \in Singles /\ call.outcome.kind = "returned"
       => call.appended = call.events
  /\ call.outcome.kind = "raised" /\ call.outcome.value \in PhipErrors /\ call.outcome.status < 500
       => call.appended = {}
  /\ call.op \notin Singles /\ call.outcome.kind = "returned"
       /\ call.outcome.value \notin {"None", "results"} => call.appended = {}
  /\ call.pc # "done" => call.outcome.kind = "none"

IInv == TypeOK /\ \A t \in Tasks : CallInv(calls[t])

-----------------------------------------------------------------------------
(* Facts about the data *)

\* A refusal is reported with a status from 401 to 422.
LEMMA RegistryStatus == \A code \in DOMAIN Registry : Registry[code] \in 401..422
  BY DEF Registry

\* What is not a PhipError is none, and no value is taken for one.
LEMMA ErrorNames ==
  /\ "PHIP_ERROR" \in PhipErrors /\ PhipErrors \subseteq Classes
  /\ PhipErrors \cap {"ValueError", "UnicodeDecodeError", "TypeError"} = {}
  /\ {"ValueError", "UnicodeDecodeError", "TypeError"} \subseteq Classes
<1>1. DOMAIN Registry \cap {"ValueError", "UnicodeDecodeError", "TypeError"} = {}
  BY DEF Registry
<1> QED BY <1>1 DEF PhipErrors, Classes

LEMMA IdleTyped == Idle \in CallRecords /\ CallInv(Idle)
<1>1. NoResponse \in Responses
  BY DEF NoResponse, Responses, Statuses
<1>2. NoOutcome \in Outcomes
  <2>1. "none" \in Classes \cup Values /\ 0 \in Statuses
    BY DEF Values, Statuses
  <2> QED BY <2>1 DEF NoOutcome, Outcomes
<1>3. Idle \in CallRecords
  BY <1>1, <1>2 DEF Idle, CallRecords, Singles, BatchOps, Reads
<1>4. CallInv(Idle)
  BY DEF Idle, CallInv, SentInv, AnsweredInv, DoneInv, NoOutcome, Singles, BatchOps, Reads
<1> QED BY <1>3, <1>4

\* The two kinds of outcomes, field by field.
LEMMA ReturnedTyped ==
  ASSUME NEW value \in Values
  PROVE  /\ Returned(value) \in Outcomes
         /\ Returned(value).kind = "returned" /\ Returned(value).value = value
  BY DEF Returned, Outcomes, Statuses

LEMMA RaisedTyped ==
  ASSUME NEW class \in Classes, NEW status \in Statuses
  PROVE  /\ Raised(class, status) \in Outcomes
         /\ Raised(class, status).kind = "raised" /\ Raised(class, status).value = class
         /\ Raised(class, status).status = status
  BY DEF Raised, Outcomes

\* An action that replaces the call of one task needs to be looked at there only.
LEMMA OneCall ==
  ASSUME IInv, NEW t \in Tasks, NEW new \in CallRecords, CallInv(new),
         calls' = [calls EXCEPT ![t] = new],
         chain' \in [Objects -> Seq(Names)], late' \subseteq Events
  PROVE  IInv'
<1>1. calls' \in [Tasks -> CallRecords]
  BY DEF IInv, TypeOK
<1>2. \A s \in Tasks : CallInv(calls'[s])
  BY DEF IInv, TypeOK
<1>3. \A s \in Tasks : calls'[s].todo \cup calls'[s].appended \subseteq calls'[s].events
  BY <1>2 DEF CallInv
<1>4. TypeOK'
  BY <1>1, <1>3 DEF TypeOK
<1>5. (\A s \in Tasks : CallInv(calls[s]))'
  BY <1>2 DEF CallInv, SentInv, AnsweredInv, DoneInv
<1> QED BY <1>4, <1>5 DEF IInv

\* An event that fits makes its chain longer.
LEMMA ChainTyped ==
  ASSUME IInv, NEW e \in Events
  PROVE  [chain EXCEPT ![e.object] = Append(@, e.name)] \in [Objects -> Seq(Names)]
<1>1. e.object \in Objects /\ e.name \in Names
  BY DEF Events
<1> QED BY <1>1 DEF IInv, TypeOK

LEMMA Initially == Init => IInv
<1> SUFFICES ASSUME Init PROVE IInv
  OBVIOUS
<1>1. calls \in [Tasks -> CallRecords] /\ \A t \in Tasks : calls[t] = Idle
  BY IdleTyped DEF Init
<1>2. \A t \in Tasks : CallInv(calls[t])
  BY <1>1, IdleTyped
<1>3. \A t \in Tasks : calls[t].todo \cup calls[t].appended \subseteq calls[t].events
  BY <1>2 DEF CallInv
<1>4. chain \in [Objects -> Seq(Names)] /\ late \subseteq Events
  BY DEF Init
<1> QED BY <1>1, <1>2, <1>3, <1>4 DEF IInv, TypeOK

-----------------------------------------------------------------------------
(* The steps of the client *)

LEMMA BeginStep ==
  ASSUME IInv, NEW t \in Tasks, NEW op \in Operations[t], NEW events \in Arguments(op),
         Begin(t, op, events)
  PROVE  IInv'
<1> DEFINE new == [Idle EXCEPT !.pc = "sent", !.op = op, !.events = events, !.todo = events]
<1>1. op \in Singles \cup BatchOps \cup Reads
  BY OperationAssumption
<1>2. events \subseteq Events /\ (op \in Reads <=> events = {})
  BY DEF Arguments, Batches
<1>3. new \in CallRecords
  BY <1>1, <1>2, IdleTyped DEF Idle, CallRecords
<1>4. CallInv(new)
  BY <1>1, <1>2 DEF Idle, CallInv, SentInv, AnsweredInv, DoneInv, NoOutcome
<1>5. calls' = [calls EXCEPT ![t] = new] /\ UNCHANGED <<chain, late>>
  BY DEF Begin
<1> HIDE DEF new
<1> QED BY <1>3, <1>4, <1>5, OneCall DEF IInv, TypeOK

LEMMA BeginRefusedStep ==
  ASSUME IInv, NEW t \in Tasks, NEW op \in Operations[t], BeginRefused(t, op)
  PROVE  IInv'
<1> DEFINE new == [Idle EXCEPT !.op = op, !.outcome = Raised("ValueError", 0)]
<1>1. op \in Singles \cup {"get"}
  BY DEF BeginRefused
<1>2. Raised("ValueError", 0) \in Outcomes
  BY RaisedTyped, ErrorNames DEF Statuses
<1>3. new \in CallRecords
  BY <1>1, <1>2, IdleTyped DEF Idle, CallRecords, Reads
<1>4. CallInv(new)
  BY <1>1 DEF Idle, CallInv, SentInv, AnsweredInv, DoneInv, Raised, Singles, Reads
<1>5. calls' = [calls EXCEPT ![t] = new] /\ UNCHANGED <<chain, late>>
  BY DEF BeginRefused
<1> HIDE DEF new
<1> QED BY <1>3, <1>4, <1>5, OneCall DEF IInv, TypeOK

\* What ends a call says something true of it.
Truthful(call, outcome) ==
  /\ call.op \in Singles /\ outcome.kind = "returned"
       => (RedirectsStay => call.appended = call.events) /\ call.todo = {}
  /\ call.op \notin Singles /\ outcome.kind = "returned" /\ outcome.value \notin {"None"}
       => call.todo = {}
  /\ outcome.kind = "raised" /\ outcome.value \in PhipErrors /\ outcome.status < 500
       => call.appended = {} /\ call.todo = {}
  /\ call.op \notin Singles /\ outcome.kind = "returned"
       /\ outcome.value \notin {"None", "results"} => call.appended = {}
  /\ outcome.kind # "none" /\ outcome.value # "ValueError"

\* Errors of status 500, and those that are no PhipError, leave everything open.
LEMMA InconclusiveTruthful ==
  ASSUME NEW call, NEW class \in {"PHIP_ERROR", "TypeError", "UnicodeDecodeError"},
         NEW status \in {0, 500}, class = "PHIP_ERROR" => status = 500
  PROVE  Raised(class, status) \in Outcomes /\ Truthful(call, Raised(class, status))
<1> DEFINE out == Raised(class, status)
<1>1. class \in Classes /\ (class \in PhipErrors => class = "PHIP_ERROR")
  BY ErrorNames
<1>2. status \in Statuses
  BY DEF Statuses
<1>3. out \in Outcomes /\ out.kind = "raised" /\ out.value = class /\ out.status = status
  BY <1>1, <1>2, RaisedTyped
<1> HIDE DEF out
<1>4. Truthful(call, out)
  BY <1>1, <1>3 DEF Truthful
<1> QED BY <1>3, <1>4 DEF out

\* Neither a broken connection nor any answer makes a call say what is not so.
LEMMA TransportErrorTruthful ==
  ASSUME NEW call PROVE TransportError \in Outcomes /\ Truthful(call, TransportError)
<1>1. TransportError = Raised("PHIP_ERROR", 500)
  BY DEF TransportError, DefaultStatus
<1>2. Raised("PHIP_ERROR", 500) \in Outcomes /\ Truthful(call, Raised("PHIP_ERROR", 500))
  BY InconclusiveTruthful
<1> QED BY <1>1, <1>2

LEMMA HandleResponseTruthful ==
  ASSUME NEW call \in CallRecords, CallInv(call), call.pc = "answered"
  PROVE  /\ HandleResponse(call.op, call.response) \in Outcomes
         /\ Truthful(call, HandleResponse(call.op, call.response))
<1> DEFINE response == call.response
           out == HandleResponse(call.op, response)
           ok == response.status \in OkStatuses(call.op)
<1>1. /\ response.status \in Statuses /\ response.code \in {"none"} \cup EnvelopeCodes \cup DOMAIN Registry
      /\ response.body \in Mangled \cup {"none", "envelope", "value", "object", "results"}
  BY DEF CallRecords, Responses
<1>2. AnsweredInv(call) /\ CallInv(call)
  BY DEF CallInv
<1>3. ok => response.status \in 200..499
  BY DEF OkStatuses
<1>4. call.op \in Singles => call.op \notin BatchOps
  BY DEF Singles, BatchOps
<1>5. CASE response.body = "undecodable"
  <2>1. out = Raised("UnicodeDecodeError", 0)
    BY <1>5 DEF HandleResponse
  <2>2. Raised("UnicodeDecodeError", 0) \in Outcomes /\ Truthful(call, Raised("UnicodeDecodeError", 0))
    BY InconclusiveTruthful
  <2> QED BY <2>1, <2>2
<1>6. CASE response.body # "undecodable" /\ ok /\ response.body = "not_json"
  <2>1. out = Raised("PHIP_ERROR", 500)
    BY <1>6 DEF HandleResponse, Unreadable, DefaultStatus
  <2>2. Raised("PHIP_ERROR", 500) \in Outcomes /\ Truthful(call, Raised("PHIP_ERROR", 500))
    BY InconclusiveTruthful
  <2> QED BY <2>1, <2>2
<1>7. CASE response.body # "undecodable" /\ ok /\ response.body # "not_json"
  <2>1. out = Returned(IF response.body = "empty" THEN "None" ELSE response.body)
    BY <1>7 DEF HandleResponse
  <2>2. response.body \in {"empty", "none", "envelope", "value", "object", "results"}
    BY <1>1, <1>7, MangledAssumption
  <2>3. out \in Outcomes
    BY <2>1, <2>2, ReturnedTyped DEF Values
  <2>4. call.todo = {}
    BY <1>2, <1>3, <1>7 DEF AnsweredInv
  <2>5. RedirectsStay /\ call.op \in Singles => call.appended = call.events
    BY <1>2, <1>4, <1>7 DEF AnsweredInv, OkStatuses
  <2>6. call.op \notin Singles /\ response.body \notin {"empty", "results"} => call.appended = {}
    <3>1. CASE call.op \in BatchOps
      BY <3>1, <1>2, <1>3, <1>7, <2>2, MangledAssumption DEF AnsweredInv
    <3>2. CASE call.op \in Reads
      BY <3>2, <1>2 DEF CallInv
    <3> QED BY <3>1, <3>2 DEF CallRecords
  <2>7. out.kind = "returned" /\ out.value # "ValueError"
        /\ (out.value \in {"None", "results"} <=> response.body \in {"empty", "results"})
    BY <2>1, <2>2, ReturnedTyped DEF Values
  <2> QED BY <2>3, <2>4, <2>5, <2>6, <2>7 DEF Truthful
<1>8. CASE response.body # "undecodable" /\ ~ok
  <2>1. \/ out = Raised("TypeError", 0)
        \/ \E class \in PhipErrors : out = Raised(class, response.status)
    BY <1>8 DEF HandleResponse, FromEnvelope, PhipErrors
  <2>2. CASE out = Raised("TypeError", 0)
    <3>1. Raised("TypeError", 0) \in Outcomes /\ Truthful(call, Raised("TypeError", 0))
      BY InconclusiveTruthful
    <3> QED BY <2>2, <3>1
  <2>3. CASE \E class \in PhipErrors : out = Raised(class, response.status)
    <3>1. response.status < 500 => call.appended = {} /\ call.todo = {}
      BY <1>2, <1>8 DEF AnsweredInv
    <3>3. PICK class \in PhipErrors : out = Raised(class, response.status)
      BY <2>3
    <3>4. class \in Classes /\ class # "ValueError"
      BY ErrorNames
    <3>5. out \in Outcomes /\ out.kind = "raised" /\ out.value = class /\ out.status = response.status
      BY <3>3, <3>4, <1>1, RaisedTyped
    <3> QED BY <3>1, <3>4, <3>5 DEF Truthful
  <2> QED BY <2>1, <2>2, <2>3
<1> QED BY <1>5, <1>6, <1>7, <1>8

\* The document that meta puts in place of a 404 concerns no events.
LEMMA MetaTruthful ==
  ASSUME NEW call \in CallRecords, CallInv(call), NEW outcome \in Outcomes, Truthful(call, outcome)
  PROVE  /\ OutcomeFor(call.op, outcome) \in Outcomes
         /\ Truthful(call, OutcomeFor(call.op, outcome))
<1>1. CASE OutcomeFor(call.op, outcome) = outcome
  BY <1>1
<1>2. CASE OutcomeFor(call.op, outcome) # outcome
  <2>1. call.op = "meta" /\ OutcomeFor(call.op, outcome) = [kind |-> "returned", value |-> "{}", status |-> 0]
    BY <1>2 DEF OutcomeFor, Returned
  <2>2. call.op \notin Singles /\ call.events = {}
    BY <2>1 DEF CallInv, Singles, Reads
  <2>3. call.appended = {} /\ call.todo = {}
    BY <2>2 DEF CallInv
  <2>4. OutcomeFor(call.op, outcome) \in Outcomes
    BY <2>1, ReturnedTyped DEF Returned, Values
  <2>5. OutcomeFor(call.op, outcome) = Returned("{}")
    BY <2>1 DEF Returned
  <2>6. Returned("{}").kind = "returned" /\ Returned("{}").value = "{}"
    BY ReturnedTyped DEF Values
  <2> QED BY <2>2, <2>3, <2>4, <2>5, <2>6 DEF Truthful
<1> QED BY <1>1, <1>2

LEMMA EndStep ==
  ASSUME IInv, NEW t \in Tasks, NEW outcome \in Outcomes, calls[t].pc # "done",
         Truthful(calls[t], outcome), End(t, outcome)
  PROVE  IInv'
<1> DEFINE call == calls[t]
           out == OutcomeFor(call.op, outcome)
           new == [call EXCEPT !.pc = "done", !.at = "operation", !.todo = {},
                               !.response = NoResponse, !.outcome = out]
<1>1. call \in CallRecords /\ CallInv(call)
  BY DEF IInv, TypeOK
<1>2. out \in Outcomes /\ Truthful(call, out)
  BY <1>1, MetaTruthful
<1> HIDE DEF out
<1>3. NoResponse \in Responses
  BY DEF NoResponse, Responses, Statuses
<1>4. new \in CallRecords
  BY <1>1, <1>2, <1>3 DEF CallRecords
<1>5. /\ new.pc = "done" /\ new.op = call.op /\ new.events = call.events /\ new.todo = {}
      /\ new.appended = call.appended /\ new.outcome = out
  BY <1>1 DEF CallRecords
<1>6. calls' = [calls EXCEPT ![t] = new] /\ chain' = chain /\ late' \subseteq Events
  BY <1>1 DEF End, IInv, TypeOK, CallRecords, out
<1> HIDE DEF new, call
<1>7. CallInv(new)
  BY <1>1, <1>2, <1>5 DEF CallInv, SentInv, AnsweredInv, DoneInv, Truthful
<1> QED BY <1>4, <1>6, <1>7, OneCall DEF IInv, TypeOK

LEMMA ReceiveStep ==
  ASSUME IInv, NEW t \in Tasks, Receive(t) PROVE IInv'
<1>1. calls[t] \in CallRecords /\ CallInv(calls[t]) /\ calls[t].pc = "answered"
  BY DEF IInv, TypeOK, Receive
<1> QED BY <1>1, HandleResponseTruthful, EndStep DEF Receive

LEMMA TransportFailsStep ==
  ASSUME IInv, NEW t \in Tasks, TransportFails(t) PROVE IInv'
BY TransportErrorTruthful, EndStep DEF TransportFails

-----------------------------------------------------------------------------
(* The steps of httpx, the resolver and the gateways *)

LEMMA RedirectStep ==
  ASSUME IInv, NEW t \in Tasks, NEW target \in RedirectTargets, Redirect(t, target)
  PROVE  IInv'
<1> DEFINE call == calls[t]
           new == [call EXCEPT !.at = target, !.todo = {}]
<1>1. call \in CallRecords /\ CallInv(call)
      /\ target \in {"endpoint", "object"} /\ (RedirectsStay => target # "object")
  BY TargetAssumption DEF IInv, TypeOK, RedirectsStay
<1>2. new \in CallRecords
  BY <1>1 DEF CallRecords
<1>3. /\ new.pc = "sent" /\ new.at = target /\ new.op = call.op /\ new.events = call.events
      /\ new.todo = {} /\ new.appended = call.appended /\ new.outcome = call.outcome
  BY <1>1 DEF CallRecords, Redirect
<1>4. call.appended = {} /\ call.pc = "sent" /\ call.at = "operation"
  BY DEF Redirect, Untouched
<1>5. calls' = [calls EXCEPT ![t] = new] /\ UNCHANGED <<chain, late>>
  BY DEF Redirect
<1> HIDE DEF new, call
<1>6. CallInv(new)
  BY <1>1, <1>3, <1>4 DEF CallInv, SentInv, AnsweredInv, DoneInv
<1> QED BY <1>2, <1>5, <1>6, OneCall DEF IInv, TypeOK

LEMMA AppendEventStep ==
  ASSUME IInv, NEW t \in Tasks, NEW e \in calls[t].todo, AppendEvent(t, e)
  PROVE  IInv'
<1> DEFINE call == calls[t]
           new == [call EXCEPT !.todo = call.todo \ {e}, !.appended = call.appended \cup {e}]
<1>1. call \in CallRecords /\ CallInv(call) /\ e \in call.todo /\ call.pc \in {"sent", "answered"}
  BY DEF IInv, TypeOK, AppendEvent
<1>2. e \in Events
  BY <1>1 DEF CallRecords
<1>3. new \in CallRecords
  BY <1>1, <1>2 DEF CallRecords
<1>4. /\ new.pc = call.pc /\ new.at = call.at /\ new.op = call.op /\ new.events = call.events
      /\ new.todo = call.todo \ {e} /\ new.appended = call.appended \cup {e}
      /\ new.response = call.response /\ new.outcome = call.outcome
  BY <1>1 DEF CallRecords
<1>5. calls' = [calls EXCEPT ![t] = new]
  BY DEF AppendEvent
<1>9. late' = late /\ chain' = [chain EXCEPT ![e.object] = Append(@, e.name)]
  BY DEF AppendEvent
<1> HIDE DEF new, call
<1>6. call.pc = "answered" => call.response.status \in Int /\ ~(call.response.status < 500)
  BY <1>1 DEF CallInv, AnsweredInv, CallRecords, Responses, Statuses
<1>7. CallInv(new)
  BY <1>1, <1>4, <1>6 DEF CallInv, SentInv, AnsweredInv, DoneInv
<1>8. chain' \in [Objects -> Seq(Names)]
  BY <1>2, <1>9, ChainTyped
<1> QED BY <1>9, <1>3, <1>5, <1>7, <1>8, OneCall DEF IInv, TypeOK

LEMMA RejectOfBatchStep ==
  ASSUME IInv, NEW t \in Tasks, NEW e \in calls[t].todo, RejectOfBatch(t, e)
  PROVE  IInv'
<1> DEFINE call == calls[t]
           new == [call EXCEPT !.todo = call.todo \ {e}]
<1>1. call \in CallRecords /\ CallInv(call) /\ call.pc = "sent" /\ call.op \in BatchOps
  BY DEF IInv, TypeOK, RejectOfBatch
<1>2. new \in CallRecords
  BY <1>1 DEF CallRecords
<1>3. /\ new.pc = call.pc /\ new.at = call.at /\ new.op = call.op /\ new.events = call.events
      /\ new.todo = call.todo \ {e} /\ new.appended = call.appended
      /\ new.response = call.response /\ new.outcome = call.outcome
  BY <1>1 DEF CallRecords
<1>4. calls' = [calls EXCEPT ![t] = new] /\ UNCHANGED <<chain, late>>
  BY DEF RejectOfBatch
<1> HIDE DEF new, call
<1>5. CallInv(new)
  BY <1>1, <1>3 DEF CallInv, SentInv, AnsweredInv, DoneInv, Singles, BatchOps
<1> QED BY <1>2, <1>4, <1>5, OneCall DEF IInv, TypeOK

\* An answer preserves the invariant when it is typed and tells the truth.
LEMMA AnswerStep ==
  ASSUME IInv, NEW t \in Tasks, NEW todo \in SUBSET calls[t].todo,
         NEW status \in Statuses, NEW body, NEW code, Answer(t, todo, status, body, code),
         body \in Mangled \cup {"none", "envelope", "value", "object", "results"},
         code \in {"none"} \cup EnvelopeCodes \cup DOMAIN Registry,
         status < 500 => todo = {},
         status < 500 /\ body = "envelope" => calls[t].appended = {},
         status < 500 /\ status \notin OkStatuses(calls[t].op) => calls[t].appended = {},
         RedirectsStay /\ calls[t].op \in Singles /\ status \in {200, 201}
           => calls[t].appended = calls[t].events,
         calls[t].op \in BatchOps /\ body \notin Mangled \cup {"results", "envelope"}
           => calls[t].appended = {}
  PROVE  IInv'
<1> DEFINE call == calls[t]
           response == [status |-> status, body |-> body, code |-> code]
           new == [call EXCEPT !.pc = "answered", !.todo = todo, !.response = response]
<1>1. call \in CallRecords /\ CallInv(call) /\ call.pc = "sent"
  BY DEF IInv, TypeOK, Answer
<1>2. response \in Responses
  BY DEF Responses
<1>3. response.status = status /\ response.body = body
  OBVIOUS
<1>4. calls' = [calls EXCEPT ![t] = new] /\ UNCHANGED <<chain, late>>
  BY DEF Answer
<1> HIDE DEF response
<1>5. new \in CallRecords
  BY <1>1, <1>2 DEF CallRecords
<1>6. /\ new.pc = "answered" /\ new.op = call.op /\ new.events = call.events
      /\ new.todo = todo /\ new.appended = call.appended
      /\ new.response = response /\ new.outcome = call.outcome
  BY <1>1 DEF CallRecords
<1> HIDE DEF new
<1>7. CallInv(new)
  BY <1>1, <1>3, <1>6 DEF CallInv, SentInv, AnsweredInv, DoneInv
<1> QED BY <1>4, <1>5, <1>7, OneCall DEF IInv, TypeOK

LEMMA ResolverRefusesStep ==
  ASSUME IInv, NEW t \in Tasks, NEW code \in Refusals, NEW mangled \in Mangled \cup {"none"},
         ResolverRefuses(t, code, mangled)
  PROVE  IInv'
<1> DEFINE body == IF mangled = "none" THEN "envelope" ELSE mangled
<1>1. calls[t] \in CallRecords /\ CallInv(calls[t]) /\ calls[t].pc = "sent"
  BY DEF IInv, TypeOK, ResolverRefuses, Answer
<1>2. code \in DOMAIN Registry /\ Registry[code] \in 401..422
  BY RegistryStatus, RefusalAssumption
<1>3. calls[t].appended = {}
  BY <1>1 DEF CallInv, SentInv, ResolverRefuses, Untouched
<1>4. Answer(t, {}, Registry[code], body, code)
  BY DEF ResolverRefuses
<1>5. body \in Mangled \cup {"envelope"}
  OBVIOUS
<1> HIDE DEF body
<1>6. Registry[code] \in Statuses /\ Registry[code] \notin {200, 201}
  BY <1>2 DEF Statuses
<1>7. calls[t].op \in BatchOps => body \in Mangled \cup {"results", "envelope"}
  BY <1>5
<1>8. body \in Mangled \cup {"none", "envelope", "value", "object", "results"}
  BY <1>5
<1>9. code \in {"none"} \cup EnvelopeCodes \cup DOMAIN Registry
  BY <1>2
<1> QED BY <1>3, <1>4, <1>6, <1>7, <1>8, <1>9, AnswerStep

LEMMA ResolverAnswersStep ==
  ASSUME IInv, NEW t \in Tasks, NEW mangled \in Mangled \cup {"none"}, ResolverAnswers(t, mangled)
  PROVE  IInv'
<1> DEFINE call == calls[t]
           proper == ProperAnswer(call)
           body == IF mangled = "none" THEN proper.body ELSE mangled
<1>1. call \in CallRecords /\ CallInv(call) /\ call.pc = "sent" /\ call.todo = {}
  BY DEF IInv, TypeOK, ResolverAnswers, Answer
<1>2. call.at \in {"operation", "object"} /\ (RedirectsStay => call.at = "operation")
  BY <1>1 DEF CallInv, SentInv, ResolverAnswers
<1>3. Answer(t, {}, proper.status, body, "none")
  BY DEF ResolverAnswers
<1>13. call.at = "object" => call.appended = {} /\ proper = [status |-> 200, body |-> "object"]
  BY <1>1 DEF CallInv, SentInv, ProperAnswer
<1>4. call.at = "operation" /\ call.op \in Reads => proper = [status |-> 200, body |-> "value"]
  BY DEF ProperAnswer, Singles, Reads
<1>5. call.at = "operation" /\ call.op \in Singles => proper = [status |-> 201, body |-> "value"]
  BY DEF ProperAnswer, Singles, Reads
<1>6. call.at = "operation" /\ call.op \in BatchOps
        => proper.body = "results" /\ proper.status \in {200, 207, 422}
  BY DEF ProperAnswer, Singles, Reads, BatchOps
<1>7. call.op \in Singles \cup BatchOps \cup Reads
  BY <1>1 DEF CallRecords
<1>8. proper.status \in {200, 201, 207, 422} /\ proper.status \in OkStatuses(call.op)
  BY <1>2, <1>13, <1>4, <1>5, <1>6, <1>7 DEF OkStatuses, Singles, Reads, BatchOps
<1>9. /\ proper.body \in {"value", "results", "object"}
      /\ call.op \in BatchOps /\ proper.body # "results" => call.appended = {}
  BY <1>2, <1>13, <1>4, <1>5, <1>6, <1>7
<1>10. RedirectsStay /\ call.op \in Singles => call.appended = call.events
  BY <1>1, <1>2 DEF CallInv, SentInv
<1>11. /\ body \in Mangled \cup {"value", "results", "object"} /\ body # "envelope"
       /\ call.op \in BatchOps /\ body \notin Mangled \cup {"results"} => call.appended = {}
  BY <1>9, MangledAssumption
<1>12. proper.status \in Statuses
  BY <1>8 DEF Statuses
<1> HIDE DEF body, proper
<1> QED BY <1>1, <1>3, <1>8, <1>10, <1>11, <1>12, AnswerStep

LEMMA GatewayAnswersStep ==
  ASSUME IInv, NEW t \in Tasks, NEW status \in GatewayStatuses, NEW body, NEW code,
         body \in Mangled \cup {"envelope"}, code \in {"none"} \cup EnvelopeCodes,
         GatewayAnswers(t, status, body, code)
  PROVE  IInv'
<1> DEFINE todo == IF status < 500 THEN {} ELSE calls[t].todo
<1>1. status \in 300..599
  BY StatusAssumption
<1>2. status < 500 => calls[t].appended = {}
  BY DEF GatewayAnswers, Untouched
<1>3. Answer(t, todo, status, body, code)
  BY DEF GatewayAnswers
<1>4. todo \in SUBSET calls[t].todo /\ (status < 500 => todo = {})
  OBVIOUS
<1> HIDE DEF todo
<1>5. status \in Statuses /\ status \notin {200, 201}
  BY <1>1 DEF Statuses
<1>6. body \in Mangled \cup {"none", "envelope", "value", "object", "results"}
  OBVIOUS
<1>7. code \in {"none"} \cup EnvelopeCodes \cup DOMAIN Registry
  OBVIOUS
<1> QED BY <1>2, <1>3, <1>4, <1>5, <1>6, <1>7, AnswerStep

LEMMA ProcessLateStep ==
  ASSUME IInv, NEW e \in late, ProcessLate(e)
  PROVE  IInv'
<1>1. e \in Events /\ late' \subseteq Events /\ calls' = calls
  BY DEF IInv, TypeOK, ProcessLate
<1>2. chain' \in [Objects -> Seq(Names)]
  BY <1>1, ChainTyped DEF IInv, TypeOK, ProcessLate
<1> QED BY <1>1, <1>2 DEF IInv, TypeOK, CallInv, SentInv, AnsweredInv, DoneInv

-----------------------------------------------------------------------------
(* The invariant and what follows from it *)

LEMMA Inductive == IInv /\ [Next]_vars => IInv'
<1> SUFFICES ASSUME IInv, [Next]_vars PROVE IInv'
  OBVIOUS
<1>1. ASSUME NEW t \in Tasks, NEW op \in Operations[t], NEW events \in Arguments(op), Begin(t, op, events)
      PROVE  IInv'
  BY <1>1, BeginStep
<1>2. ASSUME NEW t \in Tasks, NEW op \in Operations[t], BeginRefused(t, op)
      PROVE  IInv'
  BY <1>2, BeginRefusedStep
<1>3. ASSUME NEW t \in Tasks, Receive(t) \/ TransportFails(t)
      PROVE  IInv'
  BY <1>3, ReceiveStep, TransportFailsStep
<1>4. ASSUME NEW t \in Tasks, NEW target \in RedirectTargets, Redirect(t, target)
      PROVE  IInv'
  BY <1>4, RedirectStep
<1>5. ASSUME NEW t \in Tasks, NEW e \in calls[t].todo, AppendEvent(t, e) \/ RejectOfBatch(t, e)
      PROVE  IInv'
  BY <1>5, AppendEventStep, RejectOfBatchStep
<1>6. ASSUME NEW t \in Tasks, NEW code \in Refusals, NEW mangled \in Mangled \cup {"none"},
             ResolverRefuses(t, code, mangled)
      PROVE  IInv'
  BY <1>6, ResolverRefusesStep
<1>7. ASSUME NEW t \in Tasks, NEW mangled \in Mangled \cup {"none"}, ResolverAnswers(t, mangled)
      PROVE  IInv'
  BY <1>7, ResolverAnswersStep
<1>8. ASSUME NEW t \in Tasks, NEW status \in GatewayStatuses, NEW body \in Mangled,
             GatewayAnswers(t, status, body, "none")
      PROVE  IInv'
  BY <1>8, GatewayAnswersStep
<1>9. ASSUME NEW t \in Tasks, NEW status \in GatewayStatuses, NEW code \in EnvelopeCodes,
             GatewayAnswers(t, status, "envelope", code)
      PROVE  IInv'
  BY <1>9, GatewayAnswersStep
<1>10. ASSUME NEW e \in late, ProcessLate(e)
       PROVE  IInv'
  BY <1>10, ProcessLateStep
<1>11. CASE UNCHANGED vars
  BY <1>11 DEF vars, IInv, TypeOK, CallInv, SentInv, AnsweredInv, DoneInv
<1> QED BY <1>1, <1>2, <1>3, <1>4, <1>5, <1>6, <1>7, <1>8, <1>9, <1>10, <1>11 DEF Next

THEOREM Invariance == Spec => []IInv
<1>1. Init => IInv
  BY Initially
<1>2. IInv /\ [Next]_vars => IInv'
  BY Inductive
<1> QED BY <1>1, <1>2, PTL DEF Spec

\* Every variable keeps its type.
THEOREM TypeCorrect == Spec => []TypeOK
<1>1. IInv => TypeOK
  BY DEF IInv
<1> QED BY <1>1, Invariance, PTL

\* A create or push that returned has appended its event (create and push of
\* client.py), whatever was lost, refused, delayed or mangled.
THEOREM ReturnedIsAppendedAlways ==
  ASSUME RedirectsStay PROVE Spec => []ReturnedIsAppended
<1>1. IInv => ReturnedIsAppended
  BY DEF IInv, CallInv, ReturnedIsAppended
<1> QED BY <1>1, Invariance, PTL

\* A PhipError with a status below 500 means that the call has appended nothing,
\* wherever a redirect may have led it.
THEOREM ErrorBelow500IsRefusalAlways == Spec => []ErrorBelow500IsRefusal
<1>1. IInv => ErrorBelow500IsRefusal
  BY DEF IInv, CallInv, ErrorBelow500IsRefusal
<1> QED BY <1>1, Invariance, PTL

-----------------------------------------------------------------------------
(* Error responses *)

\* A body that can be decoded, and an error code that can be looked up.
Decodable(response) ==
  /\ response.body # "undecodable"
  /\ response.body = "envelope" => response.code # "unhashable"

\* The response that t receives is raised as a PhipError of its status, or is the
\* 404 that meta takes for an empty document.
BecomesPhipError(t) ==
  calls'[t].outcome \in
    {Returned("{}")} \cup {Raised(class, calls[t].response.status) : class \in PhipErrors}

\* An envelope of any code, registered or not, and any other body alike.
LEMMA ErrorStatusIsRaised ==
  ASSUME NEW op, NEW response, Decodable(response),
         response.status \notin OkStatuses(op)
  PROVE  \E class \in PhipErrors :
           HandleResponse(op, response) = Raised(class, response.status)
<1>1. CASE response.body = "envelope"
  <2>1. HandleResponse(op, response) = FromEnvelope(response.code, response.status)
    BY <1>1 DEF HandleResponse
  <2>2. FromEnvelope(response.code, response.status)
          = Raised(IF response.code \in DOMAIN Registry THEN response.code ELSE "PHIP_ERROR",
                   response.status)
    BY <1>1 DEF FromEnvelope, Decodable
  <2> QED
    BY <2>1, <2>2 DEF PhipErrors
<1>2. CASE response.body # "envelope"
  <2>1. HandleResponse(op, response) = Raised("PHIP_ERROR", response.status)
    BY <1>2 DEF HandleResponse, Decodable
  <2> QED
    BY <2>1 DEF PhipErrors
<1> QED
  BY <1>1, <1>2

\* "All 4xx/5xx responses are converted to typed PhipError subclasses" (client.py:14)
\* fails for no other responses than those of ErrorResponsesBecomePhipErrors's
\* violation: bodies that the decoder refuses and codes that are not strings.
THEOREM DecodableErrorsBecomePhipErrors ==
  Spec => [][\A t \in Tasks :
               /\ Receive(t)
               /\ Decodable(calls[t].response)
               /\ calls[t].response.status >= 400
               /\ calls[t].response.status \notin OkStatuses(calls[t].op)
               => BecomesPhipError(t)]_vars
<1>1. ASSUME IInv, NEW t \in Tasks, Receive(t), Decodable(calls[t].response),
             calls[t].response.status \notin OkStatuses(calls[t].op)
      PROVE  BecomesPhipError(t)
  <2> DEFINE outcome == HandleResponse(calls[t].op, calls[t].response)
  <2>1. PICK class \in PhipErrors : outcome = Raised(class, calls[t].response.status)
    BY <1>1, ErrorStatusIsRaised
  <2> HIDE DEF outcome
  <2>2. calls'[t].outcome = OutcomeFor(calls[t].op, outcome)
    <3>1. calls' = [calls EXCEPT ![t] =
            [@ EXCEPT !.pc = "done", !.at = "operation", !.todo = {}, !.response = NoResponse,
                      !.outcome = OutcomeFor(calls[t].op, outcome)]]
      BY <1>1 DEF Receive, End, outcome
    <3>2. calls \in [Tasks -> CallRecords]
      BY <1>1 DEF IInv, TypeOK
    <3> QED
      BY <3>1, <3>2 DEF CallRecords
  <2>3. OutcomeFor(calls[t].op, outcome) \in {Returned("{}"), outcome}
    BY DEF OutcomeFor
  <2> QED
    BY <2>1, <2>2, <2>3 DEF BecomesPhipError
<1>2. IInv /\ [Next]_vars =>
        [\A t \in Tasks :
           /\ Receive(t)
           /\ Decodable(calls[t].response)
           /\ calls[t].response.status >= 400
           /\ calls[t].response.status \notin OkStatuses(calls[t].op)
           => BecomesPhipError(t)]_vars
  BY <1>1
<1> QED
  BY <1>2, Invariance, PTL DEF Spec

-----------------------------------------------------------------------------
(* The calls implement the submissions *)

LEMMA OpenStatus ==
  ASSUME NEW call
  PROVE  /\ call.pc # "done" => Status(call) = "open" /\ Told(call) = {}
         /\ call.pc = "done" => Status(call) # "open"
<1>1. call.pc # "done" => Status(call) = "open"
  BY DEF Status
<1>2. call.pc = "done" => Status(call) # "open"
  BY DEF Status
<1>3. Status(call) = "open" => Told(call) = {}
  BY DEF Told
<1> QED BY <1>1, <1>2, <1>3

\* A step of one task replaces its submission.
LEMMA OneSubmission ==
  ASSUME IInv, NEW t \in Tasks, NEW new, calls' = [calls EXCEPT ![t] = new]
  PROVE  submissions' = [submissions EXCEPT ![t] = SubmissionOf(new)]
<1>1. \A s \in Tasks : calls'[s] = IF s = t THEN new ELSE calls[s]
  BY DEF IInv, TypeOK
<1>2. submissions' = [s \in Tasks |-> SubmissionOf(calls'[s])]
  BY DEF submissions, SubmissionOf, Status, Told
<1>3. submissions = [s \in Tasks |-> SubmissionOf(calls[s])]
  BY DEF submissions
<1> QED BY <1>1, <1>2, <1>3

LEMMA BeginRefines ==
  ASSUME IInv, NEW t \in Tasks, NEW op \in Operations[t], NEW events \in Arguments(op),
         Begin(t, op, events)
  PROVE  Abstract!Submit(t, events) /\ events \in Batches
<1> DEFINE new == [Idle EXCEPT !.pc = "sent", !.op = op, !.events = events, !.todo = events]
<1>1. calls' = [calls EXCEPT ![t] = new] /\ UNCHANGED <<chain, late>> /\ calls[t].pc = "done"
  BY DEF Begin
<1>2. new.pc = "sent" /\ new.events = events /\ new.appended = {}
  BY DEF Idle
<1> HIDE DEF new
<1>3. SubmissionOf(new) = [status |-> "open", events |-> events, appended |-> {}, told |-> {}]
  BY <1>2, OpenStatus DEF SubmissionOf
<1>4. submissions' = [submissions EXCEPT ![t] = SubmissionOf(new)]
  BY <1>1, OneSubmission
<1>5. submissions[t].status # "open"
  BY <1>1, OpenStatus DEF submissions, SubmissionOf
<1>6. events \in Batches
  BY DEF Arguments
<1> QED BY <1>1, <1>3, <1>4, <1>5, <1>6 DEF Abstract!Submit, Abstract!Replace

LEMMA BeginRefusedRefines ==
  ASSUME IInv, NEW t \in Tasks, NEW op \in Operations[t], BeginRefused(t, op)
  PROVE  Abstract!RefuseAtOnce(t)
<1> DEFINE new == [Idle EXCEPT !.op = op, !.outcome = Raised("ValueError", 0)]
<1>1. calls' = [calls EXCEPT ![t] = new] /\ UNCHANGED <<chain, late>> /\ calls[t].pc = "done"
  BY DEF BeginRefused
<1>2. new.pc = "done" /\ new.events = {} /\ new.appended = {}
      /\ new.outcome.kind = "raised" /\ new.outcome.value = "ValueError"
  BY DEF Idle, Raised
<1> HIDE DEF new
<1>8. ~Tells(new.op, new.outcome) /\ Refuses(new.outcome)
  BY <1>2 DEF Tells, Refuses
<1>3. Status(new) = "refused"
  BY <1>2, <1>8 DEF Status
<1>4. Told(new) = {}
  BY <1>3 DEF Told
<1>5. SubmissionOf(new) = [status |-> "refused", events |-> {}, appended |-> {}, told |-> {}]
  BY <1>2, <1>3, <1>4 DEF SubmissionOf
<1>6. submissions' = [submissions EXCEPT ![t] = SubmissionOf(new)]
  BY <1>1, OneSubmission
<1>7. submissions[t].status # "open"
  BY <1>1, OpenStatus DEF submissions, SubmissionOf
<1> QED BY <1>1, <1>5, <1>6, <1>7 DEF Abstract!RefuseAtOnce, Abstract!Replace

\* What ends a call tells, refuses or gives up the submission.
LEMMA EndRefines ==
  ASSUME RedirectsStay, IInv, NEW t \in Tasks, NEW outcome \in Outcomes, calls[t].pc # "done",
         Truthful(calls[t], outcome), End(t, outcome)
  PROVE  \/ Abstract!Tell(t) \/ Abstract!Refuse(t)
         \/ \E left \in SUBSET submissions[t].events : Abstract!GiveUp(t, left)
<1> DEFINE call == calls[t]
           out == OutcomeFor(call.op, outcome)
           new == [call EXCEPT !.pc = "done", !.at = "operation", !.todo = {},
                               !.response = NoResponse, !.outcome = out]
<1>1. call \in CallRecords /\ CallInv(call)
  BY DEF IInv, TypeOK
<1>2. out \in Outcomes /\ Truthful(call, out)
  BY <1>1, MetaTruthful
<1>3. calls' = [calls EXCEPT ![t] = new] /\ chain' = chain /\ late' = late \cup call.todo
  BY DEF End
<1> HIDE DEF out
<1>4. /\ new.pc = "done" /\ new.op = call.op /\ new.events = call.events
      /\ new.appended = call.appended /\ new.outcome = out
  BY <1>1 DEF CallRecords
<1> HIDE DEF new
<1>5. submissions[t] = [status |-> "open", events |-> call.events,
                        appended |-> call.appended, told |-> {}]
  BY OpenStatus DEF submissions, SubmissionOf
<1>12. SubmissionOf(new) = [status |-> Status(new), events |-> submissions[t].events,
                            appended |-> call.appended, told |-> Told(new)]
  BY <1>4, <1>5 DEF SubmissionOf
<1>6. Abstract!Continue(t, Status(new), call.appended, Told(new))
  BY <1>3, <1>12, OneSubmission DEF Abstract!Continue, Abstract!Replace
<1>11. out.kind \in {"returned", "raised"}
  BY <1>2 DEF Truthful, Outcomes
<1>7. Status(new) \in {"told", "refused", "unclear"}
  BY <1>4, <1>11 DEF Status
<1>8. CASE Status(new) = "told"
  <2>1. out.kind = "returned" /\ (call.op \in BatchOps => out.value # "None")
    BY <1>4, <1>8, <1>11 DEF Status, Tells
  <2>2. call.op \in Singles => Told(new) = call.appended /\ call.todo = {}
    BY <1>2, <1>4, <1>8, <2>1 DEF Told, Truthful
  <2>3. call.op \in BatchOps => Told(new) = call.appended /\ call.todo = {}
    BY <1>2, <1>4, <1>8, <2>1 DEF Told, Truthful, Singles, BatchOps
  <2>4. call.op \in Reads => Told(new) = {} /\ call.appended = {} /\ call.todo = {}
    BY <1>1, <1>4, <1>8 DEF Told, CallInv, Singles, Reads
  <2>5. Told(new) = call.appended /\ late' = late
    BY <1>1, <1>3, <2>2, <2>3, <2>4 DEF CallRecords
  <2> QED BY <1>3, <1>5, <1>6, <1>8, <2>5 DEF Abstract!Tell
<1>9. CASE Status(new) = "refused"
  <2>1. call.appended = {} /\ call.todo = {}
    <3>1. Refuses(out)
      BY <1>4, <1>9, <1>11 DEF Status
    <3> QED BY <1>2, <3>1 DEF Truthful, Refuses
  <2>2. Told(new) = {} /\ late' = late
    BY <1>3, <1>9, <2>1 DEF Told
  <2> QED BY <1>3, <1>5, <1>6, <1>9, <2>1, <2>2 DEF Abstract!Refuse
<1>10. CASE Status(new) = "unclear"
  <2>1. Told(new) = {}
    BY <1>10 DEF Told
  <2>3. call.todo \in SUBSET submissions[t].events
    BY <1>1, <1>5 DEF CallInv
  <2>4. Abstract!GiveUp(t, call.todo)
    BY <1>3, <1>5, <1>6, <1>10, <2>1, <2>3 DEF Abstract!GiveUp
  <2> QED BY <2>3, <2>4
<1> QED BY <1>7, <1>8, <1>9, <1>10

LEMMA AppendEventRefines ==
  ASSUME IInv, NEW t \in Tasks, NEW e \in calls[t].todo, AppendEvent(t, e)
  PROVE  Abstract!AppendEvent(t, e) /\ e \in submissions[t].events
<1> DEFINE call == calls[t]
           new == [call EXCEPT !.todo = call.todo \ {e}, !.appended = call.appended \cup {e}]
<1>1. call \in CallRecords /\ CallInv(call) /\ e \in call.todo /\ call.pc # "done"
  BY DEF IInv, TypeOK, AppendEvent
<1>2. calls' = [calls EXCEPT ![t] = new] /\ late' = late
  BY DEF AppendEvent
<1>3. new.pc = call.pc /\ new.events = call.events /\ new.appended = call.appended \cup {e}
  BY <1>1 DEF CallRecords
<1> HIDE DEF new
<1>4. submissions[t] = [status |-> "open", events |-> call.events,
                        appended |-> call.appended, told |-> {}]
  BY <1>1, OpenStatus DEF submissions, SubmissionOf
<1>5. SubmissionOf(new) = [status |-> "open", events |-> submissions[t].events,
                           appended |-> submissions[t].appended \cup {e}, told |-> {}]
  BY <1>1, <1>3, <1>4, OpenStatus DEF SubmissionOf
<1>6. Abstract!Continue(t, "open", submissions[t].appended \cup {e}, {})
  BY <1>2, <1>5, OneSubmission DEF Abstract!Continue, Abstract!Replace
<1>7. e \in submissions[t].events \ submissions[t].appended
  BY <1>1, <1>4 DEF CallInv
<1>8. Abstract!Fits(e) /\ chain' = Abstract!Extended(e)
  BY DEF AppendEvent, Abstract!Fits, Abstract!Extended
<1> QED BY <1>2, <1>4, <1>6, <1>7, <1>8 DEF Abstract!AppendEvent

\* The other steps of a request change nothing that its submission shows.
LEMMA SilentRefines ==
  ASSUME IInv, NEW t \in Tasks, NEW new, calls' = [calls EXCEPT ![t] = new],
         calls[t].pc # "done", new.pc # "done", new.events = calls[t].events,
         new.appended = calls[t].appended, UNCHANGED <<chain, late>>
  PROVE  UNCHANGED Abstract!vars
<1>1. SubmissionOf(new) = SubmissionOf(calls[t])
  BY OpenStatus DEF SubmissionOf
<1>2. submissions' = [submissions EXCEPT ![t] = SubmissionOf(new)]
  BY OneSubmission
<1>3. submissions = [s \in Tasks |-> SubmissionOf(calls[s])]
  BY DEF submissions
<1>4. submissions' = submissions
  BY <1>1, <1>2, <1>3
<1> QED BY <1>4 DEF Abstract!vars

LEMMA RedirectRefines ==
  ASSUME IInv, NEW t \in Tasks, NEW target, Redirect(t, target)
  PROVE  UNCHANGED Abstract!vars
<1> DEFINE new == [calls[t] EXCEPT !.at = target, !.todo = {}]
<1>1. new.pc = "sent" /\ new.events = calls[t].events /\ new.appended = calls[t].appended
  BY DEF IInv, TypeOK, CallRecords, Redirect
<1>2. calls' = [calls EXCEPT ![t] = new] /\ calls[t].pc = "sent" /\ UNCHANGED <<chain, late>>
  BY DEF Redirect
<1> HIDE DEF new
<1> QED BY <1>1, <1>2, SilentRefines

LEMMA RejectRefines ==
  ASSUME IInv, NEW t \in Tasks, NEW e, RejectOfBatch(t, e)
  PROVE  UNCHANGED Abstract!vars
<1> DEFINE new == [calls[t] EXCEPT !.todo = calls[t].todo \ {e}]
<1>1. new.pc = "sent" /\ new.events = calls[t].events /\ new.appended = calls[t].appended
  BY DEF IInv, TypeOK, CallRecords, RejectOfBatch
<1>2. calls' = [calls EXCEPT ![t] = new] /\ calls[t].pc = "sent" /\ UNCHANGED <<chain, late>>
  BY DEF RejectOfBatch
<1> HIDE DEF new
<1> QED BY <1>1, <1>2, SilentRefines

LEMMA AnswerRefines ==
  ASSUME IInv, NEW t \in Tasks, NEW todo, NEW status, NEW body, NEW code,
         Answer(t, todo, status, body, code)
  PROVE  UNCHANGED Abstract!vars
<1> DEFINE response == [status |-> status, body |-> body, code |-> code]
           new == [calls[t] EXCEPT !.pc = "answered", !.todo = todo, !.response = response]
<1>1. calls' = [calls EXCEPT ![t] = new] /\ calls[t].pc = "sent" /\ UNCHANGED <<chain, late>>
  BY DEF Answer
<1> HIDE DEF response
<1>2. new.pc = "answered" /\ new.events = calls[t].events /\ new.appended = calls[t].appended
  BY DEF IInv, TypeOK, CallRecords
<1> HIDE DEF new
<1> QED BY <1>1, <1>2, SilentRefines

LEMMA ProcessLateRefines ==
  ASSUME NEW e \in late, ProcessLate(e)
  PROVE  Abstract!ProcessLate(e)
<1>1. submissions' = submissions
  BY DEF ProcessLate, submissions, SubmissionOf, Status, Told
<1> QED BY <1>1 DEF ProcessLate, Abstract!ProcessLate, Abstract!Fits, Abstract!Extended

LEMMA StepRefines == RedirectsStay /\ IInv /\ [Next]_vars => [Abstract!Next]_(Abstract!vars)
<1> SUFFICES ASSUME RedirectsStay, IInv, [Next]_vars PROVE Abstract!Next \/ UNCHANGED Abstract!vars
  OBVIOUS
<1>1. ASSUME NEW t \in Tasks, NEW op \in Operations[t], NEW events \in Arguments(op), Begin(t, op, events)
      PROVE  Abstract!Next
  BY <1>1, BeginRefines DEF Abstract!Next
<1>2. ASSUME NEW t \in Tasks, NEW op \in Operations[t], BeginRefused(t, op)
      PROVE  Abstract!Next
  BY <1>2, BeginRefusedRefines DEF Abstract!Next
<1>3. ASSUME NEW t \in Tasks, Receive(t)
      PROVE  Abstract!Next
  <2>1. calls[t] \in CallRecords /\ CallInv(calls[t]) /\ calls[t].pc = "answered"
    BY <1>3 DEF IInv, TypeOK, Receive
  <2> QED BY <1>3, <2>1, HandleResponseTruthful, EndRefines DEF Receive, Abstract!Next
<1>4. ASSUME NEW t \in Tasks, TransportFails(t)
      PROVE  Abstract!Next
  BY <1>4, TransportErrorTruthful, EndRefines DEF TransportFails, Abstract!Next
<1>5. ASSUME NEW t \in Tasks, NEW target \in RedirectTargets, Redirect(t, target)
      PROVE  UNCHANGED Abstract!vars
  BY <1>5, RedirectRefines
<1>6. ASSUME NEW t \in Tasks, NEW e \in calls[t].todo, AppendEvent(t, e)
      PROVE  Abstract!Next
  BY <1>6, AppendEventRefines DEF Abstract!Next
<1>7. ASSUME NEW t \in Tasks, NEW e \in calls[t].todo, RejectOfBatch(t, e)
      PROVE  UNCHANGED Abstract!vars
  BY <1>7, RejectRefines
<1>8. ASSUME NEW t \in Tasks, NEW code \in Refusals, NEW mangled \in Mangled \cup {"none"},
             ResolverRefuses(t, code, mangled)
      PROVE  UNCHANGED Abstract!vars
  BY <1>8, AnswerRefines DEF ResolverRefuses
<1>9. ASSUME NEW t \in Tasks, NEW mangled \in Mangled \cup {"none"}, ResolverAnswers(t, mangled)
      PROVE  UNCHANGED Abstract!vars
  BY <1>9, AnswerRefines DEF ResolverAnswers
<1>10. ASSUME NEW t \in Tasks, NEW status \in GatewayStatuses, NEW body, NEW code,
              GatewayAnswers(t, status, body, code)
       PROVE  UNCHANGED Abstract!vars
  BY <1>10, AnswerRefines DEF GatewayAnswers
<1>11. ASSUME NEW e \in late, ProcessLate(e)
       PROVE  Abstract!Next
  BY <1>11, ProcessLateRefines DEF Abstract!Next
<1>12. CASE UNCHANGED vars
  BY <1>12 DEF vars, Abstract!vars, submissions, SubmissionOf, Status, Told
<1> QED BY <1>1, <1>2, <1>3, <1>4, <1>5, <1>6, <1>7, <1>8, <1>9, <1>10, <1>11, <1>12 DEF Next

\* What the calls of a client tell is what the abstract submissions promise.
THEOREM CallsImplementSubmissions ==
  ASSUME RedirectsStay PROVE Spec => ImplementsSubmission
<1>1. Init => Abstract!Init
  <2> SUFFICES ASSUME Init PROVE Abstract!Init
    OBVIOUS
  <2>3. Idle.pc = "done" /\ Idle.outcome.kind = "none" /\ Idle.events = {} /\ Idle.appended = {}
    BY DEF Idle, NoOutcome
  <2>1. Status(Idle) = "none" /\ Idle.events = {} /\ Idle.appended = {}
    BY <2>3 DEF Status, Tells, Refuses
  <2>2. SubmissionOf(Idle) = [status |-> "none", events |-> {}, appended |-> {}, told |-> {}]
    BY <2>1 DEF SubmissionOf, Told
  <2> QED BY <2>2 DEF Init, Abstract!Init, submissions
<1>2. IInv /\ [Next]_vars => [Abstract!Next]_(Abstract!vars)
  BY StepRefines
<1> QED BY <1>1, <1>2, Invariance, PTL DEF Spec, Abstract!Spec, ImplementsSubmission
=============================================================================
